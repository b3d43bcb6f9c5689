---------------------------- MODULE ReaderProofs ----------------------------
(***************************************************************************)
(* Proofs about what the readers make of the agents' files and keep of it. *)
(* TranscriptScan, for every set of callers, transcripts and cache keys,   *)
(* and ArchiveRecovery, for every set of transcripts and every bound:      *)
(*   ScanIsSound         SharedScanIsSound is an invariant: one scan per   *)
(*                       key, and no current answer misses a line the      *)
(*                       index has seen.                                   *)
(*   LedgerCountsOnce    CountedOnce is an invariant.                      *)
(*   RecoveryExact       RecoveryIsExact is an invariant.                  *)
(*   LagNeverForgotten   LagIsKnown: of all steps only a restart forgets   *)
(*                       that the history lags the ledger.                 *)
(* The readers of the vendors' session databases, for every set of         *)
(* messages and models, and the abstract throughput store, for every set   *)
(* of keys and facts: while lines are written whole ThroughputJournal      *)
(* implements it (StoreRefined in ThroughputJournalProofs), so what is     *)
(* proved here is what the files and the loader inherit.                   *)
(*   ReadsAreBracketed   SessionReadIsBracketed is an invariant.           *)
(*   StoreTypeCorrect, ServedIsDurable, AcknowledgedAreKept: the store.    *)
(***************************************************************************)
EXTENDS TranscriptScan, ArchiveRecovery, ThroughputStore, AgentDatabases,
        FiniteSetTheorems, TLAPS

(***************************************************************************)
(* The inductive invariant.  SharedScanIsSound says nothing of the scans   *)
(* that are under way: what they have read was right for the sizes they    *)
(* collected, which are the index's as long as the revision stays, and     *)
(* every cached trace reaches as far as the size it is cached under.       *)
(***************************************************************************)

CallType ==
    [pc : {"idle", "check", "hit", "wait", "woken", "collect", "decide", "parse", "gate",
           "publish"},
     done : BOOLEAN, retries : Nat, revision : Nat,
     sizes : [Transcripts -> -1..(2 * MaxLines)], data : Data,
     todo : SUBSET Transcripts, from : [Transcripts -> Entry],
     updates : [Transcripts -> Entry], got : Data, full : BOOLEAN]

\* The trace of an entry reaches the size it is cached under, or is disclosed
\* as failed.
EntryCovers(e) == e.failed \/ e.trace.upto >= e.size \div 2

\* The data reach the sizes, or disclose that they do not.
Reaches(data, sizes) ==
    data.why = {} =>
        \A f \in Transcripts :
            sizes[f] < 0 \/ f \in data.failed \/ data.traces[f].upto >= sizes[f] \div 2

\* Data of a revision that is the index's own reach the sizes it holds.
CurrentReaches(data, at, rev, sizes) == at <= rev /\ (at = rev => Reaches(data, sizes))

\* A size that was seen of a file is not more than what the file has now.
SeenOf(sizes, files) == \A f \in Transcripts : files[f].there => sizes[f] <= SizeOf(files[f])

\* What one call's locals owe, at a revision of the index.
CallOwes(r, rev, sizes, files) ==
    /\ r.pc \in {"decide", "parse"} =>
         r.data.revision <= rev /\ (r.data.revision = rev => r.sizes = sizes)
    /\ r.pc = "parse" =>
         \A f \in Transcripts :
             r.sizes[f] < 0 \/ f \in r.todo \/ f \in r.data.failed
                \/ r.data.traces[f].upto >= r.sizes[f] \div 2
    /\ r.pc = "gate" => CurrentReaches(r.data, r.data.revision, rev, sizes)
    /\ r.pc = "publish" /\ r.full =>
         r.revision = r.data.revision /\ CurrentReaches(r.data, r.revision, rev, sizes)
    /\ r.pc = "woken" /\ r.full => CurrentReaches(r.got, r.got.revision, rev, sizes)
    /\ \A f \in Transcripts : EntryCovers(r.updates[f])
    /\ SeenOf(r.sizes, files)

ScanTypes ==
    /\ ScanType
    /\ \A f \in Transcripts : SizeOf(text[f]) <= 2 * MaxLines
    /\ call \in [ScanCallers -> CallType]

ScanCovers ==
    /\ revision >= 1
    /\ \A c \in ScanCallers : CallOwes(call[c], revision, listed, text)
    /\ CurrentReaches(scanCache.data, scanCache.revision, revision, listed)
    /\ \A f \in Transcripts : EntryCovers(fileCache[f])
    /\ SeenOf(listed, text)

ScanInv == ScanTypes /\ OneScanPerKey /\ ScanCovers

(***************************************************************************)
(* Types.                                                                  *)
(***************************************************************************)

Text == [there : BOOLEAN, lines : 0..MaxLines, torn : BOOLEAN]

(* The sizes of files, and that a size stands for its complete lines.      *)
LEMMA SizeType ==
  ASSUME NEW t \in Text
  PROVE  /\ SizeOf(t) \in Int /\ SizeOf(t) >= -1
         /\ t.there => SizeOf(t) >= 0 /\ SizeOf(t) \div 2 = t.lines
         /\ ~t.there => SizeOf(t) = -1
  BY ScanConstants DEF ScanConstants, SizeOf, Text

(* The values that locals and caches start from.                           *)
LEMMA RestTypes ==
  /\ NoTrace \in Trace /\ NoEntry \in Entry /\ EmptyData \in Data
  /\ AtRest \in CallType
  /\ \A cause \in {"walk", "panic"} : Partial(cause) \in Data
<1> USE ScanConstants DEF ScanConstants
<1>1. NoTrace \in Trace
  BY DEF NoTrace, Trace
<1>2. NoEntry \in Entry
  BY <1>1 DEF NoEntry, Entry
<1>3. EmptyData \in Data
  BY <1>1 DEF EmptyData, Data
<1>4. \A cause \in {"walk", "panic"} : Partial(cause) \in Data
  BY <1>3 DEF Partial, Data
<1>5. AtRest \in CallType
  BY <1>2, <1>3 DEF AtRest, CallType
<1>6. QED
  BY <1>1, <1>2, <1>3, <1>4, <1>5

(***************************************************************************)
(* One caller's step.                                                      *)
(***************************************************************************)

\* The variables of the world a scan looks at.
Seen == <<text, listed, revision>>

(* A caller at rest owes nothing.                                          *)
LEMMA RestOwes ==
  ASSUME ScanInv
  PROVE  CallOwes(AtRest, revision, listed, text)
<1>1. \A f \in Transcripts : text[f] \in Text
  BY DEF ScanInv, ScanTypes, ScanType, Text
<1>2. SeenOf(AtRest.sizes, text)
  BY <1>1, SizeType DEF SeenOf, AtRest
<1>3. \A f \in Transcripts : EntryCovers(AtRest.updates[f])
  BY DEF AtRest, EntryCovers, NoEntry, NoTrace
<1>4. AtRest.pc = "idle"
  BY DEF AtRest
<1>5. QED
  BY <1>2, <1>3, <1>4 DEF CallOwes

(* Whoever scans for a key still does so after a step of caller c that     *)
(* stays on its side of the claim.                                         *)
Scanning == {"collect", "decide", "parse", "gate", "publish"}

LEMMA KeepsClaims ==
  ASSUME ScanInv, NEW c \in ScanCallers, NEW r \in CallType, Set(c, r), UNCHANGED inflight,
         r.pc \in Scanning <=> Pc(c) \in Scanning,
         r.pc = "wait" => inflight[Key(c)] # NoScanner
  PROVE  OneScanPerKey'
<1>1. call \in [ScanCallers -> CallType]
  BY DEF ScanInv, ScanTypes
<1>2. \A d \in ScanCallers : call'[d] = IF d = c THEN r ELSE call[d]
  BY <1>1 DEF Set
<1>3. QED
  BY <1>2 DEF ScanInv, OneScanPerKey, Pc, Key, Scanning

(* A step of caller c that changes its locals only.                        *)
LEMMA CallerStep ==
  ASSUME ScanInv, NEW c \in ScanCallers, NEW r \in CallType, Set(c, r),
         UNCHANGED Seen, UNCHANGED <<scanCache, fileCache, inflight>>,
         r.pc \in Scanning <=> Pc(c) \in Scanning,
         r.pc = "wait" => inflight[Key(c)] # NoScanner,
         CallOwes(r, revision, listed, text)
  PROVE  ScanInv'
<1>1. call \in [ScanCallers -> CallType]
  BY DEF ScanInv, ScanTypes
<1>2. \A d \in ScanCallers : call'[d] = IF d = c THEN r ELSE call[d]
  BY <1>1 DEF Set
<1>3. call' \in [ScanCallers -> CallType]
  BY <1>1 DEF Set
<1>4. OneScanPerKey'
  BY KeepsClaims
<1>5. \A d \in ScanCallers : call'[d].data \in Data /\ call'[d].got \in Data
  BY <1>3 DEF CallType
<1>6. ScanTypes'
  BY <1>3, <1>5 DEF Seen, ScanInv, ScanTypes, ScanType
<1>7. ScanCovers'
  BY <1>2 DEF Seen, ScanInv, ScanCovers
<1>8. QED
  BY <1>4, <1>6, <1>7 DEF ScanInv

(* Steps that only move a call along, with nothing gathered or all of it   *)
(* dropped: the cache look-ups, the waits and the returns.                 *)
LEMMA WaitingSteps ==
  ASSUME ScanInv, NEW c \in ScanCallers,
         \/ CallScan(c) \/ CancelScanContext(c) \/ TakeHit(c) \/ ConfirmHit(c) \/ JoinScan(c)
         \/ WakeWithResult(c) \/ WakeWithPartial(c) \/ WakeAndRetry(c) \/ CancelWait(c)
  PROVE  ScanInv'
<1> USE DEF Scanning, Seen, Pc
<1>a. /\ call[c] \in CallType /\ AtRest \in CallType /\ EmptyData \in Data
      /\ scanCache.data \in Data /\ revision \in Nat
  BY RestTypes DEF ScanInv, ScanTypes, ScanType
<1>b. CallOwes(call[c], revision, listed, text) /\ CallOwes(AtRest, revision, listed, text)
  BY RestOwes DEF ScanInv, ScanCovers
<1>1. CASE CallScan(c)
  <2> DEFINE r == [AtRest EXCEPT !.pc = "check"]
  <2>1. r \in CallType /\ r.pc = "check" /\ r.updates = AtRest.updates /\ r.sizes = AtRest.sizes
    BY <1>a DEF CallType
  <2>2. CallOwes(r, revision, listed, text)
    BY <1>b, <2>1 DEF CallOwes
  <2>3. QED
    BY <1>1, <2>1, <2>2, CallerStep DEF CallScan
<1>2. CASE CancelScanContext(c)
  <2> DEFINE r == [call[c] EXCEPT !.done = TRUE]
  <2>1. r \in CallType /\ r.pc = call[c].pc
    BY <1>a DEF CallType
  <2>2. CallOwes(r, revision, listed, text)
    BY <1>a, <1>b DEF CallOwes, CallType
  <2>3. r.pc = "wait" => inflight[Key(c)] # NoScanner
    BY <2>1 DEF ScanInv, OneScanPerKey
  <2>4. QED
    BY <1>2, <2>1, <2>2, <2>3, CallerStep DEF CancelScanContext
<1>3. CASE TakeHit(c)
  <2> DEFINE r == [call[c] EXCEPT !.pc = "hit", !.data = scanCache.data, !.revision = revision]
  <2>1. r \in CallType /\ r.pc = "hit" /\ r.updates = call[c].updates /\ r.sizes = call[c].sizes
    BY <1>a DEF CallType
  <2>2. CallOwes(r, revision, listed, text)
    BY <1>b, <2>1 DEF CallOwes
  <2>3. QED
    BY <1>3, <2>1, <2>2, CallerStep DEF TakeHit
<1>4. CASE ConfirmHit(c)
  <2> DEFINE r == [call[c] EXCEPT !.pc = "check", !.data = EmptyData]
  <2>1. r \in CallType /\ r.pc = "check" /\ r.updates = call[c].updates
        /\ r.sizes = call[c].sizes
    BY <1>a DEF CallType
  <2>2. CallOwes(r, revision, listed, text)
    BY <1>b, <2>1 DEF CallOwes
  <2>3. Set(c, r) \/ Set(c, AtRest)
    BY <1>4 DEF ConfirmHit, Reply
  <2>4. AtRest.pc = "idle"
    BY DEF AtRest
  <2>5. QED
    BY <1>a, <1>b, <1>4, <2>1, <2>2, <2>3, <2>4, CallerStep DEF ConfirmHit
<1>5. CASE JoinScan(c)
  <2> DEFINE r == [call[c] EXCEPT !.pc = "wait"]
  <2>1. r \in CallType /\ r.pc = "wait" /\ r.updates = call[c].updates /\ r.sizes = call[c].sizes
    BY <1>a DEF CallType
  <2>2. CallOwes(r, revision, listed, text)
    BY <1>b, <2>1 DEF CallOwes
  <2>3. QED
    BY <1>5, <2>1, <2>2, CallerStep DEF JoinScan
<1>6. CASE WakeAndRetry(c)
  <2> DEFINE r == [AtRest EXCEPT !.pc = "check", !.retries = call[c].retries + 1]
  <2>0. call[c].retries + 1 \in Nat
    BY <1>a DEF CallType
  <2>1. r \in CallType /\ r.pc = "check" /\ r.updates = AtRest.updates /\ r.sizes = AtRest.sizes
    BY <1>a, <2>0 DEF CallType
  <2>2. CallOwes(r, revision, listed, text)
    BY <1>b, <2>1 DEF CallOwes
  <2>3. QED
    BY <1>6, <2>1, <2>2, CallerStep DEF WakeAndRetry
<1>7. CASE WakeWithResult(c) \/ WakeWithPartial(c) \/ CancelWait(c)
  <2>1. Set(c, AtRest) /\ Pc(c) \in {"wait", "woken"} /\ AtRest.pc = "idle"
    BY <1>7 DEF WakeWithResult, WakeWithPartial, CancelWait, Reply, AtRest
  <2>2. QED
    BY <1>a, <1>b, <1>7, <2>1, CallerStep DEF WakeWithResult, WakeWithPartial, CancelWait
<1>8. QED
  BY <1>1, <1>2, <1>3, <1>4, <1>5, <1>6, <1>7

(* Deciding reuses a trace only for a file whose size has not changed, so  *)
(* what is not parsed again reaches its size already.                      *)
LEMMA DecideStep ==
  ASSUME ScanInv, NEW c \in ScanCallers, DecideParses(c)
  PROVE  ScanInv'
<1> DEFINE data == [WithReused(c) EXCEPT
                      !.why = @ \cup IF FailedBefore(c) = {} THEN {} ELSE {"file"}]
           from == [f \in Transcripts |->
                      IF f \in ToParse(c) /\ CanAppend(fileCache[f], call[c].sizes[f])
                      THEN fileCache[f] ELSE NoEntry]
           r == [call[c] EXCEPT !.pc = "parse", !.data = data, !.todo = ToParse(c),
                                !.from = from]
<1>a. /\ call[c] \in CallType /\ NoTrace \in Trace /\ NoEntry \in Entry
      /\ fileCache \in [Transcripts -> Entry]
      /\ call[c].data \in Data /\ call[c].sizes \in [Transcripts -> -1..(2 * MaxLines)]
  BY RestTypes DEF ScanInv, ScanTypes, ScanType, CallType
<1>b. CallOwes(call[c], revision, listed, text) /\ Pc(c) = "decide"
  BY DEF ScanInv, ScanCovers, DecideParses
<1>1. /\ Reused(c) \subseteq Transcripts /\ ToParse(c) \subseteq Transcripts
      /\ FailedBefore(c) \subseteq Transcripts
  BY DEF Reused, ToParse, FailedBefore
<1>2. WithReused(c) \in Data
      /\ WithReused(c).revision = call[c].data.revision
      /\ WithReused(c).failed = FailedBefore(c)
      /\ WithReused(c).traces = [f \in Transcripts |->
                                  IF f \in Reused(c) THEN fileCache[f].trace ELSE NoTrace]
  BY <1>a, <1>1 DEF WithReused, Data, Entry
<1>3. data \in Data /\ data.revision = call[c].data.revision
      /\ data.failed = FailedBefore(c) /\ data.traces = WithReused(c).traces
  BY <1>2 DEF Data
<1>4. from \in [Transcripts -> Entry]
  BY <1>a
<1>5. r \in CallType /\ r.pc = "parse" /\ r.data = data /\ r.todo = ToParse(c)
      /\ r.sizes = call[c].sizes /\ r.updates = call[c].updates
  BY <1>a, <1>1, <1>3, <1>4 DEF CallType
<1>6. ASSUME NEW f \in Transcripts, call[c].sizes[f] >= 0, f \notin ToParse(c)
      PROVE  f \in data.failed \/ data.traces[f].upto >= call[c].sizes[f] \div 2
  <2>1. f \in Reused(c) /\ fileCache[f].size = call[c].sizes[f]
    BY <1>6 DEF ToParse, Reused, Unchanged
  <2>2. EntryCovers(fileCache[f])
    BY DEF ScanInv, ScanCovers
  <2>3. data.traces[f] = fileCache[f].trace
    BY <1>2, <1>3, <2>1
  <2>4. QED
    BY <1>3, <2>1, <2>2, <2>3 DEF EntryCovers, FailedBefore
<1>7. \A f \in Transcripts : r.sizes[f] < 0 \/ r.sizes[f] >= 0
  BY <1>a, <1>5
<1>8. CallOwes(r, revision, listed, text)
  BY <1>b, <1>3, <1>5, <1>6, <1>7 DEF CallOwes, Pc
<1>9. QED
  BY <1>5, <1>8, CallerStep DEF DecideParses, ReuseOrParse, Scanning, Seen, Pc

(* A parsed file's entry reaches the size it was listed with: the file has *)
(* not shrunk since it was seen.                                           *)
LEMMA ParsedStep ==
  ASSUME ScanInv, NEW c \in ScanCallers, NEW f \in Transcripts, NEW trace \in Trace,
         NEW failed \in BOOLEAN, Pc(c) = "parse", f \in call[c].todo,
         failed \/ trace.upto >= call[c].sizes[f] \div 2,
         Parsed(c, f, trace, failed),
         UNCHANGED Seen, UNCHANGED <<scanCache, fileCache, inflight>>
  PROVE  ScanInv'
<1> DEFINE entry == [size |-> call[c].sizes[f],
                     newline |-> text[f].there /\ SizeOf(text[f]) >= call[c].sizes[f]
                                 /\ call[c].sizes[f] > 0 /\ call[c].sizes[f] % 2 = 0,
                     trace |-> trace, failed |-> failed, retry |-> FALSE]
           r == [call[c] EXCEPT
                   !.todo = @ \ {f},
                   !.data.traces[f] = trace,
                   !.data.failed = IF failed THEN @ \cup {f} ELSE @,
                   !.updates[f] = entry]
<1>a. /\ call[c] \in CallType /\ call[c].data \in Data
      /\ call[c].sizes \in [Transcripts -> -1..(2 * MaxLines)]
      /\ call[c].updates \in [Transcripts -> Entry]
      /\ text[f].there \in BOOLEAN
  BY DEF ScanInv, ScanTypes, ScanType, CallType
<1>b. CallOwes(call[c], revision, listed, text)
  BY DEF ScanInv, ScanCovers
<1>1. entry \in Entry /\ entry.size = call[c].sizes[f] /\ entry.trace = trace
      /\ entry.failed = failed
  BY <1>a DEF Entry
<1>2. /\ r.data \in Data /\ r.data.revision = call[c].data.revision
      /\ r.data.traces = [call[c].data.traces EXCEPT ![f] = trace]
      /\ r.data.failed = IF failed THEN call[c].data.failed \cup {f} ELSE call[c].data.failed
  <2> DEFINE traces == [call[c].data.traces EXCEPT ![f] = trace]
             fails == IF failed THEN call[c].data.failed \cup {f} ELSE call[c].data.failed
             data == [call[c].data EXCEPT !.traces = traces, !.failed = fails]
  <2>1. r.data = data
    BY <1>a DEF CallType, Data
  <2>2. traces \in [Transcripts -> Trace] /\ fails \in SUBSET Transcripts
    BY <1>a DEF Data
  <2> HIDE DEF traces, fails, r
  <2>3. data \in Data
    BY <1>a, <2>2, Zenon DEF Data
  <2>4. data.revision = call[c].data.revision /\ data.traces = traces /\ data.failed = fails
    BY <1>a DEF Data
  <2> HIDE DEF data
  <2>5. QED
    BY <2>1, <2>3, <2>4 DEF traces, fails
<1>3. /\ r \in CallType /\ r.pc = "parse" /\ r.todo = call[c].todo \ {f}
      /\ r.sizes = call[c].sizes /\ r.updates = [call[c].updates EXCEPT ![f] = entry]
  <2>1. /\ call[c].todo \ {f} \in SUBSET Transcripts
        /\ [call[c].updates EXCEPT ![f] = entry] \in [Transcripts -> Entry]
    BY <1>a, <1>1 DEF CallType
  <2> HIDE DEF entry
  <2>2. r = [call[c] EXCEPT !.todo = call[c].todo \ {f}, !.data = r.data,
                            !.updates = [call[c].updates EXCEPT ![f] = entry]]
    BY <1>a DEF CallType
  <2>3. r \in CallType
    <3> HIDE DEF r
    <3>1. QED
      BY <1>a, <1>2, <2>1, <2>2, Zenon DEF CallType
  <2>4. /\ r.pc = call[c].pc /\ r.todo = call[c].todo \ {f} /\ r.sizes = call[c].sizes
        /\ r.updates = [call[c].updates EXCEPT ![f] = entry]
    BY <1>a DEF CallType
  <2>5. QED
    BY <2>3, <2>4 DEF Pc
<1>4. EntryCovers(entry)
  BY <1>1 DEF EntryCovers
<1>5. CallOwes(r, revision, listed, text)
  <2> HIDE DEF r, entry
  <2>1. /\ call[c].data.revision <= revision
        /\ call[c].data.revision = revision => call[c].sizes = listed
    BY <1>b DEF CallOwes, Pc
  <2>2. ASSUME NEW g \in Transcripts
        PROVE  \/ r.sizes[g] < 0 \/ g \in r.todo \/ g \in r.data.failed
               \/ r.data.traces[g].upto >= r.sizes[g] \div 2
    <3>1. CASE g = f
      BY <1>a, <1>2, <1>3, <3>1 DEF Data
    <3>2. CASE g # f
      BY <1>a, <1>b, <1>2, <1>3, <3>2 DEF CallOwes, Pc, Data
    <3>3. QED
      BY <3>1, <3>2
  <2>3. \A g \in Transcripts : EntryCovers(r.updates[g])
    BY <1>a, <1>b, <1>3, <1>4 DEF CallOwes
  <2>4. SeenOf(r.sizes, text)
    BY <1>b, <1>3 DEF CallOwes
  <2>5. QED
    BY <1>2, <1>3, <2>1, <2>2, <2>3, <2>4 DEF CallOwes
<1>6. QED
  BY <1>3, <1>5, CallerStep DEF Parsed, Scanning, Pc

(* Parsing a file that is there reaches its last line; a failure says so.  *)
LEMMA ParseSteps ==
  ASSUME ScanInv, NEW c \in ScanCallers, NEW f \in Transcripts,
         ParseFile(c, f) \/ FailParse(c, f)
  PROVE  ScanInv'
<1>a. /\ call[c] \in CallType /\ text[f] \in Text /\ NoTrace \in Trace
      /\ call[c].from[f] \in Entry /\ call[c].from[f].trace \in Trace
      /\ call[c].sizes[f] \in -1..(2 * MaxLines)
  BY RestTypes DEF ScanInv, ScanTypes, ScanType, CallType, Entry, Text
<1>1. CASE ParseFile(c, f)
  <2>1. call[c].sizes[f] <= SizeOf(text[f])
    BY <1>1 DEF ScanInv, ScanCovers, CallOwes, SeenOf, ParseFile
  <2>2. text[f].lines >= call[c].sizes[f] \div 2
    BY <1>a, <1>1, <2>1 DEF ParseFile, SizeOf, Text
  <2>3. WholeTrace(text[f]) \in Trace /\ WholeTrace(text[f]).upto = text[f].lines
    BY <1>a DEF WholeTrace, Trace, Text
  <2>4. LET trace == AppendTrace(call[c].from[f].trace, call[c].from[f].size, text[f])
        IN  trace \in Trace /\ trace.upto = text[f].lines
    <3>1. call[c].from[f].size \in Int /\ call[c].from[f].trace.tokens \in Nat
      BY <1>a DEF Entry, Trace
    <3>2. call[c].from[f].trace.tokens
            + (IF text[f].lines > call[c].from[f].size \div 2
               THEN text[f].lines - call[c].from[f].size \div 2 ELSE 0) \in Nat
      BY <1>a, <3>1 DEF Text
    <3>3. QED
      BY <1>a, <3>2 DEF AppendTrace, Trace, Text
  <2>5. QED
    BY <1>1, <2>2, <2>3, <2>4, ParsedStep DEF ParseFile, Seen
<1>2. CASE FailParse(c, f)
  <2>1. PICK trace \in {NoTrace, call[c].from[f].trace} : Parsed(c, f, trace, TRUE)
    BY <1>2 DEF FailParse
  <2>2. QED
    BY <1>a, <1>2, <2>1, ParsedStep DEF FailParse, Seen
<1>3. QED
  BY <1>1, <1>2

(* A panic drops the scan, and its result claims nothing.                  *)
LEMMA PanicStep ==
  ASSUME ScanInv, NEW c \in ScanCallers, PanicScan(c)
  PROVE  ScanInv'
<1> DEFINE r == [AtRest EXCEPT !.pc = "gate", !.done = call[c].done, !.data = Partial("panic")]
<1>a. call[c] \in CallType /\ AtRest \in CallType /\ Partial("panic") \in Data
  BY RestTypes DEF ScanInv, ScanTypes
<1>1. Partial("panic").why # {} /\ Partial("panic").revision = 0
  BY DEF Partial, EmptyData
<1>2. r \in CallType /\ r.pc = "gate" /\ r.data = Partial("panic")
      /\ r.updates = AtRest.updates /\ r.sizes = AtRest.sizes
  BY <1>a DEF CallType
<1>3. revision \in Nat
  BY DEF ScanInv, ScanTypes, ScanType
<1>4. CallOwes(r, revision, listed, text)
  <2> HIDE DEF r
  <2>1. CurrentReaches(r.data, r.data.revision, revision, listed)
    BY <1>1, <1>2, <1>3 DEF CurrentReaches, Reaches
  <2>2. QED
    BY <1>2, <2>1, RestOwes DEF CallOwes
<1>5. QED
  BY <1>2, <1>4, CallerStep DEF PanicScan, Scanning, Seen, Pc

(* The gate lets a scan through as full only at the revision it has.       *)
LEMMA GateStep ==
  ASSUME ScanInv, NEW c \in ScanCallers, GateRevision(c)
  PROVE  ScanInv'
<1> DEFINE full == ~call[c].done /\ IsComplete(call[c].data)
           moved == full /\ revision # call[c].data.revision
           r == [call[c] EXCEPT !.pc = "publish", !.full = full /\ ~moved,
                   !.revision = call[c].data.revision,
                   !.data.why = IF moved THEN @ \cup {"revision"} ELSE @,
                   !.data.revision = IF moved THEN revision ELSE @]
<1>a. /\ call[c] \in CallType /\ call[c].data \in Data /\ revision \in Nat
      /\ call[c].pc = "gate"
  BY DEF ScanInv, ScanTypes, ScanType, CallType, GateRevision, Pc
<1>b. CallOwes(call[c], revision, listed, text)
  BY DEF ScanInv, ScanCovers
<1>1. full \in BOOLEAN /\ moved \in BOOLEAN
  BY <1>a DEF CallType, IsComplete
<1>2. /\ r.data \in Data
      /\ ~moved => r.data = call[c].data
  <2> DEFINE data == [call[c].data EXCEPT !.why = IF moved THEN @ \cup {"revision"} ELSE @,
                                          !.revision = IF moved THEN revision ELSE @]
  <2>1. r.data = data
    BY <1>a DEF CallType, Data
  <2>2. data \in Data
    BY <1>a DEF Data
  <2>3. ~moved => data = call[c].data
    BY <1>a DEF Data
  <2> HIDE DEF data, r, moved
  <2>4. QED
    BY <2>1, <2>2, <2>3
<1>3. /\ r \in CallType /\ r.pc = "publish" /\ r.full = (full /\ ~moved)
      /\ r.revision = call[c].data.revision
      /\ r.updates = call[c].updates /\ r.sizes = call[c].sizes
  BY <1>a, <1>1, <1>2 DEF CallType, Data
<1>4. CallOwes(r, revision, listed, text)
  <2> HIDE DEF r
  <2>1. CurrentReaches(call[c].data, call[c].data.revision, revision, listed)
    BY <1>a, <1>b DEF CallOwes
  <2>2. QED
    BY <1>b, <1>2, <1>3, <2>1 DEF CallOwes
<1>5. Set(c, r)
  BY DEF GateRevision
<1>6. QED
  BY <1>a, <1>3, <1>4, <1>5, CallerStep DEF GateRevision, Scanning, Seen, Pc

(* A claim gives the key to a caller that has gathered nothing.            *)
LEMMA ClaimStep ==
  ASSUME ScanInv, NEW c \in ScanCallers, ClaimScan(c)
  PROVE  ScanInv'
<1> DEFINE r == [call[c] EXCEPT !.pc = "collect", !.data = EmptyData, !.retries = 0]
<1>a. /\ call \in [ScanCallers -> CallType] /\ call[c] \in CallType /\ EmptyData \in Data
      /\ inflight \in [Keys -> ScanCallers \cup {NoScanner}] /\ Key(c) \in Keys
      /\ NoScanner \notin ScanCallers
  BY RestTypes, ScanConstants DEF ScanConstants, ScanInv, ScanTypes, ScanType, Key
<1>1. r \in CallType /\ r.pc = "collect" /\ r.updates = call[c].updates
      /\ r.sizes = call[c].sizes
  BY <1>a DEF CallType
<1>2. CallOwes(r, revision, listed, text)
  BY <1>1 DEF CallOwes, ScanInv, ScanCovers
<1>3. \A d \in ScanCallers : call'[d] = IF d = c THEN r ELSE call[d]
  BY <1>a DEF ClaimScan, Set
<1>4. call' \in [ScanCallers -> CallType]
  BY <1>a, <1>1 DEF ClaimScan, Set
<1>5. /\ inflight' \in [Keys -> ScanCallers \cup {NoScanner}]
      /\ \A k \in Keys : inflight'[k] = IF k = Key(c) THEN c ELSE inflight[k]
      /\ inflight[Key(c)] = NoScanner
  BY <1>a DEF ClaimScan
<1>6. OneScanPerKey'
  <2> HIDE DEF r
  <2>1. \A d \in ScanCallers : Key(d) \in Keys
    BY ScanConstants DEF ScanConstants, Key
  <2>2. \A d \in ScanCallers : (call[d].pc \in Scanning <=> inflight[Key(d)] = d)
                                /\ (call[d].pc = "wait" => inflight[Key(d)] # NoScanner)
    BY DEF ScanInv, OneScanPerKey, Pc, Scanning
  <2>3. \A d \in ScanCallers : (call'[d].pc \in Scanning <=> inflight'[Key(d)] = d)
                                /\ (call'[d].pc = "wait" => inflight'[Key(d)] # NoScanner)
    BY <1>a, <1>1, <1>3, <1>5, <2>1, <2>2 DEF Scanning
  <2>4. QED
    BY <2>3 DEF OneScanPerKey, Pc, Scanning, Key
<1>7. ScanTypes'
  <2>1. \A d \in ScanCallers : call'[d].data \in Data /\ call'[d].got \in Data
    BY <1>4 DEF CallType
  <2>2. QED
    BY <1>4, <1>5, <2>1 DEF ClaimScan, ScanInv, ScanTypes, ScanType
<1>8. ScanCovers'
  <2> HIDE DEF r
  <2>1. QED
    BY <1>2, <1>3 DEF ClaimScan, ScanInv, ScanCovers
<1>9. QED
  BY <1>6, <1>7, <1>8 DEF ScanInv

(***************************************************************************)
(* The index moves on.                                                     *)
(***************************************************************************)

(* Data of an older revision are not current any more, so a new revision   *)
(* leaves nothing to owe, and the same revision means the same sizes.      *)
LEMMA ObserveCurrent ==
  ASSUME NEW data, NEW at \in Nat, revision \in Nat, NEW sizes, Observe(sizes),
         CurrentReaches(data, at, revision, listed)
  PROVE  CurrentReaches(data, at, revision', listed')
  BY DEF Observe, CurrentReaches

(* So a call owes after the index has moved on what it owed before.        *)
LEMMA ObserveOwes ==
  ASSUME NEW r \in CallType, revision \in Nat, NEW sizes, Observe(sizes), UNCHANGED text,
         CallOwes(r, revision, listed, text)
  PROVE  CallOwes(r, revision', listed', text')
<1>1. r.data \in Data /\ r.got \in Data /\ r.revision \in Nat
  BY DEF CallType
<1>2. r.data.revision \in Nat /\ r.got.revision \in Nat
  BY <1>1 DEF Data
<1>3. (revision' = revision /\ listed' = listed) \/ revision' = revision + 1
  BY DEF Observe
<1>4. QED
  BY <1>1, <1>2, <1>3, ObserveCurrent DEF CallOwes

(* The index learns sizes of files as they are.                            *)
LEMMA ObserveStep ==
  ASSUME ScanInv, NEW sizes \in [Transcripts -> -1..(2 * MaxLines)], SeenOf(sizes, text),
         Observe(sizes), UNCHANGED text, UNCHANGED <<fileCache, scanCache>>
  PROVE  /\ revision' \in Nat /\ revision' >= 1
         /\ listed' \in [Transcripts -> -1..(2 * MaxLines)] /\ SeenOf(listed', text')
         /\ CurrentReaches(scanCache'.data, scanCache'.revision, revision', listed')
         /\ \A c \in ScanCallers : CallOwes(call[c], revision', listed', text')
<1>1. /\ revision \in Nat /\ revision >= 1
      /\ scanCache.revision \in Nat /\ \A c \in ScanCallers : call[c] \in CallType
  BY DEF ScanInv, ScanTypes, ScanType, ScanCovers
<1>2. /\ CurrentReaches(scanCache.data, scanCache.revision, revision, listed)
      /\ \A c \in ScanCallers : CallOwes(call[c], revision, listed, text)
  BY DEF ScanInv, ScanCovers
<1>3. revision' \in Nat /\ revision' >= 1 /\ listed' = sizes
  BY <1>1 DEF Observe
<1>4. CurrentReaches(scanCache.data, scanCache.revision, revision', listed')
  BY <1>1, <1>2, ObserveCurrent
<1>5. \A c \in ScanCallers : CallOwes(call[c], revision', listed', text')
  BY <1>1, <1>2, ObserveOwes
<1>6. QED
  BY <1>3, <1>4, <1>5

(* What the disk has now is a size the index may hold.                     *)
LEMMA DiskSizes ==
  ASSUME ScanInv, NEW f \in Transcripts
  PROVE  SizeOf(text[f]) \in -1..(2 * MaxLines)
<1>1. text[f] \in Text /\ SizeOf(text[f]) <= 2 * MaxLines
  BY DEF ScanInv, ScanTypes, ScanType, Text
<1>2. QED
  BY <1>1, SizeType, ScanConstants DEF ScanConstants

(* An index event changes nothing else.                                    *)
LEMMA IndexEventStep ==
  ASSUME ScanInv, NEW f \in Transcripts, IndexEvent(f)
  PROVE  ScanInv'
<1> DEFINE sizes == [listed EXCEPT ![f] = SizeOf(text[f])]
<1>1. listed \in [Transcripts -> -1..(2 * MaxLines)] /\ SeenOf(listed, text)
  BY DEF ScanInv, ScanTypes, ScanType, ScanCovers
<1>2. sizes \in [Transcripts -> -1..(2 * MaxLines)] /\ SeenOf(sizes, text)
  BY <1>1, DiskSizes DEF SeenOf
<1>3. /\ revision' \in Nat /\ revision' >= 1
      /\ listed' \in [Transcripts -> -1..(2 * MaxLines)] /\ SeenOf(listed', text')
      /\ CurrentReaches(scanCache'.data, scanCache'.revision, revision', listed')
      /\ \A c \in ScanCallers : CallOwes(call[c], revision', listed', text')
  <2> HIDE DEF sizes
  <2>1. Observe(sizes)
    BY DEF IndexEvent, sizes
  <2>2. QED
    BY <1>2, <2>1, ObserveStep DEF IndexEvent
<1>4. ScanTypes' /\ OneScanPerKey'
  BY <1>3 DEF IndexEvent, ScanInv, ScanTypes, ScanType, OneScanPerKey, Pc, Key
<1>5. ScanCovers'
  BY <1>3 DEF IndexEvent, ScanInv, ScanCovers
<1>6. QED
  BY <1>4, <1>5 DEF ScanInv

(* A scan that has collected the files works on the sizes of its revision. *)
LEMMA CollectStep ==
  ASSUME ScanInv, NEW c \in ScanCallers, Collect(c)
  PROVE  ScanInv'
<1>a. /\ call \in [ScanCallers -> CallType] /\ call[c] \in CallType /\ EmptyData \in Data
      /\ listed \in [Transcripts -> -1..(2 * MaxLines)] /\ SeenOf(listed, text)
  BY RestTypes DEF ScanInv, ScanTypes, ScanType, ScanCovers
<1>1. PICK stat \in SUBSET Transcripts, whole \in BOOLEAN :
        /\ Observe([f \in Transcripts |-> IF f \in stat THEN SizeOf(text[f]) ELSE listed[f]])
        /\ Set(c, [call[c] EXCEPT !.pc = "decide", !.sizes = listed',
                     !.data = [EmptyData EXCEPT !.revision = revision',
                                 !.why = IF whole /\ ~call[c].done THEN {} ELSE {"walk"}]])
  BY DEF Collect
<1> DEFINE sizes == [f \in Transcripts |-> IF f \in stat THEN SizeOf(text[f]) ELSE listed[f]]
           data == [EmptyData EXCEPT !.revision = revision',
                      !.why = IF whole /\ ~call[c].done THEN {} ELSE {"walk"}]
           r == [call[c] EXCEPT !.pc = "decide", !.sizes = listed', !.data = data]
<1>2. sizes \in [Transcripts -> -1..(2 * MaxLines)] /\ SeenOf(sizes, text)
  BY <1>a, DiskSizes DEF SeenOf
<1>3. /\ revision' \in Nat /\ revision' >= 1
      /\ listed' \in [Transcripts -> -1..(2 * MaxLines)] /\ SeenOf(listed', text')
      /\ CurrentReaches(scanCache'.data, scanCache'.revision, revision', listed')
      /\ \A d \in ScanCallers : CallOwes(call[d], revision', listed', text')
  <2>1. Observe(sizes)
    BY <1>1
  <2> HIDE DEF sizes
  <2>2. QED
    BY <1>2, <2>1, ObserveStep DEF Collect
<1>4. data \in Data /\ data.revision = revision'
  BY <1>a, <1>3 DEF Data
<1>5. /\ r \in CallType /\ r.pc = "decide" /\ r.data = data /\ r.sizes = listed'
      /\ r.updates = call[c].updates
  BY <1>a, <1>3, <1>4 DEF CallType
<1>6. CallOwes(r, revision', listed', text')
  <2> HIDE DEF r, data
  <2>1. \A f \in Transcripts : EntryCovers(r.updates[f])
    BY <1>3, <1>5 DEF CallOwes
  <2>2. QED
    BY <1>3, <1>4, <1>5, <2>1 DEF CallOwes
<1>7. \A d \in ScanCallers : call'[d] = IF d = c THEN r ELSE call[d]
  BY <1>a, <1>1 DEF Set
<1>8. call' \in [ScanCallers -> CallType]
  BY <1>a, <1>1, <1>5 DEF Set
<1> HIDE DEF r, data, sizes
<1>9. OneScanPerKey'
  BY <1>5, <1>7 DEF Collect, ScanInv, OneScanPerKey, Pc, Key
<1>10. ScanTypes'
  <2>1. \A d \in ScanCallers : call'[d].data \in Data /\ call'[d].got \in Data
    BY <1>8 DEF CallType
  <2>2. QED
    BY <1>3, <1>8, <2>1 DEF Collect, ScanInv, ScanTypes, ScanType
<1>11. ScanCovers'
  BY <1>3, <1>6, <1>7 DEF Collect, ScanInv, ScanCovers
<1>12. QED
  BY <1>9, <1>10, <1>11 DEF ScanInv

(* A finished scan leaves entries that reach their sizes, and, if it was   *)
(* complete, data that reach the sizes of the revision it is stamped with. *)
LEMMA EndStep ==
  ASSUME ScanInv, NEW c \in ScanCallers, EndScan(c)
  PROVE  ScanInv'
<1> DEFINE entries == [f \in Transcripts |-> IF call[c].updates[f] = NoEntry
                                             THEN fileCache[f] ELSE call[c].updates[f]]
           why == (IF call[c].done THEN {"context"} ELSE {})
                  \cup (IF revision = call[c].data.revision THEN {} ELSE {"revision"})
           data == [call[c].data EXCEPT !.revision = revision, !.why = @ \cup why]
           r == [AtRest EXCEPT !.pc = "gate", !.done = call[c].done, !.data = data]
<1>a. /\ call \in [ScanCallers -> CallType] /\ call[c] \in CallType /\ AtRest \in CallType
      /\ call[c].data \in Data /\ call[c].updates \in [Transcripts -> Entry]
      /\ call[c].sizes \in [Transcripts -> -1..(2 * MaxLines)]
      /\ fileCache \in [Transcripts -> Entry] /\ NoEntry \in Entry
      /\ revision \in Nat /\ Pc(c) = "parse"
  BY RestTypes DEF ScanInv, ScanTypes, ScanType, CallType, EndScan
<1>b. /\ CallOwes(call[c], revision, listed, text) /\ CallOwes(AtRest, revision, listed, text)
      /\ \A f \in Transcripts : EntryCovers(fileCache[f])
  BY RestOwes DEF ScanInv, ScanCovers
<1>1. Set(c, r) /\ fileCache' = IF call[c].done THEN entries ELSE Pruned(c, entries)
  BY DEF EndScan
<1>2. /\ entries \in [Transcripts -> Entry]
      /\ \A f \in Transcripts : EntryCovers(entries[f])
  BY <1>a, <1>b DEF CallOwes
<1>3. /\ fileCache' \in [Transcripts -> Entry]
      /\ \A f \in Transcripts : EntryCovers(fileCache'[f])
  <2>1. EntryCovers(NoEntry)
    BY DEF EntryCovers, NoEntry, NoTrace
  <2> HIDE DEF entries
  <2>2. QED
    BY <1>a, <1>1, <1>2, <2>1 DEF Pruned
<1>4. /\ data \in Data /\ data.revision = revision
      /\ data.traces = call[c].data.traces /\ data.failed = call[c].data.failed
      /\ data.why = {} => call[c].done = FALSE /\ revision = call[c].data.revision
  BY <1>a DEF Data, CallType
<1>5. /\ r \in CallType /\ r.pc = "gate" /\ r.data = data
      /\ r.updates = AtRest.updates /\ r.sizes = AtRest.sizes
  BY <1>a, <1>4 DEF CallType
<1> HIDE DEF r, data, entries
<1>6. CurrentReaches(data, revision, revision, listed)
  <2> SUFFICES ASSUME data.why = {}, NEW f \in Transcripts, ~(listed[f] < 0)
               PROVE  f \in data.failed \/ data.traces[f].upto >= listed[f] \div 2
    BY <1>a DEF CurrentReaches, Reaches
  <2>1. call[c].todo = {} /\ revision = call[c].data.revision
    BY <1>4 DEF EndScan
  <2>2. call[c].sizes = listed
    BY <1>a, <1>b, <2>1 DEF CallOwes, Pc
  <2>3. QED
    BY <1>a, <1>b, <1>4, <2>1, <2>2 DEF CallOwes, Pc
<1>7. CallOwes(r, revision, listed, text)
  BY <1>b, <1>4, <1>5, <1>6 DEF CallOwes
<1>8. \A d \in ScanCallers : call'[d] = IF d = c THEN r ELSE call[d]
  BY <1>a, <1>1 DEF Set
<1>9. call' \in [ScanCallers -> CallType]
  BY <1>a, <1>1, <1>5 DEF Set
<1>10. OneScanPerKey'
  BY <1>a, <1>1, <1>5, KeepsClaims DEF EndScan, Scanning
<1>11. ScanTypes'
  <2>1. \A d \in ScanCallers : call'[d].data \in Data /\ call'[d].got \in Data
    BY <1>9 DEF CallType
  <2>2. QED
    BY <1>3, <1>9, <2>1 DEF EndScan, ScanInv, ScanTypes, ScanType
<1>12. ScanCovers'
  BY <1>3, <1>7, <1>8 DEF EndScan, ScanInv, ScanCovers
<1>13. QED
  BY <1>10, <1>11, <1>12 DEF ScanInv

(* Publication hands the waiters what the gate let through, frees the key  *)
(* and leaves nobody waiting for it.                                       *)
LEMMA PublishStep ==
  ASSUME ScanInv, NEW c \in ScanCallers, PublishScan(c)
  PROVE  ScanInv'
<1> DEFINE woken(d) == [call[d] EXCEPT !.pc = "woken", !.got = call[c].data,
                                       !.full = call[c].full]
           waits(d) == Pc(d) = "wait" /\ Key(d) = Key(c)
<1>a. /\ call \in [ScanCallers -> CallType] /\ AtRest \in CallType
      /\ inflight \in [Keys -> ScanCallers \cup {NoScanner}]
      /\ scanCache \in [data : Data, key : Keys \cup {NoScanner}, revision : Nat,
                         fresh : BOOLEAN]
      /\ \A d \in ScanCallers : Key(d) \in Keys
      /\ NoScanner \notin ScanCallers /\ Pc(c) = "publish"
  BY RestTypes, ScanConstants
  DEF ScanConstants, ScanInv, ScanTypes, ScanType, Key, PublishScan
<1>b. /\ \A d \in ScanCallers : CallOwes(call[d], revision, listed, text)
      /\ CallOwes(AtRest, revision, listed, text)
      /\ CurrentReaches(scanCache.data, scanCache.revision, revision, listed)
  BY RestOwes DEF ScanInv, ScanCovers
<1>c. \A d \in ScanCallers : call[d] \in CallType /\ call[d].data \in Data
  BY <1>a DEF CallType
<1>1. \A d \in ScanCallers :
        call'[d] = IF d = c THEN AtRest ELSE IF waits(d) THEN woken(d) ELSE call[d]
  BY DEF PublishScan
<1>2. \A d \in ScanCallers : /\ woken(d) \in CallType /\ woken(d).pc = "woken"
                              /\ woken(d).got = call[c].data /\ woken(d).full = call[c].full
                              /\ woken(d).updates = call[d].updates
                              /\ woken(d).sizes = call[d].sizes
  <2> TAKE d \in ScanCallers
  <2>1. call[d] \in CallType /\ call[c].data \in Data /\ call[c].full \in BOOLEAN
    BY <1>c DEF CallType
  <2>2. woken(d) \in CallType
    BY <2>1 DEF CallType
  <2>3. QED
    BY <2>1, <2>2 DEF CallType
<1>r. DOMAIN call' = ScanCallers /\ call' = [d \in ScanCallers |-> call'[d]]
  BY DEF PublishScan
<1> HIDE DEF woken, waits
<1>3. call' \in [ScanCallers -> CallType]
  <2>1. \A d \in ScanCallers : call'[d] \in CallType
    BY <1>a, <1>c, <1>1, <1>2
  <2>2. QED
    BY <1>r, <2>1
<1> USE DEF waits
<1>4. call[c].full =>
        /\ CurrentReaches(call[c].data, call[c].revision, revision, listed)
        /\ call[c].revision = call[c].data.revision
  BY <1>a, <1>b DEF CallOwes, Pc
<1>5. /\ scanCache' \in [data : Data, key : Keys \cup {NoScanner}, revision : Nat,
                          fresh : BOOLEAN]
      /\ CurrentReaches(scanCache'.data, scanCache'.revision, revision, listed)
  <2>1. CASE call[c].full
    <3>1. call[c].data \in Data /\ call[c].revision \in Nat /\ Key(c) \in Keys
      BY <1>a, <1>c DEF CallType
    <3>2. scanCache' = [data |-> call[c].data, key |-> Key(c),
                        revision |-> call[c].revision, fresh |-> TRUE]
      BY <2>1 DEF PublishScan
    <3>3. QED
      BY <1>4, <2>1, <3>1, <3>2
  <2>2. CASE ~call[c].full
    BY <1>a, <1>b, <2>2 DEF PublishScan
  <2>3. QED
    BY <2>1, <2>2
<1>6. \A d \in ScanCallers : CallOwes(woken(d), revision, listed, text)
  BY <1>b, <1>2, <1>4 DEF CallOwes
<1>7. \A d \in ScanCallers : CallOwes(call'[d], revision, listed, text)
  BY <1>b, <1>1, <1>6
<1>8. inflight' = [inflight EXCEPT ![Key(c)] = NoScanner]
  BY DEF PublishScan
<1>9. OneScanPerKey'
  <2>1. \A d \in ScanCallers : (call[d].pc \in Scanning <=> inflight[Key(d)] = d)
                                /\ (call[d].pc = "wait" => inflight[Key(d)] # NoScanner)
    BY DEF ScanInv, OneScanPerKey, Pc, Scanning
  <2>2. inflight[Key(c)] = c
    BY <1>a, <2>1 DEF Scanning, Pc
  <2>3. AtRest.pc = "idle"
    BY DEF AtRest
  <2>4. ASSUME NEW d \in ScanCallers
        PROVE  /\ call'[d].pc \in Scanning <=> inflight'[Key(d)] = d
               /\ call'[d].pc = "wait" => inflight'[Key(d)] # NoScanner
    <3>1. CASE d = c
      BY <1>a, <1>1, <1>8, <2>3, <3>1 DEF Scanning
    <3>2. CASE d # c /\ Key(d) = Key(c)
      BY <1>a, <1>1, <1>2, <1>8, <2>1, <2>2, <3>2 DEF Scanning, Pc
    <3>3. CASE Key(d) # Key(c)
      BY <1>a, <1>1, <1>8, <2>1, <3>3 DEF Scanning
    <3>4. QED
      BY <3>1, <3>2, <3>3
  <2>5. QED
    BY <2>4 DEF OneScanPerKey, Pc, Scanning, Key
<1>10. ScanTypes'
  <2>1. \A d \in ScanCallers : call'[d].data \in Data /\ call'[d].got \in Data
    BY <1>3 DEF CallType
  <2>2. inflight' \in [Keys -> ScanCallers \cup {NoScanner}]
    BY <1>a, <1>8
  <2>3. QED
    BY <1>3, <1>5, <2>1, <2>2 DEF PublishScan, ScanInv, ScanTypes, ScanType
<1>11. ScanCovers'
  BY <1>5, <1>7 DEF PublishScan, ScanInv, ScanCovers
<1>12. QED
  BY <1>9, <1>10, <1>11 DEF ScanInv

(***************************************************************************)
(* Agents, timers and the end.                                             *)
(***************************************************************************)

(* A file that is written to or deleted has no less than what was seen.    *)
LEMMA WriteSteps ==
  ASSUME ScanInv, NEW f \in Transcripts,
         AppendLine(f) \/ TearLine(f) \/ DeleteTranscript(f)
  PROVE  ScanInv'
<1>a. text \in [Transcripts -> Text] /\ text[f] \in Text
  BY DEF ScanInv, ScanTypes, ScanType, Text
<1>1. PICK t \in Text : /\ Rewrite(f, t) /\ SizeOf(t) <= 2 * MaxLines
                        /\ t.there => text[f].there /\ SizeOf(text[f]) <= SizeOf(t)
  <2>1. CASE AppendLine(f)
    <3> DEFINE t == [text[f] EXCEPT !.lines = @ + 1, !.torn = FALSE]
    <3>0. text[f].lines + 1 \in 0..MaxLines
      BY <1>a, <2>1, ScanConstants DEF AppendLine, ScanConstants, Text
    <3>00. /\ t \in Text /\ t.lines = text[f].lines + 1 /\ t.torn = FALSE
           /\ t.there = text[f].there
      BY <1>a, <3>0 DEF Text
    <3>1. t \in Text /\ SizeOf(t) = 2 * (text[f].lines + 1) /\ text[f].lines + 1 <= MaxLines
      <4> HIDE DEF t
      <4>1. QED
        BY <2>1, <3>0, <3>00 DEF AppendLine, SizeOf
    <3>2. SizeOf(text[f]) <= SizeOf(t)
      BY <1>a, <2>1, <3>1 DEF AppendLine, Text, SizeOf
    <3>3. SizeOf(t) <= 2 * MaxLines
      BY <1>a, <3>1, ScanConstants DEF Text, ScanConstants
    <3>4. Rewrite(f, t) /\ text[f].there
      BY <2>1 DEF AppendLine
    <3> HIDE DEF t
    <3>5. QED
      BY <3>1, <3>2, <3>3, <3>4
  <2>2. CASE TearLine(f)
    <3> DEFINE t == [text[f] EXCEPT !.torn = TRUE]
    <3>0. /\ t \in Text /\ t.lines = text[f].lines /\ t.torn = TRUE
          /\ t.there = text[f].there
      BY <1>a DEF Text
    <3>1. t \in Text /\ SizeOf(t) = 2 * text[f].lines + 1 /\ SizeOf(text[f]) <= SizeOf(t)
      <4> HIDE DEF t
      <4>1. QED
        BY <1>a, <2>2, <3>0 DEF TearLine, Text, SizeOf
    <3>2. SizeOf(t) <= 2 * MaxLines
      BY <1>a, <2>2, <3>1, ScanConstants DEF TearLine, Text, ScanConstants
    <3>3. Rewrite(f, t) /\ text[f].there
      BY <2>2 DEF TearLine
    <3> HIDE DEF t
    <3>4. QED
      BY <3>1, <3>2, <3>3
  <2>3. CASE DeleteTranscript(f)
    <3>1. Gone \in Text /\ SizeOf(Gone) = -1 /\ Gone.there = FALSE
      BY ScanConstants DEF ScanConstants, Gone, Text, SizeOf
    <3>2. SizeOf(Gone) <= 2 * MaxLines
      BY <3>1, ScanConstants DEF ScanConstants
    <3>3. QED
      BY <2>3, <3>1, <3>2 DEF DeleteTranscript
  <2>4. QED
    BY <2>1, <2>2, <2>3
<1>2. \A g \in Transcripts : text'[g] = IF g = f THEN t ELSE text[g]
  BY <1>a, <1>1 DEF Rewrite
<1>3. ASSUME NEW sizes \in [Transcripts -> -1..(2 * MaxLines)], SeenOf(sizes, text)
      PROVE  SeenOf(sizes, text')
  <2>1. \A g \in Transcripts : text[g] \in Text /\ SizeOf(text[g]) \in Int
    BY <1>a, SizeType
  <2>2. SizeOf(t) \in Int
    BY SizeType
  <2>3. \A g \in Transcripts : sizes[g] \in Int
    OBVIOUS
  <2>4. QED
    BY <1>1, <1>2, <1>3, <2>1, <2>2, <2>3 DEF SeenOf
<1>4. \A c \in ScanCallers : call[c].sizes \in [Transcripts -> -1..(2 * MaxLines)]
  BY DEF ScanInv, ScanTypes, CallType
<1>5. ASSUME NEW c \in ScanCallers PROVE CallOwes(call[c], revision, listed, text')
  <2>1. CallOwes(call[c], revision, listed, text)
    BY DEF ScanInv, ScanCovers
  <2>2. SeenOf(call[c].sizes, text')
    BY <1>3, <1>4, <2>1 DEF CallOwes
  <2>3. QED
    BY <2>1, <2>2 DEF CallOwes
<1>6. SeenOf(listed, text')
  BY <1>3 DEF ScanInv, ScanCovers, ScanTypes, ScanType
<1>7. text' \in [Transcripts -> Text] /\ \A g \in Transcripts : SizeOf(text'[g]) <= 2 * MaxLines
  <2>1. text' \in [Transcripts -> Text]
    BY <1>a, <1>1 DEF Rewrite
  <2>2. QED
    BY <1>1, <1>2, <2>1 DEF ScanInv, ScanTypes
<1>8. QED
  BY <1>1, <1>5, <1>6, <1>7
  DEF Rewrite, ScanInv, ScanTypes, ScanType, ScanCovers, OneScanPerKey, Pc, Key, Text

(* A cached scan that expires, and a failure whose retry falls due, are    *)
(* neither more nor less than they were.                                   *)
LEMMA TimerSteps ==
  ASSUME ScanInv, ExpireCache \/ \E f \in Transcripts : RetryFallsDue(f)
  PROVE  ScanInv'
<1>1. CASE ExpireCache
  <2>1. /\ scanCache' \in [data : Data, key : Keys \cup {NoScanner}, revision : Nat,
                            fresh : BOOLEAN]
        /\ scanCache'.data = scanCache.data /\ scanCache'.revision = scanCache.revision
    BY <1>1 DEF ExpireCache, ScanInv, ScanTypes, ScanType
  <2>2. QED
    BY <1>1, <2>1 DEF ExpireCache, ScanInv, ScanTypes, ScanType, ScanCovers, OneScanPerKey, Pc, Key
<1>2. ASSUME NEW f \in Transcripts, RetryFallsDue(f) PROVE ScanInv'
  <2>1. fileCache \in [Transcripts -> Entry] /\ fileCache[f] \in Entry
    BY DEF ScanInv, ScanTypes, ScanType
  <2> DEFINE e == [fileCache[f] EXCEPT !.retry = TRUE]
  <2>2. e \in Entry /\ (EntryCovers(fileCache[f]) => EntryCovers(e))
    BY <2>1 DEF Entry, EntryCovers
  <2>3. fileCache' = [fileCache EXCEPT ![f] = e]
    BY <1>2, <2>1 DEF RetryFallsDue
  <2> HIDE DEF e
  <2>4. fileCache' \in [Transcripts -> Entry] /\ \A g \in Transcripts : EntryCovers(fileCache'[g])
    BY <2>1, <2>2, <2>3 DEF ScanInv, ScanCovers
  <2>5. QED
    BY <1>2, <2>4
    DEF RetryFallsDue, ScanInv, ScanTypes, ScanType, ScanCovers, OneScanPerKey, Pc, Key
<1>3. QED
  BY <1>1, <1>2

(* Every step keeps the inductive invariant.                               *)
LEMMA NextScan == ScanInv /\ [ScanNext]_scanVars => ScanInv'
<1> SUFFICES ASSUME ScanInv, [ScanNext]_scanVars PROVE ScanInv'
  OBVIOUS
<1>1. ASSUME NEW f \in Transcripts,
             AppendLine(f) \/ TearLine(f) \/ DeleteTranscript(f) \/ IndexEvent(f)
               \/ RetryFallsDue(f)
      PROVE  ScanInv'
  BY <1>1, WriteSteps, IndexEventStep, TimerSteps
<1>2. ASSUME NEW c \in ScanCallers,
             CallScan(c) \/ CancelScanContext(c) \/ CancelWait(c) \/ PanicScan(c)
      PROVE  ScanInv'
  BY <1>2, WaitingSteps, PanicStep
<1>3. ASSUME NEW c \in ScanCallers, ProceedScan(c) PROVE ScanInv'
  BY <1>3, WaitingSteps, ClaimStep, CollectStep, DecideStep, ParseSteps, EndStep, GateStep,
     PublishStep DEF ProceedScan
<1>4. CASE ExpireCache
  BY <1>4, TimerSteps
<1>5. CASE UNCHANGED scanVars
  BY <1>5
  DEF scanVars, ScanInv, ScanTypes, ScanType, ScanCovers, OneScanPerKey, Pc, Key
<1>6. QED
  BY <1>1, <1>2, <1>3, <1>4, <1>5 DEF ScanNext

(* The first scan finds an index that has listed the files as they are.    *)
LEMMA InitScan == ScanInit => ScanInv
<1> SUFFICES ASSUME ScanInit PROVE ScanInv
  OBVIOUS
<1> USE ScanConstants DEF ScanConstants
<1>1. text \in [Transcripts -> Text] /\ \A f \in Transcripts : SizeOf(text[f]) <= 2 * MaxLines
  <2>1. \A f \in Transcripts : \/ text[f] = Gone
                              \/ text[f] = [there |-> TRUE, lines |-> 1, torn |-> FALSE]
    BY DEF ScanInit
  <2>2. Gone \in Text /\ SizeOf(Gone) = -1
    BY DEF Gone, Text, SizeOf
  <2>3. /\ [there |-> TRUE, lines |-> 1, torn |-> FALSE] \in Text
        /\ SizeOf([there |-> TRUE, lines |-> 1, torn |-> FALSE]) = 2
    BY DEF Text, SizeOf
  <2>4. text \in [Transcripts -> Text]
    BY <2>2, <2>3 DEF ScanInit
  <2>5. \A f \in Transcripts : SizeOf(text[f]) = -1 \/ SizeOf(text[f]) = 2
    BY <2>1, <2>2, <2>3, Zenon
  <2>6. -1 <= 2 * MaxLines /\ 2 <= 2 * MaxLines
    OBVIOUS
  <2>7. QED
    BY <2>4, <2>5, <2>6
<1>2. \A f \in Transcripts : SizeOf(text[f]) \in -1..(2 * MaxLines)
  BY <1>1, SizeType
<1>3. listed \in [Transcripts -> -1..(2 * MaxLines)] /\ SeenOf(listed, text)
  BY <1>2 DEF ScanInit, SeenOf
<1>4. /\ AtRest.pc = "idle" /\ EntryCovers(NoEntry) /\ AtRest.data \in Data
      /\ AtRest.got \in Data /\ \A f \in Transcripts : AtRest.updates[f] = NoEntry
      /\ \A f \in Transcripts : AtRest.sizes[f] = -1
  BY RestTypes DEF AtRest, EntryCovers, NoEntry, NoTrace
<1>5. CallOwes(AtRest, revision, listed, text)
  BY <1>1, <1>4, SizeType DEF CallOwes, SeenOf
<1>6. CurrentReaches(NoScan.data, NoScan.revision, 1, listed)
  BY DEF NoScan, CurrentReaches
<1>7. NoScan \in [data : Data, key : Keys \cup {NoScanner}, revision : Nat, fresh : BOOLEAN]
  BY RestTypes DEF NoScan
<1>8. ScanTypes
  BY <1>1, <1>3, <1>4, <1>7, RestTypes DEF ScanInit, ScanTypes, ScanType, Text
<1>9. OneScanPerKey
  BY <1>4 DEF ScanInit, OneScanPerKey, Pc, Key
<1>10. ScanCovers
  BY <1>3, <1>4, <1>5, <1>6 DEF ScanInit, ScanCovers
<1>11. QED
  BY <1>8, <1>9, <1>10 DEF ScanInv

(* SharedScanIsSound is an invariant: however scans, index events,         *)
(* cancellations and failures interleave, a key is scanned by one caller   *)
(* and no answer that passes for current misses a line the index has seen. *)
THEOREM ScanIsSound == ScanSpec => []SharedScanIsSound
<1>1. ScanInv => SharedScanIsSound
  <2> SUFFICES ASSUME ScanInv PROVE CurrentScanCoversIndex
    BY DEF ScanInv, ScanTypes, SharedScanIsSound
  <2>1. \A data : Covers(data) <=> Reaches(data, listed)
    BY DEF Covers, Reaches, IsComplete
  <2>2. QED
    BY <2>1
    DEF ScanInv, ScanCovers, CallOwes, CurrentReaches, CurrentScanCoversIndex, Pc, Current
<1>2. QED
  BY <1>1, InitScan, NextScan, PTL DEF ScanSpec

-----------------------------------------------------------------------------

(***************************************************************************)
(* Types.  Nothing is said of the queue: neither what is counted nor when  *)
(* the worker walks depends on it.                                         *)
(***************************************************************************)

FileType == [there : BOOLEAN, gen : Nat, records : Nat, torn : BOOLEAN, stamp : Nat]
PointType == [gen : Nat, at : Nat, counted : Nat, stamp : Nat]
WorkerPlaces == {"top", "serve", "pause", "sleep", "drain", "timers"}
WorkerType(queue) ==
    [at : WorkerPlaces, queue : {queue}, seen : [Logs -> Nat \cup {Unseen}],
     dirty : BOOLEAN, force : BOOLEAN, enabled : BOOLEAN, cleanup : BOOLEAN,
     hint : BOOLEAN, unpublished : BOOLEAN]

ArchiveTypes ==
    /\ logs \in [Logs -> FileType]
    /\ ledger \in [Logs -> PointType] /\ indexed \in [Logs -> PointType]
    /\ access \in BOOLEAN /\ diskLow \in BOOLEAN /\ wake \in BOOLEAN
    /\ worker \in WorkerType(worker.queue)
    /\ writes \in Nat /\ losses \in Nat

(***************************************************************************)
(* The inductive invariant.                                                *)
(***************************************************************************)

\* A checkpoint p is of its file f or of one it replaced, and counts each
\* record behind it once.
CountsOf(p, f) ==
    /\ p.counted = p.at
    /\ p.gen <= f.gen
    /\ p.gen = f.gen => p.at <= f.records

CountInv == \A l \in Logs : CountsOf(ledger[l], logs[l])

\* What the last walk did not see has left a note that leads to another walk:
\* the slot, the timer's note, or the decision to walk.
HintInv ==
    /\ losses = 0 => \A l \in Logs : Signature(l) # worker.seen[l]
                                         => wake = TRUE \/ worker.hint = TRUE \/ worker.dirty = TRUE
    /\ worker.dirty = TRUE => worker.at = "top"

ArchiveInv == ArchiveTypes /\ CountInv /\ HintInv

-----------------------------------------------------------------------------
(***************************************************************************)
(* The worker's record.                                                    *)
(***************************************************************************)

LEMMA ArchiveInitially == ArchiveInit => ArchiveInv
<1> SUFFICES ASSUME ArchiveInit PROVE ArchiveInv
  OBVIOUS
<1>1. worker = Started(access) /\ access \in BOOLEAN
  BY DEF ArchiveInit
<1>2. worker \in WorkerType(worker.queue) /\ worker.dirty = TRUE /\ worker.at = "top"
  BY <1>1 DEF Started, WorkerType, WorkerPlaces
<1>3. ArchiveTypes
  BY <1>2 DEF ArchiveInit, ArchiveTypes, NoFile, Unread, FileType, PointType
<1>4. CountInv
  BY DEF ArchiveInit, CountInv, CountsOf, NoFile, Unread
<1> QED
  BY <1>2, <1>3, <1>4 DEF ArchiveInv, HintInv

\* A step of the worker that leaves the ledger alone keeps the notes.
LEMMA WorkerMoves ==
    ASSUME ArchiveInv, worker' \in WorkerType(worker'.queue),
           UNCHANGED <<logs, ledger, indexed, access, diskLow, writes>>,
           wake' \in BOOLEAN, losses' \in Nat, losses' = 0 => losses = 0,
           worker'.dirty = TRUE => worker'.at = "top",
           \/ worker'.seen = [l \in Logs |-> Signature(l)]
           \/ /\ worker'.seen = worker.seen
              /\ wake = TRUE \/ worker.hint = TRUE \/ worker.dirty = TRUE
                   => wake' = TRUE \/ worker'.hint = TRUE \/ worker'.dirty = TRUE
    PROVE  ArchiveInv'
<1>1. ArchiveTypes'
  BY DEF ArchiveInv, ArchiveTypes
<1>2. CountInv'
  BY DEF ArchiveInv, CountInv
<1>3. HintInv'
  BY DEF ArchiveInv, HintInv, Signature
<1> QED
  BY <1>1, <1>2, <1>3 DEF ArchiveInv

LEMMA SignatureType ==
    ASSUME ArchiveTypes
    PROVE  [l \in Logs |-> Signature(l)] \in [Logs -> Nat \cup {Unseen}]
  BY DEF ArchiveTypes, Signature, FileType

\* Publishing leaves the worker as it is told, but for what it has published.
LEMMA PublishedFacts ==
    ASSUME ArchiveTypes, NEW next, next \in WorkerType(next.queue), Published(worker, next)
    PROVE  /\ worker' \in WorkerType(worker'.queue)
           /\ worker'.at = next.at /\ worker'.dirty = next.dirty /\ worker'.hint = next.hint
           /\ worker'.seen = next.seen
           /\ losses' \in Nat /\ (losses' = 0 => losses = 0)
           /\ \/ published' = Ledgered
              \/ published' = published /\ worker'.unpublished = next.unpublished
<1>1. worker' = next \/ (worker' = [next EXCEPT !.unpublished = FALSE] /\ published' = Ledgered)
  BY DEF Published
<1>2. losses' \in Nat /\ (losses' = 0 => losses = 0)
  BY DEF Published, ArchiveTypes
<1>3. worker' = next => published' = Ledgered \/ published' = published
  BY DEF Published
<1>4. CASE worker' = next
  BY <1>2, <1>3, <1>4
<1>5. CASE worker' = [next EXCEPT !.unpublished = FALSE] /\ published' = Ledgered
  BY <1>2, <1>5 DEF WorkerType
<1> QED
  BY <1>1, <1>4, <1>5

\* A walk takes the note it answers and remembers what it found.
LEMMA WalkFacts ==
    ASSUME ArchiveTypes, WalkCatalog
    PROVE  /\ worker' \in WorkerType(worker'.queue)
           /\ worker'.dirty = FALSE /\ worker'.seen = [l \in Logs |-> Signature(l)]
           /\ worker'.unpublished = worker.unpublished
<1> DEFINE found == [l \in Logs |-> Signature(l)]
           force == worker.force \/ access # worker.enabled
           members == \E l \in Logs : (found[l] = Unseen) # (worker.seen[l] = Unseen)
           next(queue, cleanup) ==
               [worker EXCEPT !.at = "serve", !.hint = FALSE, !.enabled = access,
                              !.queue = queue, !.seen = found, !.cleanup = cleanup,
                              !.dirty = FALSE, !.force = FALSE]
<1>1. PICK order \in SetToSeqs(Due(found, force)), more \in BOOLEAN :
        worker' = next(worker.queue \o order,
                       IF access /\ (force \/ members) THEN more ELSE worker.cleanup)
  BY ZenonT(60) DEF WalkCatalog, Continue
<1>2. worker \in WorkerType(worker.queue) /\ access \in BOOLEAN /\ found \in [Logs -> Nat \cup {Unseen}]
  BY SignatureType DEF ArchiveTypes
<1> HIDE DEF found, force, members
<1>3. PICK queue, cleanup : worker' = next(queue, cleanup) /\ cleanup \in BOOLEAN
  <2>1. worker.cleanup \in BOOLEAN
    BY <1>2 DEF WorkerType
  <2> HIDE DEF next
  <2>2. QED
    BY <1>1, <2>1
<1>4. /\ worker' \in WorkerType(worker'.queue) /\ worker'.dirty = FALSE /\ worker'.seen = found
      /\ worker'.unpublished = worker.unpublished
  <2>1. /\ worker'.dirty = FALSE /\ worker'.seen = found /\ worker'.queue = queue
        /\ worker'.unpublished = worker.unpublished
    BY <1>2, <1>3 DEF WorkerType
  <2>2. "serve" \in WorkerPlaces /\ TRUE \in BOOLEAN /\ FALSE \in BOOLEAN /\ queue \in {queue}
    BY DEF WorkerPlaces
  <2>3. worker' \in WorkerType(queue)
    BY <1>2, <1>3, <2>2, Zenon DEF WorkerType
  <2>4. QED
    BY <2>1, <2>3
<1> QED
  BY <1>4 DEF found

LEMMA WalkCatalogKeeps == ArchiveInv /\ WalkCatalog => ArchiveInv'
<1> SUFFICES ASSUME ArchiveInv, WalkCatalog PROVE ArchiveInv'
  OBVIOUS
<1>1. UNCHANGED <<logs, access, diskLow, writes, ledger, indexed, losses, wake>>
  BY DEF WalkCatalog, Continue, Stay
<1>2. ArchiveTypes
  BY DEF ArchiveInv
<1> QED
  BY <1>1, <1>2, WalkFacts, WorkerMoves DEF ArchiveTypes

\* The steps at the top, of an empty queue and of the timers.
LEMMA TimersKeep ==
    ASSUME ArchiveInv,
           SkipWalk \/ RetryCleanup \/ GoToSleep \/ DrainHint \/ ServeTimer \/ Awaited
    PROVE  ArchiveInv'
<1>1. worker \in WorkerType(worker.queue) /\ wake \in BOOLEAN /\ losses \in Nat /\ ArchiveTypes
      /\ (worker.dirty = TRUE => worker.at = "top") /\ worker.dirty \in BOOLEAN
  BY DEF ArchiveInv, ArchiveTypes, HintInv, WorkerType
\* The worker's record is next, and nothing but the slot changes besides.
<1>2. ASSUME NEW next, Continue(next), Stay, next \in WorkerType(next.queue),
             next.seen = worker.seen, wake' \in BOOLEAN,
             next.dirty = TRUE => next.at = "top",
             wake = TRUE \/ worker.hint = TRUE \/ worker.dirty = TRUE
               => wake' = TRUE \/ next.hint = TRUE \/ next.dirty = TRUE
      PROVE  ArchiveInv'
  BY <1>1, <1>2, WorkerMoves DEF Continue, Stay
\* The same for a publication that does not disturb the notes.
<1>3. ASSUME NEW next, Published(worker, next), next \in WorkerType(next.queue),
             next.seen = worker.seen, next.hint = worker.hint, next.dirty = worker.dirty,
             next.dirty = TRUE => next.at = "top",
             UNCHANGED <<logs, ledger, indexed, access, diskLow, wake, writes>>
      PROVE  ArchiveInv'
  BY <1>1, <1>3, PublishedFacts, WorkerMoves
<1>4. CASE SkipWalk
  <2> DEFINE next == [worker EXCEPT !.at = "serve"]
  <2>1. next \in WorkerType(next.queue) /\ next.at = "serve" /\ next.seen = worker.seen
        /\ next.hint = worker.hint /\ next.dirty = worker.dirty
    BY <1>1 DEF WorkerType, WorkerPlaces
  <2>2. Continue(next) /\ Stay /\ wake' = wake /\ worker.dirty = FALSE
    BY <1>1, <1>4 DEF SkipWalk
  <2> HIDE DEF next
  <2> QED
    BY <1>1, <1>2, <2>1, <2>2
<1>5. CASE RetryCleanup
  <2>1. PICK more \in BOOLEAN : Continue([worker EXCEPT !.at = "pause", !.cleanup = more])
    BY <1>5 DEF RetryCleanup
  <2> DEFINE next == [worker EXCEPT !.at = "pause", !.cleanup = more]
  <2>2. next \in WorkerType(next.queue) /\ next.at = "pause" /\ next.seen = worker.seen
        /\ next.hint = worker.hint /\ next.dirty = worker.dirty
    BY <1>1 DEF WorkerType, WorkerPlaces
  <2>3. Continue(next) /\ Stay /\ wake' = wake /\ worker.dirty = FALSE
    BY <1>1, <1>5, <2>1 DEF RetryCleanup, At
  <2> HIDE DEF next
  <2> QED
    BY <1>1, <1>2, <2>2, <2>3
<1>6. CASE GoToSleep
  <2> DEFINE next == [worker EXCEPT !.at = "sleep"]
  <2>1. next \in WorkerType(next.queue) /\ next.seen = worker.seen
        /\ next.hint = worker.hint /\ next.dirty = worker.dirty
    BY <1>1 DEF WorkerType, WorkerPlaces
  <2>2. Published(worker, next) /\ worker.dirty = FALSE
        /\ UNCHANGED <<logs, ledger, indexed, access, diskLow, wake, writes>>
    BY <1>1, <1>6 DEF GoToSleep, At
  <2> HIDE DEF next
  <2> QED
    BY <1>3, <2>1, <2>2
<1>7. CASE TakeHint
  <2> DEFINE next == [worker EXCEPT !.at = "top", !.hint = TRUE]
  <2>1. next \in WorkerType(next.queue) /\ next.at = "top" /\ next.seen = worker.seen
        /\ next.hint = TRUE
    BY <1>1 DEF WorkerType, WorkerPlaces
  <2>2. Continue(next) /\ Stay /\ wake' = FALSE
    BY <1>7 DEF TakeHint
  <2> HIDE DEF next
  <2> QED
    BY <1>2, <2>1, <2>2
<1>8. ASSUME Stay, wake' = wake,
             \/ Continue([worker EXCEPT !.at = "top", !.hint = FALSE, !.dirty = TRUE])
             \/ Continue([worker EXCEPT !.at = "top", !.dirty = TRUE, !.force = TRUE])
      PROVE  ArchiveInv'
  <2>1. PICK next \in {[worker EXCEPT !.at = "top", !.hint = FALSE, !.dirty = TRUE],
                       [worker EXCEPT !.at = "top", !.dirty = TRUE, !.force = TRUE]} :
          Continue(next)
    BY <1>8
  <2>2. next \in WorkerType(next.queue) /\ next.at = "top" /\ next.seen = worker.seen
        /\ next.dirty = TRUE
    BY <1>1 DEF WorkerType, WorkerPlaces
  <2> QED
    BY <1>1, <1>2, <1>8, <2>1, <2>2
<1>9. CASE HintDue \/ AuditDue
  BY <1>8, <1>9 DEF HintDue, AuditDue
<1>10. ASSUME \/ Continue([worker EXCEPT !.at = "top"]) /\ Stay
              \/ /\ Published(worker, [worker EXCEPT !.at = "top"])
                 /\ UNCHANGED <<logs, ledger, indexed, access, diskLow, writes>>,
              wake' = wake
       PROVE  ArchiveInv'
  <2> DEFINE next == [worker EXCEPT !.at = "top"]
  <2>1. next \in WorkerType(next.queue) /\ next.at = "top" /\ next.seen = worker.seen
        /\ next.hint = worker.hint /\ next.dirty = worker.dirty
    BY <1>1 DEF WorkerType, WorkerPlaces
  <2>2. \/ Continue(next) /\ Stay
        \/ /\ Published(worker, next)
           /\ UNCHANGED <<logs, ledger, indexed, access, diskLow, writes>>
    BY <1>10
  <2> HIDE DEF next
  <2> QED
    BY <1>1, <1>2, <1>3, <1>10, <2>1, <2>2
<1>11. CASE PublishDue \/ PauseOver
  BY <1>10, <1>11 DEF PublishDue, PauseOver
<1>12. CASE DrainHint
  <2> DEFINE next == [worker EXCEPT !.at = "timers", !.hint = @ \/ wake]
  <2>1. next \in WorkerType(next.queue) /\ next.at = "timers" /\ next.seen = worker.seen
        /\ next.dirty = worker.dirty /\ next.hint = (worker.hint \/ wake)
    BY <1>1 DEF WorkerType, WorkerPlaces
  <2>2. Continue(next) /\ Stay /\ wake' = FALSE /\ worker.dirty = FALSE
    BY <1>1, <1>12 DEF DrainHint, At
  <2> HIDE DEF next
  <2> QED
    BY <1>1, <1>2, <2>1, <2>2
<1>13. CASE ServeTimer
  BY <1>8, <1>10, <1>13 DEF ServeTimer
<1> QED
  BY <1>4, <1>5, <1>6, <1>7, <1>9, <1>11, <1>12, <1>13 DEF Awaited

-----------------------------------------------------------------------------
(***************************************************************************)
(* A quantum.                                                              *)
(***************************************************************************)

\* A quantum counts at most the next record of the file, and starts over with
\* a file that took another's place; one that did not advance changed nothing
\* that is published.
LEMMA QuantumCounts ==
    ASSUME ArchiveTypes, CountInv, NEW l \in Logs
    PROVE  /\ LedgerQuantum(l) \in PointType
           /\ CountsOf(LedgerQuantum(l), logs[l])
           /\ LedgerQuantum(l).at = ledger[l].at /\ Continued(ledger[l], logs[l])
                => /\ LedgerQuantum(l).gen = ledger[l].gen
                   /\ LedgerQuantum(l).counted = ledger[l].counted
<1> DEFINE p == ledger[l]
           f == logs[l]
           old == IF Continued(p, f) THEN p ELSE [Unread EXCEPT !.gen = f.gen]
           step == IF old.at < f.records THEN 1 ELSE 0
           q == LedgerQuantum(l)
<1>1. p \in PointType /\ f \in FileType /\ CountsOf(p, f)
  BY DEF ArchiveTypes, CountInv
<1>2. old \in PointType /\ old.gen = f.gen /\ old.counted = old.at /\ old.at <= f.records
      /\ (Continued(p, f) => old = p)
  BY <1>1 DEF PointType, FileType, CountsOf, Continued, Unread
<1>3. q = [gen |-> f.gen, at |-> old.at + step, counted |-> old.counted + step,
           stamp |-> f.stamp]
  BY DEF LedgerQuantum
<1> HIDE DEF old
<1>4. step \in {0, 1} /\ old.at + step <= f.records
  BY <1>1, <1>2 DEF PointType, FileType
<1> HIDE DEF step, q
<1>5. q \in PointType
  BY <1>1, <1>2, <1>3, <1>4 DEF PointType, FileType
<1>6. CountsOf(q, f)
  BY <1>1, <1>2, <1>3, <1>4 DEF CountsOf, PointType, FileType
<1>7. q.at = p.at /\ Continued(p, f) => q.gen = p.gen /\ q.counted = p.counted
  BY <1>1, <1>2, <1>3, <1>4 DEF PointType, FileType, CountsOf, Continued
<1> QED
  BY <1>5, <1>6, <1>7 DEF q

LEMMA IndexQuantumType ==
    ASSUME ArchiveTypes, NEW l \in Logs
    PROVE  IndexQuantum(l) \in PointType
<1> DEFINE f == logs[l]
           old == IF Continued(indexed[l], f) THEN indexed[l] ELSE [Unread EXCEPT !.gen = f.gen]
           step == IF old.at < f.records THEN 1 ELSE 0
<1>1. indexed[l] \in PointType /\ f \in FileType
  BY DEF ArchiveTypes
<1>2. old \in PointType /\ step \in {0, 1}
  BY <1>1 DEF PointType, FileType, Unread
<1>3. IndexQuantum(l) = [gen |-> f.gen, at |-> old.at + step, counted |-> old.counted + step,
                         stamp |-> f.stamp]
  BY DEF IndexQuantum
<1> HIDE DEF old, step
<1> QED
  BY <1>1, <1>2, <1>3 DEF PointType, FileType

LEMMA FailuresAreCounted ==
    ASSUME NEW ok \in [ledger : BOOLEAN, index : BOOLEAN]
    PROVE  Cardinality({f \in DOMAIN ok : ~ok[f]}) \in Nat
<1>1. IsFiniteSet({"ledger", "index"})
  <2>1. IsFiniteSet({"ledger"})
    BY FS_Singleton
  <2>2. IsFiniteSet({"ledger"} \cup {"index"})
    BY <2>1, FS_AddElement
  <2>3. {"ledger", "index"} = {"ledger"} \cup {"index"}
    OBVIOUS
  <2> QED
    BY <2>2, <2>3
<1>2. {f \in DOMAIN ok : ~ok[f]} \subseteq {"ledger", "index"}
  OBVIOUS
<1> QED
  BY <1>1, <1>2, FS_Subset, FS_CardinalityType

\* What serving a source may change.
LEMMA ServeFacts ==
    ASSUME ArchiveTypes, ServeSource
    PROVE  LET l == Head(worker.queue) IN
           /\ worker' \in WorkerType(worker'.queue)
           /\ worker'.at = "drain" /\ worker'.seen = worker.seen
           /\ worker'.hint = worker.hint /\ worker'.dirty = worker.dirty
           /\ losses' \in Nat /\ (losses' = 0 => losses = 0)
           /\ indexed' \in [Logs -> PointType]
           /\ UNCHANGED <<logs, access, diskLow, wake, writes, published>>
           /\ \/ ledger' = ledger /\ (worker.unpublished = TRUE => worker'.unpublished = TRUE)
              \/ /\ l \in Logs
                 /\ ledger' = [ledger EXCEPT ![l] = LedgerQuantum(l)]
                 /\ worker'.unpublished = (worker.unpublished \/ Advanced(l))
<1> DEFINE l == Head(worker.queue)
           rest == Tail(worker.queue)
<1>1. PICK ok \in [ledger : BOOLEAN, index : BOOLEAN] :
        /\ losses' = losses + Cardinality({f \in DOMAIN ok : ~ok[f]})
        /\ IF ok.ledger THEN PrepareLedger(l) ELSE UNCHANGED ledger
        /\ IF ok.index THEN PrepareIndex(l) ELSE UNCHANGED indexed
        /\ \E queue :
             Continue([worker EXCEPT !.at = "drain", !.queue = queue,
                 !.unpublished = @ \/ (ok.ledger /\ logs[l].there /\ Advanced(l))])
  BY DEF ServeSource
<1>2. losses' \in Nat /\ (losses' = 0 => losses = 0)
  <2>1. Cardinality({f \in DOMAIN ok : ~ok[f]}) \in Nat
    BY FailuresAreCounted
  <2> QED
    BY <1>1, <2>1 DEF ArchiveTypes
<1>3. indexed' \in [Logs -> PointType]
  <2>1. CASE indexed' = indexed
    BY <2>1 DEF ArchiveTypes
  <2>2. CASE indexed' = [indexed EXCEPT ![l] = IndexQuantum(l)]
    <3>1. CASE l \in Logs
      BY <2>2, <3>1, IndexQuantumType DEF ArchiveTypes
    <3>2. CASE l \notin Logs
      BY <2>2, <3>2 DEF ArchiveTypes
    <3> QED
      BY <3>1, <3>2
  <2> QED
    BY <1>1, <2>1, <2>2 DEF PrepareIndex
<1> DEFINE counted == ok.ledger /\ logs[l].there /\ Advanced(l)
<1>4. PICK queue : worker' = [worker EXCEPT !.at = "drain", !.queue = queue,
                                            !.unpublished = @ \/ counted]
  BY <1>1 DEF Continue
<1>5. worker \in WorkerType(worker.queue)
  BY DEF ArchiveTypes
<1>6. counted \in BOOLEAN
  OBVIOUS
<1> HIDE DEF counted
<1>7. /\ worker' \in WorkerType(worker'.queue)
      /\ worker'.at = "drain" /\ worker'.seen = worker.seen
      /\ worker'.hint = worker.hint /\ worker'.dirty = worker.dirty
      /\ worker'.unpublished = (worker.unpublished \/ counted)
  BY <1>4, <1>5 DEF WorkerType, WorkerPlaces
<1>8. UNCHANGED <<logs, access, diskLow, wake, writes, published>>
  BY DEF ServeSource, Continue
<1>9. \/ ledger' = ledger
      \/ /\ l \in Logs /\ ledger' = [ledger EXCEPT ![l] = LedgerQuantum(l)]
         /\ counted = Advanced(l)
  <2>1. CASE ledger' = ledger
    BY <2>1
  <2>2. CASE ledger' # ledger
    <3>1. ok.ledger /\ logs[l].there /\ ledger' = [ledger EXCEPT ![l] = LedgerQuantum(l)]
      BY <1>1, <2>2 DEF PrepareLedger
    <3>2. l \in Logs
      BY <2>2, <3>1 DEF ArchiveTypes
    <3>3. counted = Advanced(l)
      BY <3>1 DEF counted, Advanced, Continued
    <3> QED
      BY <3>1, <3>2, <3>3
  <2> QED
    BY <2>1, <2>2
<1> QED
  BY <1>2, <1>3, <1>7, <1>8, <1>9 DEF WorkerType

LEMMA ServeSourceKeeps == ArchiveInv /\ ServeSource => ArchiveInv'
<1> SUFFICES ASSUME ArchiveInv, ServeSource PROVE ArchiveInv'
  OBVIOUS
<1> DEFINE l == Head(worker.queue)
<1>1. ArchiveTypes /\ CountInv /\ HintInv /\ worker.dirty \in BOOLEAN /\ worker.at = "serve"
  BY DEF ArchiveInv, ArchiveTypes, WorkerType, ServeSource, At
<1>2. worker.dirty = FALSE
  BY <1>1 DEF HintInv
<1>3. CASE ledger' = ledger
  <2>1. ArchiveTypes'
    BY <1>1, <1>3, ServeFacts DEF ArchiveTypes
  <2>2. CountInv'
    BY <1>1, <1>3, ServeFacts DEF CountInv
  <2>3. HintInv'
    BY <1>1, <1>2, ServeFacts DEF HintInv, Signature
  <2> QED
    BY <2>1, <2>2, <2>3 DEF ArchiveInv
<1>4. CASE l \in Logs /\ ledger' = [ledger EXCEPT ![l] = LedgerQuantum(l)]
  <2>1. LedgerQuantum(l) \in PointType /\ CountsOf(LedgerQuantum(l), logs[l])
    BY <1>1, <1>4, QuantumCounts
  <2>2. logs' = logs
    BY <1>1, ServeFacts
  <2>3. ArchiveTypes'
    BY <1>1, <1>4, <2>1, ServeFacts DEF ArchiveTypes
  <2>4. CountInv'
    BY <1>1, <1>4, <2>1, <2>2 DEF CountInv, ArchiveTypes
  <2>5. HintInv'
    BY <1>1, <1>2, ServeFacts DEF HintInv, Signature
  <2> QED
    BY <2>3, <2>4, <2>5 DEF ArchiveInv
<1> QED
  BY <1>1, <1>3, <1>4, ServeFacts

-----------------------------------------------------------------------------
(***************************************************************************)
(* The world.                                                              *)
(***************************************************************************)

\* A write leaves the file f at l: what was counted of the old file is still
\* behind it, and the change leaves a hint unless that is lost.
LEMMA WrittenKeeps ==
    ASSUME ArchiveInv, NEW l \in Logs, NEW f \in FileType, Written(l, f),
           \A p \in PointType : CountsOf(p, logs[l]) => CountsOf(p, f)
    PROVE  ArchiveInv'
<1> DEFINE g == [f EXCEPT !.stamp = writes + 1]
<1>1. ArchiveTypes /\ CountInv /\ HintInv
  BY DEF ArchiveInv
<1>2. logs' = [logs EXCEPT ![l] = g] /\ writes' = writes + 1
      /\ UNCHANGED <<ledger, indexed, published, access, diskLow, worker>>
  BY DEF Written, Outside
<1>3. g \in FileType /\ g.gen = f.gen /\ g.records = f.records
  BY <1>1 DEF FileType, ArchiveTypes
<1> HIDE DEF g
<1>4. \A k \in Logs : logs'[k] = IF k = l THEN g ELSE logs[k]
  BY <1>1, <1>2 DEF ArchiveTypes
<1>5. losses' \in Nat /\ wake' \in BOOLEAN /\ (losses' = 0 => losses = 0 /\ wake' = TRUE)
  <2>1. losses \in Nat /\ wake \in BOOLEAN
    BY <1>1 DEF ArchiveTypes
  <2>2. CASE wake' = TRUE /\ losses' = losses
    BY <2>1, <2>2
  <2>3. CASE losses' = losses + 1 /\ wake' = wake
    BY <2>1, <2>3
  <2> QED
    BY <2>2, <2>3 DEF Written, Notified
<1>6. ArchiveTypes'
  BY <1>1, <1>2, <1>3, <1>5 DEF ArchiveTypes
<1>7. CountInv'
  <2>1. CountsOf(ledger[l], g)
    <3>1. CountsOf(ledger[l], f)
      BY <1>1 DEF CountInv, ArchiveTypes
    <3> QED
      BY <1>3, <3>1 DEF CountsOf
  <2> QED
    BY <1>1, <1>2, <1>4, <2>1 DEF CountInv
<1>8. HintInv'
  BY <1>1, <1>2, <1>5 DEF HintInv
<1> QED
  BY <1>6, <1>7, <1>8 DEF ArchiveInv

LEMMA WorldKeeps ==
    ASSUME ArchiveInv,
           \/ \E l \in Logs : \/ AppendUsage(l) \/ AppendHalf(l)
                              \/ ReplaceTranscript(l) \/ RemoveTranscript(l)
           \/ SwitchAccess \/ FillDisk \/ FreeDisk
    PROVE  ArchiveInv'
<1>1. ArchiveTypes /\ CountInv /\ HintInv
  BY DEF ArchiveInv
<1>2. \A l \in Logs : logs[l] \in FileType /\ logs[l].gen + 1 \in Nat /\ logs[l].records + 1 \in Nat
  BY <1>1 DEF ArchiveTypes, FileType
<1>3. ASSUME NEW l \in Logs, AppendUsage(l)
      PROVE  ArchiveInv'
  <2> DEFINE f == [logs[l] EXCEPT !.there = TRUE, !.records = @ + 1, !.torn = FALSE]
  <2>1. f \in FileType /\ f.gen = logs[l].gen /\ f.records = logs[l].records + 1
    BY <1>2 DEF FileType
  <2>2. \A p \in PointType : CountsOf(p, logs[l]) => CountsOf(p, f)
    BY <1>2, <2>1 DEF CountsOf, PointType, FileType
  <2> QED
    BY <1>3, <2>1, <2>2, WrittenKeeps DEF AppendUsage
<1>4. ASSUME NEW l \in Logs, AppendHalf(l)
      PROVE  ArchiveInv'
  <2> DEFINE f == [logs[l] EXCEPT !.there = TRUE, !.torn = TRUE]
  <2>1. f \in FileType /\ f.gen = logs[l].gen /\ f.records = logs[l].records
    BY <1>2 DEF FileType
  <2>2. \A p \in PointType : CountsOf(p, logs[l]) => CountsOf(p, f)
    BY <2>1 DEF CountsOf
  <2> QED
    BY <1>4, <2>1, <2>2, WrittenKeeps DEF AppendHalf
<1>5. ASSUME NEW l \in Logs, NEW f \in FileType, f.gen = logs[l].gen + 1, Written(l, f)
      PROVE  ArchiveInv'
  <2>1. \A p \in PointType : CountsOf(p, logs[l]) => CountsOf(p, f)
    BY <1>2, <1>5 DEF CountsOf, PointType, FileType
  <2> QED
    BY <1>5, <2>1, WrittenKeeps
<1>6. ASSUME NEW l \in Logs, ReplaceTranscript(l)
      PROVE  ArchiveInv'
  <2>1. PICK n \in 0 .. MaxRecords :
          Written(l, [logs[l] EXCEPT !.gen = @ + 1, !.records = n, !.torn = FALSE])
    BY <1>6 DEF ReplaceTranscript
  <2> DEFINE f == [logs[l] EXCEPT !.gen = @ + 1, !.records = n, !.torn = FALSE]
  <2>2. n \in Nat
    BY ArchiveConstants
  <2>3. f \in FileType /\ f.gen = logs[l].gen + 1
    BY <1>2, <2>2 DEF FileType
  <2> QED
    BY <1>5, <2>1, <2>3
<1>7. ASSUME NEW l \in Logs, RemoveTranscript(l)
      PROVE  ArchiveInv'
  <2> DEFINE f == [NoFile EXCEPT !.gen = logs[l].gen + 1]
  <2>1. f \in FileType /\ f.gen = logs[l].gen + 1
    BY <1>2 DEF FileType, NoFile
  <2> QED
    BY <1>5, <1>7, <2>1 DEF RemoveTranscript
<1>8. CASE SwitchAccess \/ FillDisk \/ FreeDisk
  <2>1. UNCHANGED <<logs, ledger, indexed, worker>> /\ (wake = TRUE => wake' = TRUE)
    BY <1>8 DEF SwitchAccess, FillDisk, FreeDisk
  <2>2. access' \in BOOLEAN /\ diskLow' \in BOOLEAN /\ wake' \in BOOLEAN
    BY <1>1, <1>8 DEF SwitchAccess, FillDisk, FreeDisk, ArchiveTypes
  <2>3. writes' \in Nat /\ losses' \in Nat /\ (losses' = 0 => losses = 0)
    BY <1>1, <1>8 DEF SwitchAccess, FillDisk, FreeDisk, ArchiveTypes
  <2>4. ArchiveTypes'
    BY <1>1, <2>1, <2>2, <2>3 DEF ArchiveTypes
  <2>5. CountInv' /\ HintInv'
    BY <1>1, <2>1, <2>3 DEF CountInv, HintInv, Signature
  <2> QED
    BY <2>4, <2>5 DEF ArchiveInv
<1> QED
  BY <1>3, <1>4, <1>6, <1>7, <1>8

LEMMA RestartKeeps == ArchiveInv /\ RestartWorker => ArchiveInv'
<1> SUFFICES ASSUME ArchiveInv, RestartWorker PROVE ArchiveInv'
  OBVIOUS
<1>1. ArchiveTypes /\ CountInv /\ worker' = Started(access) /\ losses' = losses + 1 /\ wake' = FALSE
      /\ UNCHANGED <<logs, ledger, indexed, access, diskLow, writes>>
  BY DEF ArchiveInv, RestartWorker, Outside
<1>2. worker' \in WorkerType(worker'.queue) /\ worker'.at = "top"
  BY <1>1 DEF Started, WorkerType, WorkerPlaces, ArchiveTypes
<1>3. losses' \in Nat /\ losses' # 0
  BY <1>1 DEF ArchiveTypes
<1>4. ArchiveTypes'
  BY <1>1, <1>2, <1>3 DEF ArchiveTypes
<1>5. CountInv'
  BY <1>1 DEF CountInv
<1> QED
  BY <1>2, <1>3, <1>4, <1>5 DEF ArchiveInv, HintInv

-----------------------------------------------------------------------------
(***************************************************************************)
(* Theorems.                                                               *)
(***************************************************************************)

LEMMA ArchiveInvariant == ArchiveSpec => []ArchiveInv
<1>1. ArchiveInv /\ [ArchiveNext]_archiveVars => ArchiveInv'
  <2>1. CASE ArchiveInv /\ ArchiveNext
    BY <2>1, WalkCatalogKeeps, TimersKeep, ServeSourceKeeps, WorldKeeps, RestartKeeps
    DEF ArchiveNext, WorkerStep
  <2>2. CASE ArchiveInv /\ UNCHANGED archiveVars
    BY <2>2 DEF archiveVars, ArchiveInv, ArchiveTypes, CountInv, HintInv, Signature
  <2> QED
    BY <2>1, <2>2
<1> QED
  BY <1>1, ArchiveInitially, PTL DEF ArchiveSpec

(***************************************************************************)
(* trajectory_service.go and usage_ledger.go: checkpoint and counts move   *)
(* in one transaction, and a file that took another's place starts over,   *)
(* so no record is counted twice and none of a replaced file is counted    *)
(* as one of its successor.                                                *)
(***************************************************************************)
THEOREM LedgerCountsOnce == ArchiveSpec => []CountedOnce
<1>1. ArchiveInv => CountedOnce
  BY DEF ArchiveInv, CountInv, CountsOf, CountedOnce
<1> QED
  BY <1>1, ArchiveInvariant, PTL

(***************************************************************************)
(* trajectory_service.go, runArchiveRecovery: and a worker that only waits *)
(* has forgotten no hint: what differs from its last walk has one in the   *)
(* slot or noted, unless a hint or an operation was lost.                  *)
(***************************************************************************)
THEOREM RecoveryExact == ArchiveSpec => []RecoveryIsExact
<1>1. ArchiveInv => NoHintForgotten
  <2> SUFFICES ASSUME ArchiveInv, At({"sleep"}), losses = 0, NEW l \in Logs,
                      Signature(l) # worker.seen[l]
               PROVE  wake \/ worker.hint
    BY DEF NoHintForgotten
  <2>1. worker.dirty \in BOOLEAN /\ worker.at = "sleep"
    BY DEF ArchiveInv, ArchiveTypes, WorkerType, At
  <2>2. worker.dirty = FALSE
    BY <2>1 DEF ArchiveInv, HintInv
  <2> QED
    BY <2>2 DEF ArchiveInv, HintInv
<1> QED
  BY <1>1, ArchiveInvariant, LedgerCountsOnce, PTL DEF RecoveryIsExact

(***************************************************************************)
(* trajectory_service.go: only a restart forgets that the published        *)
(* history lags the ledger; a publication that failed does not, nor does a *)
(* quantum that advanced the ledger again.                                 *)
(***************************************************************************)
THEOREM LagNeverForgotten == ArchiveSpec => LagIsKnown
<1>1. ArchiveInv /\ [ArchiveNext]_archiveVars => [LagKnown => LagKnown' \/ RestartWorker]_archiveVars
  <2> SUFFICES ASSUME ArchiveInv, ArchiveNext, LagKnown, ~RestartWorker
               PROVE  LagKnown'
    BY DEF LagKnown, Ledgered, archiveVars
  <2>1. ArchiveTypes /\ CountInv /\ worker \in WorkerType(worker.queue)
    BY DEF ArchiveInv, ArchiveTypes
  \* The ledger and what is published of it stay as they are.
  <2>2. ASSUME ledger' = ledger, published' = published,
               worker.unpublished = TRUE => worker'.unpublished = TRUE
        PROVE  LagKnown'
    BY <2>1, <2>2 DEF LagKnown, Ledgered, WorkerType
  <2>3. CASE ServeSource
    <3> DEFINE l == Head(worker.queue)
    <3>1. CASE ledger' = ledger /\ (worker.unpublished = TRUE => worker'.unpublished = TRUE)
      BY <2>1, <2>2, <2>3, <3>1, ServeFacts
    <3>2. CASE /\ l \in Logs
               /\ ledger' = [ledger EXCEPT ![l] = LedgerQuantum(l)]
               /\ worker'.unpublished = (worker.unpublished \/ Advanced(l))
      <4>1. CASE worker'.unpublished
        BY <4>1 DEF LagKnown
      <4>2. CASE ~worker'.unpublished
        <5>1. ledger'[l].at = ledger[l].at /\ Continued(ledger[l], logs[l])
          BY <3>2, <4>2 DEF Advanced
        <5>2. ledger'[l] = LedgerQuantum(l)
          BY <2>1, <3>2 DEF ArchiveTypes
        <5>3. ledger'[l].gen = ledger[l].gen /\ ledger'[l].counted = ledger[l].counted
          BY <2>1, <3>2, <5>1, <5>2, QuantumCounts
        <5>4. \A k \in Logs : k # l => ledger'[k] = ledger[k]
          BY <2>1, <3>2 DEF ArchiveTypes
        <5>5. Ledgered' = Ledgered
          BY <5>3, <5>4 DEF Ledgered
        <5>6. published' = published /\ published = Ledgered
          BY <2>1, <2>3, <3>2, <4>2, ServeFacts DEF LagKnown
        <5> QED
          BY <5>5, <5>6 DEF LagKnown
      <4> QED
        BY <4>1, <4>2
    <3> QED
      BY <2>1, <2>3, <3>1, <3>2, ServeFacts
  <2>4. ASSUME NEW place \in WorkerPlaces,
               Published(worker, [worker EXCEPT !.at = place]), ledger' = ledger
        PROVE  LagKnown'
    <3> DEFINE next == [worker EXCEPT !.at = place]
    <3>1. next \in WorkerType(next.queue) /\ next.unpublished = worker.unpublished
      BY <2>1 DEF WorkerType
    <3> HIDE DEF next
    <3>2. \/ published' = Ledgered
          \/ published' = published /\ worker'.unpublished = next.unpublished
      BY <2>1, <2>4, <3>1, PublishedFacts DEF next
    <3>3. Ledgered' = Ledgered
      BY <2>4 DEF Ledgered
    <3> QED
      BY <3>1, <3>2, <3>3 DEF LagKnown
  <2>5. CASE GoToSleep \/ PublishDue
    BY <2>4, <2>5 DEF GoToSleep, PublishDue, WorkerPlaces
  <2>6. CASE ServeTimer
    <3>1. CASE Published(worker, [worker EXCEPT !.at = "top"])
      BY <2>4, <2>6, <3>1 DEF ServeTimer, WorkerPlaces, Continue, Stay
    <3>2. CASE Stay /\ worker'.unpublished = worker.unpublished
      BY <2>2, <3>2 DEF Stay
    <3>3. \/ Published(worker, [worker EXCEPT !.at = "top"])
          \/ Stay /\ worker'.unpublished = worker.unpublished
      BY <2>1, <2>6 DEF ServeTimer, Continue, WorkerType
    <3> QED
      BY <3>1, <3>2, <3>3
  <2>7. CASE WalkCatalog
    <3>1. worker'.unpublished = worker.unpublished
      BY <2>1, <2>7, WalkFacts
    <3> QED
      BY <2>2, <2>7, <3>1 DEF WalkCatalog, Stay
  <2>8. CASE SkipWalk \/ RetryCleanup \/ DrainHint \/ TakeHint \/ HintDue \/ AuditDue \/ PauseOver
    <3>1. worker'.unpublished = worker.unpublished
      BY <2>1, <2>8
      DEF SkipWalk, RetryCleanup, DrainHint, TakeHint, HintDue, AuditDue, PauseOver, Continue,
          WorkerType
    <3> QED
      BY <2>2, <2>8, <3>1
      DEF SkipWalk, RetryCleanup, DrainHint, TakeHint, HintDue, AuditDue, PauseOver, Stay
  <2>9. ASSUME NEW l \in Logs,
               AppendUsage(l) \/ AppendHalf(l) \/ ReplaceTranscript(l) \/ RemoveTranscript(l)
        PROVE  LagKnown'
    BY <2>2, <2>9
    DEF AppendUsage, AppendHalf, ReplaceTranscript, RemoveTranscript, Written, Outside
  <2>10. CASE SwitchAccess \/ FillDisk \/ FreeDisk
    BY <2>2, <2>10 DEF SwitchAccess, FillDisk, FreeDisk
  <2> QED
    BY <2>3, <2>5, <2>6, <2>7, <2>8, <2>9, <2>10 DEF ArchiveNext, WorkerStep, Awaited
<1> QED
  BY <1>1, ArchiveInvariant, PTL DEF ArchiveSpec, LagIsKnown

(***************************************************************************)
(* The throughput store.                                                   *)
(***************************************************************************)
StoreInv == StoreType /\ MeasuredIsDurable

(* A measured fact is never the one that gives way to a replayed one, and  *)
(* anything else an online fact is weighed against gives way to it.        *)
LEMMA PreferredOnline ==
  ASSUME NEW old \in Values, NEW fact \in Facts, fact.origin = "online"
  PROVE  Preferred(old, fact) = fact
  BY DEF Preferred

(* Weighing two facts yields one of them.                                  *)
LEMMA PreferredType ==
  ASSUME NEW old \in Values, NEW fact \in Facts
  PROVE  Preferred(old, fact) \in Values
  BY DEF Preferred, Values

(* An empty store holds no measured number.                                *)
LEMMA InitStore == Init => StoreInv
  BY FactsAssumption DEF Init, StoreInv, StoreType, MeasuredIsDurable, Nothing, Missing,
     Measured, Values, NoTokens

(* A key whose served number is measured is offered nothing, except a      *)
(* legacy rate, which needs an empty key.                                  *)
LEMMA NothingOffered ==
  ASSUME StoreType, NEW s \in Slots, Measured(memory[s]), NEW fact \in Offered(s)
  PROVE  FALSE
<1>1. fact \in Facts /\ Admissible(s, fact)
  BY DEF Offered
<1>2. fact.origin \in {"online", "session_replay", "legacy"}
  BY <1>1, FactsAssumption
<1>3. memory[s].origin = "online" /\ memory[s] # Missing
  BY DEF Measured, Missing
<1> QED
  BY <1>1, <1>2, <1>3 DEF Admissible

(* Every step keeps the types and the agreement of memory and disk.        *)
LEMMA NextStore == StoreInv /\ [Next]_store => StoreInv'
<1> SUFFICES ASSUME StoreInv, [Next]_store
             PROVE  StoreInv'
  OBVIOUS
<1> USE DEF StoreInv
<1>1. CASE Write
  <2>1. StoreType'
    BY <1>1 DEF Write, Typed, StoreType
  <2>2. ASSUME NEW s \in Slots, Measured(memory'[s])
        PROVE  durable'[s] = memory'[s]
    <3>1. CASE Accepted(s)
      <4>1. PICK fact \in Offered(s) :
              /\ durable'[s] = Preferred(durable[s], fact)
              /\ memory'[s] = fact \/ memory'[s] = Missing
        BY <3>1 DEF Accepted
      <4>2. memory'[s] = fact /\ fact.origin = "online"
        BY <4>1, <2>2 DEF Measured, Missing
      <4>3. fact \in Facts /\ durable[s] \in Values
        BY DEF Offered, StoreType
      <4> QED
        BY <4>1, <4>2, <4>3, PreferredOnline
    <3>2. CASE (Kept(s) \/ Refused(s) \/ Restored(s)) /\ memory'[s] = memory[s]
      <4>1. ~Refused(s) /\ ~Restored(s)
        BY <3>2, <2>2, NothingOffered DEF Refused, Restored
      <4> QED
        BY <3>2, <4>1, <2>2 DEF Kept, MeasuredIsDurable
    <3>3. CASE memory'[s] = Missing
      BY <3>3, <2>2 DEF Measured, Missing
    <3> QED
      BY <1>1, <3>1, <3>2, <3>3 DEF Write
  <2> QED
    BY <2>1, <2>2 DEF MeasuredIsDurable
<1>2. CASE Crash
  <2>1. StoreType'
    BY <1>2 DEF Crash, Typed, StoreType, Nothing
  <2>2. ASSUME NEW s \in Slots
        PROVE  ~Measured(memory'[s])
    BY <1>2 DEF Crash, Nothing, Measured, Missing
  <2> QED
    BY <2>1, <2>2 DEF MeasuredIsDurable
<1>3. CASE Restart
  BY <1>3 DEF Restart, StoreType, MeasuredIsDurable, Measured, Missing, Values
<1>4. CASE Expire
  BY <1>4 DEF Expire, StoreType, MeasuredIsDurable, Nothing
<1>5. CASE UNCHANGED store
  BY <1>5 DEF store, StoreType, MeasuredIsDurable, Nothing
<1> QED
  BY <1>1, <1>2, <1>3, <1>4, <1>5 DEF Next

(* The invariant holds of every behaviour.                                 *)
LEMMA StoreInvariant == Spec => []StoreInv
  BY InitStore, NextStore, PTL DEF Spec

(* Every variable keeps its type, for all keys and facts.                  *)
THEOREM StoreTypeCorrect == Spec => []StoreType
<1>1. StoreInv => StoreType
  BY DEF StoreInv
<1> QED
  BY <1>1, StoreInvariant, PTL

(* A measured number the process serves is exactly the one on disk.        *)
THEOREM ServedIsDurable == Spec => []MeasuredIsDurable
<1>1. StoreInv => MeasuredIsDurable
  BY DEF StoreInv
<1> QED
  BY <1>1, StoreInvariant, PTL

(* No write, refused write, crash, restart or expiry changes the durable   *)
(* fact of an acknowledged number.                                         *)
THEOREM AcknowledgedAreKept == Spec => AcknowledgedSurvive
<1>1. StoreInv /\ [Next]_store
        => [\A s \in Slots : Measured(memory[s]) => durable'[s] = memory[s]]_store
  <2> SUFFICES ASSUME StoreInv, [Next]_store, ~UNCHANGED store,
                      NEW s \in Slots, Measured(memory[s])
               PROVE  durable'[s] = memory[s]
    OBVIOUS
  <2>1. durable[s] = memory[s]
    BY DEF StoreInv, MeasuredIsDurable
  <2>2. ~Refused(s) /\ ~Accepted(s) /\ ~Restored(s)
    BY NothingOffered DEF StoreInv, Refused, Accepted, Restored
  <2>3. durable'[s] = durable[s]
    BY <2>2 DEF Next, Write, Crash, Restart, Expire, Kept, store
  <2> QED
    BY <2>1, <2>3
<1> QED
  BY <1>1, StoreInvariant, PTL DEF Spec, AcknowledgedSurvive

-----------------------------------------------------------------------------
(***************************************************************************)
(* Sums over the rows of a vendor's store.                                 *)
(***************************************************************************)

Units(f, S) == UNION {{x} \X (1 .. f[x]) : x \in S}

LEMMA TotalIsUnits == \A f, S : Total(f, S) = Cardinality(Units(f, S))
  BY DEF Total, Units

(* A sum over finitely many bounded numbers is a number.                   *)
LEMMA UnitsFinite ==
  ASSUME NEW S, IsFiniteSet(S), NEW f, \A x \in S : f[x] \in 0 .. MaxSteps
  PROVE  IsFiniteSet(Units(f, S)) /\ Total(f, S) \in Nat
<1>1. Units(f, S) \in SUBSET (S \X (1 .. MaxSteps))
  <2>1. \A x \in S : (1 .. f[x]) \subseteq (1 .. MaxSteps)
    BY DatabaseConstants DEF DatabaseConstants
  <2>2. QED
    BY <2>1 DEF Units
<1>2. IsFiniteSet(S \X (1 .. MaxSteps))
  <2>1. IsFiniteSet(1 .. MaxSteps)
    BY FS_Interval, DatabaseConstants DEF DatabaseConstants
  <2>2. QED
    BY <2>1, FS_Product
<1>3. IsFiniteSet(Units(f, S))
  BY <1>1, <1>2, FS_Subset
<1>4. QED
  BY <1>3, TotalIsUnits, FS_CardinalityType

(* A sum grows with its rows and their numbers; a row of none adds none.   *)
LEMMA TotalGrows ==
  ASSUME NEW S, NEW U, IsFiniteSet(U), NEW f, NEW g,
         \A x \in S : f[x] \in 0 .. MaxSteps, \A x \in U : g[x] \in 0 .. MaxSteps,
         \A x \in S : f[x] = 0 \/ (x \in U /\ f[x] <= g[x])
  PROVE  Total(f, S) \in Nat /\ Total(g, U) \in Nat /\ Total(f, S) <= Total(g, U)
<1>1. Units(f, S) \in SUBSET Units(g, U)
  <2> SUFFICES ASSUME NEW x \in S, NEW n \in 1 .. f[x]
               PROVE  x \in U /\ n \in 1 .. g[x]
    BY DEF Units
  <2>1. f[x] \in Nat /\ f[x] # 0
    BY DatabaseConstants DEF DatabaseConstants
  <2>2. x \in U /\ f[x] <= g[x] /\ g[x] \in Nat
    BY <2>1, DatabaseConstants DEF DatabaseConstants
  <2>3. QED
    BY <2>1, <2>2
<1>2. IsFiniteSet(Units(g, U)) /\ Total(g, U) \in Nat
  BY UnitsFinite
<1>3. IsFiniteSet(Units(f, S)) /\ Cardinality(Units(f, S)) <= Cardinality(Units(g, U))
  BY <1>1, <1>2, FS_Subset
<1>4. QED
  BY <1>2, <1>3, TotalIsUnits, FS_CardinalityType

(* Two parts of the rows add up.                                           *)
LEMMA TotalAdds ==
  ASSUME NEW S, IsFiniteSet(S), NEW P, P \in SUBSET S, NEW f, \A x \in S : f[x] \in 0 .. MaxSteps
  PROVE  /\ Total(f, P) \in Nat /\ Total(f, S \ P) \in Nat
         /\ Total(f, P) + Total(f, S \ P) = Total(f, S)
<1>1. IsFiniteSet(P) /\ IsFiniteSet(S \ P)
  BY FS_Subset, FS_Difference
<1>2. /\ IsFiniteSet(Units(f, P)) /\ Total(f, P) \in Nat
      /\ IsFiniteSet(Units(f, S \ P)) /\ Total(f, S \ P) \in Nat
  BY <1>1, UnitsFinite
<1>3. Units(f, P) \cap Units(f, S \ P) = {} /\ Units(f, P) \cup Units(f, S \ P) = Units(f, S)
  BY DEF Units
<1>4. Cardinality(Units(f, S)) = Cardinality(Units(f, P)) + Cardinality(Units(f, S \ P))
  <2>1. Cardinality(Units(f, P) \cup Units(f, S \ P))
          = Cardinality(Units(f, P)) + Cardinality(Units(f, S \ P))
              - Cardinality(Units(f, P) \cap Units(f, S \ P))
    BY <1>2, FS_Union
  <2>2. Cardinality(Units(f, P) \cap Units(f, S \ P)) = 0
    BY <1>3, FS_EmptySet
  <2>3. Cardinality(Units(f, P)) \in Nat /\ Cardinality(Units(f, S \ P)) \in Nat
    BY <1>2, FS_CardinalityType
  <2>4. Cardinality(Units(f, P) \cup Units(f, S \ P))
          = Cardinality(Units(f, P)) + Cardinality(Units(f, S \ P))
    <3> HIDE DEF Units
    <3>1. QED
      BY <2>1, <2>2, <2>3
  <2>5. QED
    BY <2>4, <1>3
<1>5. QED
  BY <1>2, <1>4, TotalIsUnits

(* One more of a row is one more of the sum.                               *)
LEMMA OneMore ==
  ASSUME NEW S, IsFiniteSet(S), NEW f, f \in [S -> 0 .. MaxSteps], NEW a \in S,
         [f EXCEPT ![a] = @ + 1] \in [S -> 0 .. MaxSteps]
  PROVE  Total([f EXCEPT ![a] = @ + 1], S) = Total(f, S) + 1
<1> DEFINE g == [f EXCEPT ![a] = @ + 1]
<1>1. \A x \in S : f[x] \in 0 .. MaxSteps /\ f[x] \in Nat
  BY DatabaseConstants DEF DatabaseConstants
<1>2. \A x \in S : g[x] = IF x = a THEN f[x] + 1 ELSE f[x]
  OBVIOUS
<1>3. Units(g, S) = Units(f, S) \cup {<<a, f[a] + 1>>}
  <2>1. \A x \in S : 1 .. g[x] = (1 .. f[x]) \cup (IF x = a THEN {f[x] + 1} ELSE {})
    BY <1>1, <1>2
  <2> HIDE DEF g
  <2>2. QED
    BY <2>1 DEF Units
<1>4. <<a, f[a] + 1>> \notin Units(f, S)
  <2>1. f[a] + 1 \notin 1 .. f[a]
    BY <1>1
  <2>2. QED
    BY <2>1 DEF Units
<1>5. IsFiniteSet(Units(f, S)) /\ Total(f, S) \in Nat
  BY <1>1, UnitsFinite
<1>6. Cardinality(Units(g, S)) = Cardinality(Units(f, S)) + 1
  <2> HIDE DEF g
  <2>1. QED
    BY <1>3, <1>4, <1>5, FS_AddElement
<1>7. QED
  BY <1>6, TotalIsUnits

(* Rows of none add up to none.                                            *)
LEMMA TotalOfNone ==
  ASSUME NEW S, NEW f, \A x \in S : f[x] = 0
  PROVE  Total(f, S) = 0
<1>1. Units(f, S) = {}
  <2>1. \A x \in S : 1 .. f[x] = {}
    OBVIOUS
  <2>2. QED
    BY <2>1 DEF Units
<1>2. QED
  BY <1>1, TotalIsUnits, FS_EmptySet

(* Numbers that agree on the rows have the same sum.                       *)
LEMMA TotalAgrees ==
  ASSUME NEW S, NEW f, NEW g, \A x \in S : f[x] = g[x]
  PROVE  Total(f, S) = Total(g, S)
  BY DEF Total

(***************************************************************************)
(* What the reader has counted, while the vendor goes on writing.          *)
(***************************************************************************)

Usages == [m \in DbMessages |-> dbRows[m].usage]
StepsOf == [m \in DbMessages |-> dbRows[m].steps]

(* A message that has ended has its steps for its total.                   *)
RowsAreSound ==
  /\ dbVendor \in {"opencode", "hermes"} /\ partTable \in BOOLEAN
  /\ dbRows \in [DbMessages -> [role : {"none", "user", "assistant"},
                                steps : 0 .. MaxSteps, usage : 0 .. MaxSteps]]
  /\ \A m \in DbMessages : /\ dbRows[m].steps > 0 => dbRows[m].role = "assistant"
                           /\ dbRows[m].usage > 0 => dbRows[m].usage = dbRows[m].steps
  /\ worked \in [DbModels -> 0 .. MaxSteps]
  /\ aggregate \in Nat
  /\ dbVendor = "opencode" => aggregate <= Steps
  /\ dbVendor = "hermes" => aggregate = Total(worked, DbModels)

(* Between messages and parts the reader has the messages that had ended,  *)
(* and the parts of the others will add at least what it lacks.            *)
PartsToCome ==
  /\ dbVendor = "opencode"
  /\ dbRead.seen \in SUBSET DbMessages /\ dbRead.counted \in SUBSET dbRead.seen
  /\ \A m \in dbRead.counted : dbRows[m].usage > 0
  /\ dbRead.tokens = Total(StepsOf, dbRead.counted)
  /\ dbRead.began <= IF partTable THEN Total(StepsOf, dbRead.seen) ELSE dbRead.tokens

Places == {"idle", "parts", "session", "models", "done", "empty"}

ReadTypes ==
  [pc : Places, began : Nat, seen : SUBSET DbMessages, counted : SUBSET DbMessages,
   tokens : Nat, byModel : {dbRead.byModel}]

ReadIsSound ==
  /\ dbRead \in ReadTypes
  /\ dbRead.pc = "parts" => PartsToCome
  /\ dbRead.pc = "session" => dbVendor = "opencode"
  /\ dbRead.pc = "models" => dbVendor = "hermes"
  /\ dbRead.pc \in {"session", "models", "done"}
       => dbRead.began <= dbRead.tokens /\ dbRead.tokens <= EverUsed

DatabaseInv == RowsAreSound /\ ReadIsSound

(* The sums are numbers, whatever part of the rows they are over.          *)
LEMMA RowSums ==
  ASSUME RowsAreSound
  PROVE  /\ \A S \in SUBSET DbMessages : Total(StepsOf, S) \in Nat /\ Total(StepsOf, S) <= Steps
         /\ \A S \in SUBSET DbMessages : Total(Usages, S) \in Nat
         /\ Steps = Total(StepsOf, DbMessages) /\ Steps \in Nat
         /\ Total(worked, DbModels) \in Nat /\ EverUsed \in Nat
         /\ IsFiniteSet(DbMessages) /\ IsFiniteSet(DbModels)
<1>1. IsFiniteSet(DbMessages) /\ IsFiniteSet(DbModels)
  BY DatabaseConstants DEF DatabaseConstants
<1>2. \A m \in DbMessages : StepsOf[m] \in 0 .. MaxSteps /\ Usages[m] \in 0 .. MaxSteps
  BY DEF RowsAreSound, StepsOf, Usages
<1>3. ASSUME NEW S \in SUBSET DbMessages
      PROVE  /\ Total(StepsOf, S) \in Nat /\ Total(StepsOf, S) <= Total(StepsOf, DbMessages)
             /\ Total(Usages, S) \in Nat
  <2>1. IsFiniteSet(S)
    BY <1>1, FS_Subset
  <2>2. \A m \in S : m \in DbMessages /\ StepsOf[m] <= StepsOf[m]
    BY <1>2
  <2>3. QED
    BY <1>1, <1>2, <2>1, <2>2, TotalGrows, UnitsFinite
<1>4. Steps = Total(StepsOf, DbMessages)
  BY DEF Steps, StepsOf
<1>5. Total(worked, DbModels) \in Nat
  BY <1>1, UnitsFinite DEF RowsAreSound
<1>6. QED
  BY <1>1, <1>3, <1>4, <1>5 DEF EverUsed

(***************************************************************************)
(* Each step keeps it.                                                     *)
(***************************************************************************)

LEMMA DatabaseStarts == DatabaseInit => DatabaseInv
<1> SUFFICES ASSUME DatabaseInit PROVE DatabaseInv
  OBVIOUS
<1>1. RowsAreSound
  <2>1. \A m \in DbMessages : dbRows[m] = NoMessage
    BY DEF DatabaseInit
  <2>2. dbRows \in [DbMessages -> [role : {"none", "user", "assistant"},
                                   steps : 0 .. MaxSteps, usage : 0 .. MaxSteps]]
    BY DatabaseConstants DEF DatabaseInit, NoMessage, DatabaseConstants
  <2>3. worked \in [DbModels -> 0 .. MaxSteps] /\ \A m \in DbModels : worked[m] = 0
    BY DatabaseConstants DEF DatabaseInit, DatabaseConstants
  <2>4. Total(worked, DbModels) = 0
    BY <2>3, TotalOfNone
  <2>5. \A m \in DbMessages : [n \in DbMessages |-> dbRows[n].steps][m] = 0
    BY <2>1 DEF NoMessage
  <2>6. Steps = 0
    <3> HIDE DEF Total
    <3>1. QED
      BY <2>5, TotalOfNone DEF Steps
  <2>7. \A m \in DbMessages : dbRows[m].steps = 0 /\ dbRows[m].usage = 0
    BY <2>1 DEF NoMessage
  <2>8. QED
    BY <2>2, <2>3, <2>4, <2>6, <2>7 DEF RowsAreSound, DatabaseInit
<1>2. dbRead \in ReadTypes /\ dbRead.pc = "idle"
  BY DEF DatabaseInit, NotReading, ReadTypes, Places
<1>3. QED
  BY <1>1, <1>2 DEF DatabaseInv, ReadIsSound

(* What a vendor writes only adds: what the reader holds stays a part of   *)
(* what was ever used.                                                     *)
OnlyAdds ==
  /\ dbVendor' = dbVendor /\ partTable' = partTable /\ dbRead' = dbRead
  /\ \A m \in DbMessages : /\ dbRows[m].steps <= dbRows'[m].steps
                           /\ dbRows[m].usage > 0 => dbRows'[m] = dbRows[m]
  /\ \A m \in DbModels : worked[m] <= worked'[m]

LEMMA UsedGrows ==
  ASSUME RowsAreSound, RowsAreSound', OnlyAdds
  PROVE  /\ Steps <= Steps' /\ EverUsed <= EverUsed'
         /\ EverUsed \in Nat /\ EverUsed' \in Nat
         /\ \A S \in SUBSET DbMessages : Total(StepsOf, S) <= Total(StepsOf', S)
<1>1. IsFiniteSet(DbMessages) /\ IsFiniteSet(DbModels)
  BY DatabaseConstants DEF DatabaseConstants
<1>2. \A m \in DbMessages : /\ StepsOf[m] \in 0 .. MaxSteps /\ StepsOf'[m] \in 0 .. MaxSteps
                            /\ StepsOf[m] <= StepsOf'[m]
  BY DEF RowsAreSound, StepsOf, OnlyAdds
<1>3. \A S \in SUBSET DbMessages : Total(StepsOf, S) <= Total(StepsOf', S)
  <2> TAKE S \in SUBSET DbMessages
  <2>1. IsFiniteSet(S)
    BY <1>1, FS_Subset
  <2>2. \A x \in S : /\ StepsOf[x] \in 0 .. MaxSteps /\ StepsOf'[x] \in 0 .. MaxSteps
                     /\ StepsOf[x] <= StepsOf'[x]
    BY <1>2
  <2> HIDE DEF StepsOf
  <2>3. QED
    BY <2>1, <2>2, TotalGrows
<1>4. Steps = Total(StepsOf, DbMessages) /\ Steps' = Total(StepsOf', DbMessages)
  BY DEF Steps, StepsOf
<1>5. Total(worked, DbModels) <= Total(worked', DbModels)
  BY <1>1, TotalGrows DEF RowsAreSound, OnlyAdds
<1>6. Total(worked, DbModels) \in Nat /\ Total(worked', DbModels) \in Nat
  BY <1>1, UnitsFinite DEF RowsAreSound
<1>7. Steps \in Nat /\ Steps' \in Nat
  <2>1. \A x \in DbMessages : StepsOf[x] \in 0 .. MaxSteps /\ StepsOf'[x] \in 0 .. MaxSteps
    BY <1>2
  <2> HIDE DEF StepsOf
  <2>2. QED
    BY <1>1, <1>4, <2>1, UnitsFinite
<1>8. QED
  BY <1>3, <1>4, <1>5, <1>6, <1>7 DEF EverUsed, OnlyAdds

LEMMA VendorsOnlyAdd ==
  ASSUME DatabaseInv, RowsAreSound', OnlyAdds
  PROVE  DatabaseInv'
<1>1. RowsAreSound /\ ReadIsSound
  BY DEF DatabaseInv
<1>2. /\ EverUsed <= EverUsed' /\ EverUsed \in Nat /\ EverUsed' \in Nat
      /\ \A S \in SUBSET DbMessages : Total(StepsOf, S) <= Total(StepsOf', S)
  BY <1>1, UsedGrows
<1>3. dbRead' = dbRead /\ dbRead \in ReadTypes /\ dbRead' \in ReadTypes'
  BY <1>1 DEF OnlyAdds, ReadIsSound, ReadTypes
<1>4. ASSUME dbRead.pc = "parts"
      PROVE  PartsToCome'
  <2>1. PartsToCome
    BY <1>1, <1>4 DEF ReadIsSound
  <2>2. \A m \in dbRead.counted : m \in DbMessages /\ dbRows'[m] = dbRows[m]
    BY <2>1 DEF PartsToCome, OnlyAdds
  <2>3. \A m \in dbRead.counted : StepsOf[m] = StepsOf'[m]
    BY <2>2 DEF StepsOf
  <2>4. dbRead.tokens = Total(StepsOf', dbRead.counted)
    <3>1. Total(StepsOf, dbRead.counted) = Total(StepsOf', dbRead.counted)
      <4> HIDE DEF StepsOf
      <4>1. QED
        BY <2>3, TotalAgrees
    <3>2. QED
      BY <2>1, <3>1 DEF PartsToCome
  <2>5. /\ Total(StepsOf, dbRead.seen) <= Total(StepsOf', dbRead.seen)
        /\ Total(StepsOf, dbRead.seen) \in Nat /\ Total(StepsOf', dbRead.seen) \in Nat
    <3>1. \A S \in SUBSET DbMessages : Total(StepsOf, S) \in Nat
      BY <1>1, RowSums
    <3>2. \A S \in SUBSET DbMessages : Total(StepsOf', S) \in Nat
      <4>1. IsFiniteSet(DbMessages)
        BY DatabaseConstants DEF DatabaseConstants
      <4>2. \A x \in DbMessages : StepsOf'[x] \in 0 .. MaxSteps
        BY DEF RowsAreSound, StepsOf
      <4>3. QED
        <5> HIDE DEF StepsOf
        <5> TAKE S \in SUBSET DbMessages
        <5>1. IsFiniteSet(S) /\ \A x \in S : StepsOf'[x] \in 0 .. MaxSteps
          BY <4>1, <4>2, FS_Subset
        <5>2. QED
          BY <5>1, UnitsFinite
    <3>3. QED
      BY <1>2, <2>1, <3>1, <3>2 DEF PartsToCome
  <2>6. dbRead.began \in Nat
    BY <1>3 DEF ReadTypes
  <2>7. dbRead.began <= IF partTable THEN Total(StepsOf', dbRead.seen) ELSE dbRead.tokens
    BY <2>1, <2>5, <2>6 DEF PartsToCome
  <2>8. QED
    BY <1>3, <2>1, <2>2, <2>4, <2>7 DEF PartsToCome, OnlyAdds
<1>5. ASSUME dbRead.pc \in {"session", "models", "done"}
      PROVE  dbRead.began <= dbRead.tokens /\ dbRead.tokens <= EverUsed'
  <2>1. dbRead.began <= dbRead.tokens /\ dbRead.tokens <= EverUsed /\ dbRead.tokens \in Nat
    BY <1>1, <1>3, <1>5 DEF ReadIsSound, ReadTypes
  <2>2. QED
    BY <1>2, <2>1
<1>6. QED
  BY <1>1, <1>3, <1>4, <1>5 DEF DatabaseInv, ReadIsSound, OnlyAdds

LEMMA VendorSteps ==
  ASSUME DatabaseInv,
         \/ \E m \in DbMessages : AddMessage(m) \/ FinishStep(m) \/ EndMessage(m)
         \/ \E model \in DbModels : WorkWithModel(model)
         \/ SumSession
  PROVE  DatabaseInv'
<1>1. RowsAreSound
  BY DEF DatabaseInv
<1>2. MaxSteps \in Nat /\ IsFiniteSet(DbMessages) /\ IsFiniteSet(DbModels)
  BY DatabaseConstants DEF DatabaseConstants
<1>3. OnlyAdds
  <2>1. \A m \in DbMessages : dbRows[m].steps \in Nat /\ dbRows[m].usage \in Nat
    BY <1>1, <1>2 DEF RowsAreSound
  <2>2. \A m \in DbModels : worked[m] \in Nat
    BY <1>1, <1>2 DEF RowsAreSound
  <2>3. dbVendor' = dbVendor /\ partTable' = partTable /\ dbRead' = dbRead
    BY DEF AddMessage, FinishStep, EndMessage, WorkWithModel, SumSession
  <2>4. \A m \in DbMessages : /\ dbRows[m].steps <= dbRows'[m].steps
                              /\ dbRows[m].usage > 0 => dbRows'[m] = dbRows[m]
    BY <1>1, <1>2, <2>1
    DEF RowsAreSound, AddMessage, FinishStep, EndMessage, WorkWithModel, SumSession
  <2>5. \A m \in DbModels : worked[m] <= worked'[m]
    BY <1>1, <1>2, <2>2
    DEF RowsAreSound, AddMessage, FinishStep, EndMessage, WorkWithModel, SumSession
  <2>6. QED
    BY <2>3, <2>4, <2>5 DEF OnlyAdds
<1>4. RowsAreSound'
  <2>1. dbVendor' \in {"opencode", "hermes"} /\ partTable' \in BOOLEAN
    BY <1>1, <1>3 DEF RowsAreSound, OnlyAdds
  <2>2. dbRows' \in [DbMessages -> [role : {"none", "user", "assistant"},
                                    steps : 0 .. MaxSteps, usage : 0 .. MaxSteps]]
    BY <1>1, <1>2
    DEF RowsAreSound, AddMessage, FinishStep, EndMessage, WorkWithModel, SumSession
  <2>3. \A m \in DbMessages : /\ dbRows'[m].steps > 0 => dbRows'[m].role = "assistant"
                              /\ dbRows'[m].usage > 0 => dbRows'[m].usage = dbRows'[m].steps
    BY <1>1, <1>2
    DEF RowsAreSound, AddMessage, FinishStep, EndMessage, WorkWithModel, SumSession
  <2>4. worked' \in [DbModels -> 0 .. MaxSteps]
    BY <1>1, <1>2
    DEF RowsAreSound, AddMessage, FinishStep, EndMessage, WorkWithModel, SumSession
  <2>5. aggregate \in Nat /\ Steps \in Nat /\ Total(worked, DbModels) \in Nat
    BY <1>1, RowSums DEF RowsAreSound
  <2>6. aggregate' \in Nat
    BY <2>5 DEF AddMessage, FinishStep, EndMessage, WorkWithModel, SumSession
  <2>7. Steps <= Steps' /\ Steps' \in Nat
    <3>1. \A m \in DbMessages : /\ StepsOf[m] \in 0 .. MaxSteps /\ StepsOf'[m] \in 0 .. MaxSteps
                                /\ StepsOf[m] <= StepsOf'[m]
      BY <1>1, <1>3, <2>2 DEF RowsAreSound, StepsOf, OnlyAdds
    <3>2. Steps = Total(StepsOf, DbMessages) /\ Steps' = Total(StepsOf', DbMessages)
      BY DEF Steps, StepsOf
    <3> HIDE DEF StepsOf
    <3>3. QED
      BY <1>2, <3>1, <3>2, TotalGrows
  <2>8. dbVendor' = "opencode" => aggregate' <= Steps'
    <3>1. aggregate' \in {aggregate, Steps} \/ dbVendor = "hermes"
      BY DEF AddMessage, FinishStep, EndMessage, WorkWithModel, SumSession
    <3>2. QED
      BY <1>1, <1>3, <2>5, <2>7, <3>1 DEF RowsAreSound, OnlyAdds
  <2>9. dbVendor' = "hermes" => aggregate' = Total(worked', DbModels)
    <3> SUFFICES ASSUME dbVendor = "hermes" PROVE aggregate' = Total(worked', DbModels)
      BY <1>3 DEF OnlyAdds
    <3>1. aggregate = Total(worked, DbModels)
      BY <1>1 DEF RowsAreSound
    <3>2. CASE \E model \in DbModels : WorkWithModel(model)
      <4> PICK model \in DbModels : WorkWithModel(model)
        BY <3>2
      <4>1. /\ worked' = [worked EXCEPT ![model] = @ + 1]
            /\ aggregate' = aggregate + 1
        BY DEF WorkWithModel
      <4>2. Total(worked', DbModels) = Total(worked, DbModels) + 1
        BY <1>1, <1>2, <2>4, <4>1, OneMore DEF RowsAreSound
      <4>3. QED
        BY <3>1, <4>1, <4>2
    <3>3. CASE ~ \E model \in DbModels : WorkWithModel(model)
      <4>1. worked' = worked /\ aggregate' = aggregate
        BY <3>3 DEF AddMessage, FinishStep, EndMessage, SumSession
      <4>2. QED
        BY <3>1, <4>1
    <3>4. QED
      BY <3>2, <3>3
  <2>10. QED
    BY <2>1, <2>2, <2>3, <2>4, <2>6, <2>8, <2>9 DEF RowsAreSound
<1>5. QED
  BY <1>3, <1>4, VendorsOnlyAdd

(* The reader writes nothing, so the rows it reads stay sound.             *)
Reads == UNCHANGED <<dbVendor, partTable, dbRows, worked, aggregate>>

LEMMA RowsUnread ==
  ASSUME DatabaseInv, Reads
  PROVE  RowsAreSound /\ RowsAreSound' /\ EverUsed' = EverUsed
  BY DEF DatabaseInv, Reads, RowsAreSound, Steps, EverUsed

(* The totals a read leaves are what is still to be shown.                 *)
LEMMA ReadStays ==
  ASSUME DatabaseInv, Reads, dbRead' \in ReadTypes',
         dbRead'.pc \in {"idle", "session", "models", "done", "empty"},
         dbRead'.pc = "session" => dbVendor = "opencode",
         dbRead'.pc = "models" => dbVendor = "hermes",
         dbRead'.pc \in {"session", "models", "done"}
           => dbRead'.began <= dbRead'.tokens /\ dbRead'.tokens <= EverUsed
  PROVE  DatabaseInv'
  BY RowsUnread DEF DatabaseInv, ReadIsSound, Reads

(* The messages that have ended, and what they leave to the parts.         *)
LEMMA MessagesRead ==
  ASSUME DatabaseInv, ReadOpenCodeMessages
  PROVE  DatabaseInv'
<1> DEFINE seen == {m \in DbMessages : dbRows[m].role # "none"}
           counted == {m \in seen : dbRows[m].role = "assistant" /\ dbRows[m].usage > 0}
<1>1. RowsAreSound /\ RowsAreSound' /\ dbVendor = "opencode" /\ dbVendor' = dbVendor
  BY RowsUnread DEF ReadOpenCodeMessages, Reads
<1>2. /\ \A S \in SUBSET DbMessages : Total(StepsOf, S) \in Nat /\ Total(Usages, S) \in Nat
      /\ Steps = Total(StepsOf, DbMessages) /\ IsFiniteSet(DbMessages)
  BY <1>1, RowSums
<1>3. seen \in SUBSET DbMessages /\ counted \in SUBSET seen /\ counted \in SUBSET DbMessages
  OBVIOUS
<1>4. /\ \A m \in DbMessages : StepsOf[m] \in 0 .. MaxSteps /\ Usages[m] \in 0 .. MaxSteps
      /\ \A m \in DbMessages \ seen : StepsOf[m] = 0
      /\ \A m \in DbMessages \ counted : Usages[m] = 0
      /\ \A m \in counted : Usages[m] = StepsOf[m] /\ dbRows[m].usage > 0
  BY <1>1, DatabaseConstants DEF RowsAreSound, StepsOf, Usages, DatabaseConstants
<1>5. Total(Usages, counted) = Total(StepsOf, counted)
  BY <1>4, TotalAgrees
<1>6. Total(StepsOf, seen) = Steps
  <2>1. Total(StepsOf, DbMessages \ seen) = 0
    BY <1>4, TotalOfNone
  <2>2. Total(StepsOf, seen) + Total(StepsOf, DbMessages \ seen) = Total(StepsOf, DbMessages)
    BY <1>2, <1>3, <1>4, TotalAdds
  <2>3. Total(StepsOf, seen) \in Nat
    BY <1>2, <1>3
  <2> HIDE DEF seen
  <2>4. QED
    BY <1>2, <2>1, <2>2, <2>3
<1>7. Total(Usages, DbMessages) = Total(Usages, counted)
  <2>1. Total(Usages, DbMessages \ counted) = 0
    BY <1>4, TotalOfNone
  <2>2. Total(Usages, counted) + Total(Usages, DbMessages \ counted) = Total(Usages, DbMessages)
    BY <1>2, <1>3, <1>4, TotalAdds
  <2>3. Total(Usages, counted) \in Nat
    BY <1>2, <1>3
  <2> HIDE DEF counted
  <2>4. QED
    BY <1>2, <2>1, <2>2, <2>3
<1>8. Recorded = IF partTable THEN Total(StepsOf, seen) ELSE Total(Usages, counted)
  <2>1. Recorded = IF partTable THEN Steps ELSE Total(Usages, DbMessages)
    BY <1>1 DEF Recorded, Usages
  <2>2. QED
    BY <1>6, <1>7, <2>1
<1>9. Recorded \in Nat /\ Total(Usages, counted) \in Nat
  BY <1>2, <1>3, <1>8
<1>10. dbRead' = [NotReading EXCEPT !.pc = "parts", !.began = Recorded, !.seen = seen,
                    !.counted = counted, !.tokens = Total(Usages, counted)]
  BY DEF ReadOpenCodeMessages, Usages
<1>11. /\ dbRead'.pc = "parts" /\ dbRead'.began = Recorded /\ dbRead'.seen = seen
       /\ dbRead'.counted = counted /\ dbRead'.tokens = Total(Usages, counted)
       /\ dbRead' = [pc |-> dbRead'.pc, began |-> dbRead'.began, seen |-> dbRead'.seen,
                     counted |-> dbRead'.counted, tokens |-> dbRead'.tokens,
                     byModel |-> dbRead'.byModel]
  <2> HIDE DEF seen, counted
  <2>1. QED
    BY <1>10 DEF NotReading
<1>12. dbRead' \in ReadTypes'
  <2>1. /\ dbRead'.pc \in Places /\ dbRead'.began \in Nat /\ dbRead'.tokens \in Nat
        /\ dbRead'.seen \in SUBSET DbMessages /\ dbRead'.counted \in SUBSET DbMessages
    BY <1>3, <1>9, <1>11 DEF Places
  <2>2. QED
    BY <1>11, <2>1, Zenon DEF ReadTypes, Places
<1>13. UNCHANGED <<dbVendor, partTable, dbRows>>
  BY DEF ReadOpenCodeMessages
<1>14. PartsToCome'
  <2>1. StepsOf' = StepsOf
    BY <1>13 DEF StepsOf
  <2>2. dbRead'.tokens = Total(StepsOf', dbRead'.counted)
    BY <1>5, <1>11, <2>1
  <2>3. dbRead'.began <= IF partTable' THEN Total(StepsOf', dbRead'.seen) ELSE dbRead'.tokens
    <3>1. dbRead'.began = IF partTable THEN Total(StepsOf, seen) ELSE dbRead'.tokens
      BY <1>8, <1>11
    <3>2. dbRead'.began \in Nat
      BY <1>9, <1>11
    <3> HIDE DEF seen
    <3>3. QED
      BY <1>11, <1>13, <2>1, <3>1, <3>2
  <2>4. \A m \in dbRead'.counted : dbRows'[m].usage > 0
    BY <1>4, <1>11, <1>13
  <2>5. QED
    BY <1>1, <1>3, <1>11, <2>2, <2>3, <2>4 DEF PartsToCome
<1>15. QED
  BY <1>1, <1>11, <1>12, <1>14 DEF DatabaseInv, ReadIsSound

(* The parts of the open messages bring the rest, no step twice.           *)
LEMMA PartsRead ==
  ASSUME DatabaseInv, ReadOpenCodeParts
  PROVE  DatabaseInv'
<1> DEFINE open == IF partTable THEN OpenMessages ELSE {}
<1>1. RowsAreSound /\ PartsToCome /\ dbRead \in ReadTypes /\ Reads /\ dbVendor = "opencode"
  BY DEF ReadOpenCodeParts, Reads, DatabaseInv, ReadIsSound
<1>2. /\ \A S \in SUBSET DbMessages : Total(StepsOf, S) \in Nat /\ Total(StepsOf, S) <= Steps
      /\ Steps \in Nat /\ IsFiniteSet(DbMessages)
  BY <1>1, RowSums
<1>3. \A m \in DbMessages : StepsOf[m] \in 0 .. MaxSteps
  BY <1>1 DEF RowsAreSound, StepsOf
<1>4. /\ dbRead.seen \in SUBSET DbMessages /\ dbRead.counted \in SUBSET dbRead.seen
      /\ dbRead.tokens = Total(StepsOf, dbRead.counted)
      /\ dbRead.began <= IF partTable THEN Total(StepsOf, dbRead.seen) ELSE dbRead.tokens
  BY <1>1 DEF PartsToCome
<1>5. Total(StepsOf, dbRead.counted) + Total(StepsOf, dbRead.seen \ dbRead.counted)
        = Total(StepsOf, dbRead.seen)
  <2>1. IsFiniteSet(dbRead.seen) /\ \A m \in dbRead.seen : StepsOf[m] \in 0 .. MaxSteps
    BY <1>2, <1>3, <1>4, FS_Subset
  <2>2. QED
    BY <1>4, <2>1, TotalAdds
<1>6. Total(StepsOf, {}) = 0
  BY TotalOfNone
<1>7. dbRead' = [dbRead EXCEPT !.pc = "session", !.tokens = @ + Total(StepsOf, open)]
  BY DEF ReadOpenCodeParts, StepsOf
<1>8. /\ dbRead'.pc = "session" /\ dbRead'.began = dbRead.began
      /\ dbRead'.tokens = dbRead.tokens + Total(StepsOf, open)
      /\ dbRead'.seen = dbRead.seen /\ dbRead'.counted = dbRead.counted
      /\ dbRead' = [pc |-> dbRead'.pc, began |-> dbRead'.began, seen |-> dbRead'.seen,
                    counted |-> dbRead'.counted, tokens |-> dbRead'.tokens,
                    byModel |-> dbRead'.byModel]
  <2> HIDE DEF open
  <2>1. QED
    BY <1>1, <1>7 DEF ReadTypes
<1>9. /\ dbRead.tokens \in Nat /\ dbRead.began \in Nat /\ Total(StepsOf, dbRead.seen) \in Nat
      /\ dbRead.counted \in SUBSET DbMessages /\ Total(StepsOf, dbRead.seen) <= Steps
      /\ dbRead.tokens <= Steps
  BY <1>1, <1>2, <1>4 DEF ReadTypes
<1>10. dbRead'.tokens = IF partTable THEN Total(StepsOf, dbRead.seen) ELSE dbRead.tokens
  <2>1. CASE partTable
    <3>1. open = dbRead.seen \ dbRead.counted
      BY <2>1 DEF OpenMessages
    <3>2. QED
      BY <1>4, <1>5, <1>8, <2>1, <3>1
  <2>2. CASE ~ partTable
    BY <1>6, <1>8, <1>9, <2>2
  <2>3. QED
    BY <2>1, <2>2
<1>11. dbRead'.began <= dbRead'.tokens /\ dbRead'.tokens <= Steps /\ dbRead'.tokens \in Nat
  BY <1>4, <1>8, <1>9, <1>10
<1>12. dbRead' \in ReadTypes'
  <2>1. /\ dbRead'.pc \in Places /\ dbRead'.began \in Nat /\ dbRead'.tokens \in Nat
        /\ dbRead'.seen \in SUBSET DbMessages /\ dbRead'.counted \in SUBSET DbMessages
    BY <1>4, <1>8, <1>9, <1>11 DEF Places
  <2>2. QED
    BY <1>8, <2>1, Zenon DEF ReadTypes, Places
<1>13. EverUsed = Steps
  BY <1>1 DEF EverUsed
<1>14. QED
  BY <1>1, <1>8, <1>11, <1>12, <1>13, ReadStays

(* The session's columns stand in only for a read that counted nothing.    *)
LEMMA SessionRead ==
  ASSUME DatabaseInv, ReadOpenCodeSession
  PROVE  DatabaseInv'
<1>1. /\ RowsAreSound /\ dbRead \in ReadTypes /\ Reads /\ dbVendor = "opencode"
      /\ dbRead.began <= dbRead.tokens /\ dbRead.tokens <= EverUsed
  BY DEF ReadOpenCodeSession, Reads, DatabaseInv, ReadIsSound
<1>2. aggregate \in Nat /\ aggregate <= EverUsed
  BY <1>1 DEF RowsAreSound, EverUsed
<1>3. /\ dbRead'.pc \in {"empty", "done"} /\ dbRead'.began = dbRead.began
      /\ dbRead'.tokens = (IF dbRead.tokens = 0 THEN aggregate ELSE dbRead.tokens)
      /\ dbRead'.seen = dbRead.seen /\ dbRead'.counted = dbRead.counted
      /\ dbRead' = [pc |-> dbRead'.pc, began |-> dbRead'.began, seen |-> dbRead'.seen,
                    counted |-> dbRead'.counted, tokens |-> dbRead'.tokens,
                    byModel |-> dbRead'.byModel]
  BY <1>1 DEF ReadOpenCodeSession, ReadTypes
<1>4. /\ dbRead.began \in Nat /\ dbRead.tokens \in Nat
      /\ dbRead.seen \in SUBSET DbMessages /\ dbRead.counted \in SUBSET DbMessages
  BY <1>1 DEF ReadTypes
<1>5. dbRead'.began <= dbRead'.tokens /\ dbRead'.tokens <= EverUsed /\ dbRead'.tokens \in Nat
  BY <1>1, <1>2, <1>3, <1>4
<1>6. dbRead' \in ReadTypes'
  <2>1. /\ dbRead'.pc \in Places /\ dbRead'.began \in Nat /\ dbRead'.tokens \in Nat
        /\ dbRead'.seen \in SUBSET DbMessages /\ dbRead'.counted \in SUBSET DbMessages
    BY <1>3, <1>4, <1>5 DEF Places
  <2>2. QED
    BY <1>3, <2>1, Zenon DEF ReadTypes, Places
<1>7. QED
  BY <1>1, <1>3, <1>5, <1>6, ReadStays

(* Hermes' aggregate is the sum of its usage by model at every moment.     *)
LEMMA HermesRead ==
  ASSUME DatabaseInv, ReadHermesSession \/ ReadHermesModels \/ HermesModelsUnreadable
  PROVE  DatabaseInv'
<1>1. RowsAreSound /\ dbRead \in ReadTypes /\ Reads /\ dbVendor = "hermes"
  BY DEF ReadHermesSession, ReadHermesModels, HermesModelsUnreadable, Reads, DatabaseInv,
         ReadIsSound
<1>2. /\ EverUsed = Total(worked, DbModels) /\ EverUsed \in Nat
      /\ aggregate = EverUsed /\ IsFiniteSet(DbModels)
  BY <1>1, RowSums DEF EverUsed, RowsAreSound
<1>3. Recorded = EverUsed
  BY <1>1 DEF Recorded, EverUsed
<1>4. Total(worked, {m \in DbModels : worked[m] > 0}) = EverUsed
  <2> DEFINE used == {m \in DbModels : worked[m] > 0}
  <2>1. /\ used \in SUBSET DbModels /\ \A m \in DbModels : worked[m] \in 0 .. MaxSteps
        /\ \A m \in DbModels \ used : worked[m] = 0
    BY <1>1, DatabaseConstants DEF RowsAreSound, DatabaseConstants
  <2>2. Total(worked, DbModels \ used) = 0
    BY <2>1, TotalOfNone
  <2>3. /\ Total(worked, used) + Total(worked, DbModels \ used) = Total(worked, DbModels)
        /\ Total(worked, used) \in Nat
    BY <1>2, <2>1, TotalAdds
  <2> HIDE DEF used
  <2>4. Total(worked, used) = EverUsed
    BY <1>2, <2>2, <2>3
  <2>5. QED
    BY <2>4 DEF used
<1>5. CASE ReadHermesSession
  <2> PICK model \in DbModels :
        dbRead' = [NotReading EXCEPT !.pc = "models", !.began = Recorded,
                     !.tokens = aggregate, !.byModel[model] = aggregate]
    BY <1>5 DEF ReadHermesSession
  <2>1. /\ dbRead'.pc = "models" /\ dbRead'.began = EverUsed /\ dbRead'.tokens = EverUsed
        /\ dbRead'.seen = {} /\ dbRead'.counted = {}
        /\ dbRead' = [pc |-> dbRead'.pc, began |-> dbRead'.began, seen |-> dbRead'.seen,
                      counted |-> dbRead'.counted, tokens |-> dbRead'.tokens,
                      byModel |-> dbRead'.byModel]
    BY <1>2, <1>3 DEF NotReading
  <2>2. dbRead' \in ReadTypes'
    <3>1. /\ dbRead'.pc \in Places /\ dbRead'.began \in Nat /\ dbRead'.tokens \in Nat
          /\ dbRead'.seen \in SUBSET DbMessages /\ dbRead'.counted \in SUBSET DbMessages
      BY <1>2, <2>1 DEF Places
    <3>2. QED
      BY <2>1, <3>1, Zenon DEF ReadTypes, Places
  <2>3. QED
    BY <1>1, <1>2, <2>1, <2>2, ReadStays
<1>6. CASE ReadHermesModels \/ HermesModelsUnreadable
  <2>1. dbRead.pc = "models" /\ dbRead.began <= dbRead.tokens /\ dbRead.tokens <= EverUsed
    BY <1>6 DEF ReadHermesModels, HermesModelsUnreadable, DatabaseInv, ReadIsSound
  <2>2. /\ dbRead.began \in Nat /\ dbRead.tokens \in Nat
        /\ dbRead.seen \in SUBSET DbMessages /\ dbRead.counted \in SUBSET DbMessages
        /\ dbRead = [pc |-> dbRead.pc, began |-> dbRead.began, seen |-> dbRead.seen,
                     counted |-> dbRead.counted, tokens |-> dbRead.tokens,
                     byModel |-> dbRead.byModel]
    BY <1>1 DEF ReadTypes
  <2>3. \/ dbRead' = [dbRead EXCEPT !.pc = "done"]
        \/ \E order : dbRead' = [dbRead EXCEPT !.pc = "done", !.tokens = EverUsed,
                                   !.byModel = HermesUsageByModel(order)]
    BY <1>4, <1>6 DEF ReadHermesModels, HermesModelsUnreadable
  <2>4. /\ dbRead'.pc = "done" /\ dbRead'.began = dbRead.began
        /\ dbRead'.tokens \in {dbRead.tokens, EverUsed}
        /\ dbRead'.seen = dbRead.seen /\ dbRead'.counted = dbRead.counted
        /\ dbRead' = [pc |-> dbRead'.pc, began |-> dbRead'.began, seen |-> dbRead'.seen,
                      counted |-> dbRead'.counted, tokens |-> dbRead'.tokens,
                      byModel |-> dbRead'.byModel]
    BY <2>2, <2>3
  <2>5. dbRead'.began <= dbRead'.tokens /\ dbRead'.tokens <= EverUsed /\ dbRead'.tokens \in Nat
    BY <1>2, <2>1, <2>2, <2>4
  <2>6. dbRead' \in ReadTypes'
    <3>1. /\ dbRead'.pc \in Places /\ dbRead'.began \in Nat /\ dbRead'.tokens \in Nat
          /\ dbRead'.seen \in SUBSET DbMessages /\ dbRead'.counted \in SUBSET DbMessages
      BY <2>2, <2>4, <2>5 DEF Places
    <3>2. QED
      BY <2>4, <3>1, Zenon DEF ReadTypes, Places
  <2>7. QED
    BY <1>1, <2>4, <2>5, <2>6, ReadStays
<1>7. QED
  BY <1>5, <1>6

LEMMA ReadEnds ==
  ASSUME DatabaseInv, FailRead \/ ReturnSession
  PROVE  DatabaseInv'
<1>1. Reads /\ dbRead' = NotReading
  BY DEF FailRead, ReturnSession, Reads
<1>2. dbRead'.pc = "idle" /\ dbRead' \in ReadTypes'
  BY <1>1 DEF NotReading, ReadTypes, Places
<1>3. QED
  BY <1>1, <1>2, ReadStays

LEMMA DatabaseStays == DatabaseInv /\ [DatabaseNext]_dbVars => DatabaseInv'
<1> SUFFICES ASSUME DatabaseInv, [DatabaseNext]_dbVars PROVE DatabaseInv'
  OBVIOUS
<1>1. CASE \/ \E m \in DbMessages : AddMessage(m) \/ FinishStep(m) \/ EndMessage(m)
           \/ \E model \in DbModels : WorkWithModel(model)
           \/ SumSession
  BY <1>1, VendorSteps
<1>2. CASE ReadOpenCodeMessages \/ ReadOpenCodeParts \/ ReadOpenCodeSession
  BY <1>2, MessagesRead, PartsRead, SessionRead
<1>3. CASE ReadHermesSession \/ ReadHermesModels \/ HermesModelsUnreadable
  BY <1>3, HermesRead
<1>4. CASE FailRead \/ ReturnSession
  BY <1>4, ReadEnds
<1>5. CASE UNCHANGED dbVars
  BY <1>5 DEF dbVars, DatabaseInv, RowsAreSound, ReadIsSound, PartsToCome, ReadTypes, StepsOf,
     Steps, EverUsed
<1>6. QED
  BY <1>1, <1>2, <1>3, <1>4, <1>5 DEF DatabaseNext

(* Whatever the vendors write between its queries, a session read reports  *)
(* at least what the store held when it began and at most what was ever    *)
(* used (parseOpenCodeDatabaseSessions, parseHermesDatabaseSessions).      *)
THEOREM ReadsAreBracketed == DatabaseSpec => []SessionReadIsBracketed
<1>1. DatabaseInv => SessionReadIsBracketed
  BY DEF DatabaseInv, ReadIsSound, SessionReadIsBracketed
<1>2. QED
  BY <1>1, DatabaseStarts, DatabaseStays, PTL DEF DatabaseSpec
=============================================================================
