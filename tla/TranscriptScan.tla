--------------------------- MODULE TranscriptScan ---------------------------
(***************************************************************************)
(* The transcript scan (transcripts.go): concurrent callers of             *)
(* transcriptData share one scan per cache key, a scan parses the files    *)
(* the evidence index lists, and its result is cached only if the index    *)
(* revision did not move meanwhile.  Between scans each file keeps its     *)
(* parsed trace with the size it was parsed at, so that a file that only   *)
(* grew is parsed from there on.                                           *)
(*                                                                         *)
(* A transcript is its number of complete lines and whether a torn line    *)
(* follows; each complete line carries one token.  A trace is how far it   *)
(* reads and how many tokens it counted.  The index is what its own module *)
(* promises: the size it last saw of each file and a revision that names   *)
(* one catalog.                                                            *)
(***************************************************************************)
EXTENDS Integers, FiniteSets

CONSTANTS ScanCallers,        \* goroutines that build snapshots
          Transcripts,    \* transcript files
          Keys,           \* cache keys: one per priority set
          KeyOf,          \* the key of a caller's arguments
          MaxLines,       \* bound: complete lines a file grows to
          MaxCalls,       \* bound: calls of one caller
          MaxScanFaults,  \* bound: parse failures, panics, incomplete walks and cancellations
          WaitRetryLimit  \* transcriptHealthyWaitRetryLimit

NoScanner == "nobody"

ASSUME ScanConstants ==
    /\ NoScanner \notin ScanCallers
    /\ KeyOf \in [ScanCallers -> Keys]
    /\ MaxLines \in Nat \ {0} /\ MaxCalls \in Nat /\ MaxScanFaults \in Nat
    /\ WaitRetryLimit \in Nat \ {0}

VARIABLES text,      \* the files on disk
          listed,    \* the size the index holds for each file
          revision,  \* the index revision
          fileCache, \* the parsed trace of each file
          scanCache,     \* the cached scan: transcriptCacheState
          inflight,  \* who scans for each key
          call,      \* each caller's locals
          calls,     \* calls made, for the bound
          faults     \* faults so far, for the bound

scanVars == <<text, listed, revision, fileCache, scanCache, inflight,
              call, calls, faults>>

-----------------------------------------------------------------------------
Gone == [there |-> FALSE, lines |-> 0, torn |-> FALSE]
SizeOf(t) == IF t.there THEN 2 * t.lines + (IF t.torn THEN 1 ELSE 0) ELSE -1
NoTrace == [upto |-> 0, tokens |-> 0]
NoEntry == [size |-> -1, newline |-> FALSE, trace |-> NoTrace, failed |-> FALSE,
            retry |-> FALSE]

\* TranscriptData: a trace per file, the files whose failure it discloses, the
\* revision it was collected at, and every cause that set CoverageIncomplete.
EmptyData == [traces |-> [f \in Transcripts |-> NoTrace], failed |-> {},
              revision |-> 0, why |-> {}]
Partial(cause) == [EmptyData EXCEPT !.why = {cause}]
IsComplete(data) == data.why = {}
NoScan == [data |-> EmptyData, key |-> NoScanner, revision |-> 0, fresh |-> FALSE]

\* What a whole parse and a parse of the bytes from a size on make of a file:
\* both read to the end of the file as it is when it is opened.
WholeTrace(t) == [upto |-> t.lines, tokens |-> t.lines]
AppendTrace(base, size, t) ==
    [upto   |-> t.lines,
     tokens |-> base.tokens + (IF t.lines > size \div 2 THEN t.lines - size \div 2 ELSE 0)]

AtRest == [pc |-> "idle", done |-> FALSE, retries |-> 0, revision |-> 0,
           sizes |-> [f \in Transcripts |-> -1], data |-> EmptyData,
           todo |-> {}, from |-> [f \in Transcripts |-> NoEntry],
           updates |-> [f \in Transcripts |-> NoEntry],
           got |-> EmptyData, full |-> FALSE]

ScanInit ==
    /\ text \in [Transcripts -> {Gone, [there |-> TRUE, lines |-> 1, torn |-> FALSE]}]
    /\ listed = [f \in Transcripts |-> SizeOf(text[f])]
    /\ revision = 1
    /\ fileCache = [f \in Transcripts |-> NoEntry]
    /\ scanCache = NoScan
    /\ inflight = [k \in Keys |-> NoScanner]
    /\ call = [c \in ScanCallers |-> AtRest]
    /\ calls = [c \in ScanCallers |-> 0]
    /\ faults = 0

-----------------------------------------------------------------------------
(* Agents and the index.                                                   *)

Rewrite(f, t) == /\ text' = [text EXCEPT ![f] = t]
                 /\ UNCHANGED <<listed, revision, fileCache, scanCache,
                                inflight, call, calls, faults>>

\* An agent appends a line, in one write or in two, or deletes the file.
AppendLine(f) ==
    /\ text[f].there /\ text[f].lines < MaxLines
    /\ Rewrite(f, [text[f] EXCEPT !.lines = @ + 1, !.torn = FALSE])

TearLine(f) ==
    /\ text[f].there /\ text[f].lines < MaxLines /\ ~text[f].torn
    /\ Rewrite(f, [text[f] EXCEPT !.torn = TRUE])

DeleteTranscript(f) == text[f].there /\ Rewrite(f, Gone)

\* The index learns a file's size: it holds it from the next revision on.
Observe(sizes) ==
    /\ listed' = sizes
    /\ revision' = IF sizes = listed THEN revision ELSE revision + 1

IndexEvent(f) ==
    /\ listed[f] # SizeOf(text[f])
    /\ Observe([listed EXCEPT ![f] = SizeOf(text[f])])
    /\ UNCHANGED <<text, fileCache, scanCache, inflight, call, calls, faults>>

-----------------------------------------------------------------------------
(* transcriptData: the cache, the flight, the wait.                        *)

Set(c, r) == call' = [call EXCEPT ![c] = r]
Pc(c) == call[c].pc
Key(c) == KeyOf[c]

Reply(c) == Set(c, AtRest)

CallScan(c) ==
    /\ Pc(c) = "idle" /\ calls[c] < MaxCalls
    /\ calls' = [calls EXCEPT ![c] = @ + 1]
    /\ Set(c, [AtRest EXCEPT !.pc = "check"])
    /\ UNCHANGED <<text, listed, revision, fileCache, scanCache, inflight, faults>>

CancelScanContext(c) ==
    /\ Pc(c) # "idle" /\ ~call[c].done /\ faults < MaxScanFaults
    /\ Set(c, [call[c] EXCEPT !.done = TRUE])
    /\ faults' = faults + 1
    /\ UNCHANGED <<text, listed, revision, fileCache, scanCache, inflight, calls>>

CacheHit(c) == /\ scanCache.fresh /\ scanCache.key = Key(c) /\ scanCache.revision = revision

\* A cached scan of this key and this revision: clone it, then look again.
TakeHit(c) ==
    /\ Pc(c) = "check" /\ CacheHit(c)
    /\ Set(c, [call[c] EXCEPT !.pc = "hit", !.data = scanCache.data, !.revision = revision])
    /\ UNCHANGED <<text, listed, revision, fileCache, scanCache, inflight,
                   calls, faults>>

ConfirmHit(c) ==
    /\ Pc(c) = "hit"
    /\ IF call[c].revision = revision
       THEN Reply(c)
       ELSE Set(c, [call[c] EXCEPT !.pc = "check", !.data = EmptyData])
    /\ UNCHANGED <<text, listed, revision, fileCache, scanCache, inflight,
                   calls, faults>>

\* Somebody scans for this key: wait.
JoinScan(c) ==
    /\ Pc(c) = "check" /\ ~CacheHit(c) /\ inflight[Key(c)] # NoScanner
    /\ Set(c, [call[c] EXCEPT !.pc = "wait"])
    /\ UNCHANGED <<text, listed, revision, fileCache, scanCache, inflight,
                   calls, faults>>

ClaimScan(c) ==
    /\ Pc(c) = "check" /\ ~CacheHit(c) /\ inflight[Key(c)] = NoScanner
    /\ inflight' = [inflight EXCEPT ![Key(c)] = c]
    /\ Set(c, [call[c] EXCEPT !.pc = "collect", !.data = EmptyData, !.retries = 0])
    /\ UNCHANGED <<text, listed, revision, fileCache, scanCache, calls, faults>>

\* The flight is done: call[c].got is its result, call[c].full says complete.
\* A complete result that is still current is returned as it is.
Current(c) == call[c].full /\ call[c].got.revision = revision

WakeWithResult(c) ==
    /\ Pc(c) = "woken" /\ Current(c)
    /\ Reply(c)
    /\ UNCHANGED <<text, listed, revision, fileCache, scanCache, inflight,
                   calls, faults>>

\* It is stale or partial and the caller returns it all the same: its context
\* ended, or it has waited often enough.
WakeWithPartial(c) ==
    /\ Pc(c) = "woken" /\ ~Current(c)
    /\ call[c].done \/ call[c].retries + 1 >= WaitRetryLimit
    /\ Reply(c)
    /\ UNCHANGED <<text, listed, revision, fileCache, scanCache, inflight,
                   calls, faults>>

\* A healthy caller looks again, and may become the next owner.
WakeAndRetry(c) ==
    /\ Pc(c) = "woken" /\ ~Current(c)
    /\ ~call[c].done /\ call[c].retries + 1 < WaitRetryLimit
    /\ Set(c, [AtRest EXCEPT !.pc = "check", !.retries = call[c].retries + 1])
    /\ UNCHANGED <<text, listed, revision, fileCache, scanCache, inflight,
                   calls, faults>>

\* ctx.Done() wins the select: the caller leaves with a clone of whatever the
\* cache held, marked incomplete; the scan goes on.
CancelWait(c) ==
    /\ Pc(c) \in {"wait", "woken"} /\ call[c].done
    /\ Reply(c)
    /\ UNCHANGED <<text, listed, revision, fileCache, scanCache, inflight,
                   calls, faults>>

-----------------------------------------------------------------------------
(* scanTranscriptsWithOptions: collect, decide, parse, store.              *)

\* The index answers with the sizes it holds, after a stat of the caller's
\* priority files; an answer it calls incomplete makes the scan incomplete.
Collect(c) ==
    /\ Pc(c) = "collect"
    /\ \E stat \in SUBSET Transcripts, whole \in BOOLEAN :
         /\ ~whole => faults < MaxScanFaults
         /\ faults' = IF whole THEN faults ELSE faults + 1
         /\ Observe([f \in Transcripts |-> IF f \in stat THEN SizeOf(text[f]) ELSE listed[f]])
         /\ Set(c, [call[c] EXCEPT !.pc = "decide", !.sizes = listed',
                      !.data = [EmptyData EXCEPT !.revision = revision',
                                  !.why = IF whole /\ ~call[c].done THEN {} ELSE {"walk"}]])
    /\ UNCHANGED <<text, fileCache, scanCache, inflight, calls>>

\* canAppendParseTranscript: it grew, ended with a newline, and has a trace.
CanAppend(old, size) ==
    size > old.size /\ old.newline /\ ~old.failed /\ old.trace # NoTrace

Unchanged(c, f) == fileCache[f].size = call[c].sizes[f]

\* What the cache decides about a listed file: reuse its trace, or parse it.
\* The recorded failure of an unchanged file is disclosed, and marks the whole
\* scan incomplete, until its retry is due.
Reused(c) == {f \in Transcripts : call[c].sizes[f] >= 0 /\ Unchanged(c, f)
                                  /\ ~(fileCache[f].failed /\ fileCache[f].retry)}
FailedBefore(c) == {f \in Reused(c) : fileCache[f].failed}
ToParse(c) == {f \in Transcripts : call[c].sizes[f] >= 0} \ Reused(c)

ReuseOrParse(c, data) ==
    Set(c, [call[c] EXCEPT !.pc = "parse", !.data = data, !.todo = ToParse(c),
              !.from = [f \in Transcripts |->
                          IF f \in ToParse(c) /\ CanAppend(fileCache[f], call[c].sizes[f])
                          THEN fileCache[f] ELSE NoEntry]])

WithReused(c) == [call[c].data EXCEPT
                    !.traces = [f \in Transcripts |->
                                  IF f \in Reused(c) THEN fileCache[f].trace ELSE NoTrace],
                    !.failed = FailedBefore(c)]

DecideParses(c) ==
    /\ Pc(c) = "decide"
    /\ ReuseOrParse(c, [WithReused(c) EXCEPT
                          !.why = @ \cup IF FailedBefore(c) = {} THEN {} ELSE {"file"}])
    /\ UNCHANGED <<text, listed, revision, fileCache, scanCache, inflight,
                   calls, faults>>

\* One worker parses one file as it is now, from the cached size on or whole.
\* The entry it will leave has the size that was listed, not the size read.
Parsed(c, f, trace, failed) ==
    Set(c, [call[c] EXCEPT
              !.todo = @ \ {f},
              !.data.traces[f] = trace,
              !.data.failed = IF failed THEN @ \cup {f} ELSE @,
              !.updates[f] = [size |-> call[c].sizes[f],
                              newline |-> text[f].there /\ SizeOf(text[f]) >= call[c].sizes[f]
                                          /\ call[c].sizes[f] > 0 /\ call[c].sizes[f] % 2 = 0,
                              trace |-> trace, failed |-> failed, retry |-> FALSE]])

ParseFile(c, f) ==
    /\ Pc(c) = "parse" /\ f \in call[c].todo /\ ~call[c].done /\ text[f].there
    /\ Parsed(c, f, IF call[c].from[f] = NoEntry THEN WholeTrace(text[f])
                    ELSE AppendTrace(call[c].from[f].trace, call[c].from[f].size, text[f]),
              FALSE)
    /\ UNCHANGED <<text, listed, revision, fileCache, scanCache, inflight,
                   calls, faults>>

\* The file is gone, unreadable, or its parser panics: an append that panics
\* keeps the prefix it started from.
FailParse(c, f) ==
    /\ Pc(c) = "parse" /\ f \in call[c].todo /\ ~call[c].done
    /\ text[f].there => faults < MaxScanFaults
    /\ faults' = IF text[f].there THEN faults + 1 ELSE faults
    /\ \E trace \in {NoTrace, call[c].from[f].trace} : Parsed(c, f, trace, TRUE)
    /\ UNCHANGED <<text, listed, revision, fileCache, scanCache, inflight, calls>>

\* Files that are neither listed nor on disk leave the cache.
Pruned(c, entries) ==
    [f \in Transcripts |-> IF call[c].sizes[f] < 0 /\ ~text[f].there THEN NoEntry
                           ELSE entries[f]]

\* Every worker is done, or the context ended: store what was parsed, prune,
\* and compare the revision with the one the files were collected at.
EndScan(c) ==
    /\ Pc(c) = "parse" /\ (call[c].todo = {} \/ call[c].done)
    /\ LET entries == [f \in Transcripts |-> IF call[c].updates[f] = NoEntry
                                             THEN fileCache[f] ELSE call[c].updates[f]]
           why == (IF call[c].done THEN {"context"} ELSE {})
                  \cup (IF revision = call[c].data.revision THEN {} ELSE {"revision"})
       IN /\ fileCache' = IF call[c].done THEN entries ELSE Pruned(c, entries)
          /\ Set(c, [AtRest EXCEPT !.pc = "gate", !.done = call[c].done,
                       !.data = [call[c].data EXCEPT !.revision = revision,
                                                     !.why = @ \cup why]])
    /\ UNCHANGED <<text, listed, revision, scanCache, inflight, calls, faults>>

\* A panic anywhere in the scan becomes an incomplete result.
PanicScan(c) ==
    /\ Pc(c) \in {"collect", "decide", "parse"} /\ faults < MaxScanFaults
    /\ faults' = faults + 1
    /\ Set(c, [AtRest EXCEPT !.pc = "gate", !.done = call[c].done, !.data = Partial("panic")])
    /\ UNCHANGED <<text, listed, revision, fileCache, scanCache, inflight, calls>>

-----------------------------------------------------------------------------
(* Publication.                                                            *)

\* The last look at the revision before publication.  full: the context was
\* alive, the scan complete and the revision unmoved.
GateRevision(c) ==
    /\ Pc(c) = "gate"
    /\ LET full == ~call[c].done /\ IsComplete(call[c].data)
           moved == full /\ revision # call[c].data.revision
       IN Set(c, [call[c] EXCEPT !.pc = "publish", !.full = full /\ ~moved,
                    !.revision = call[c].data.revision,
                    !.data.why = IF moved THEN @ \cup {"revision"} ELSE @,
                    !.data.revision = IF moved THEN revision ELSE @])
    /\ UNCHANGED <<text, listed, revision, fileCache, scanCache, inflight,
                   calls, faults>>

\* Mutant: the cached scan is stamped with the revision of the moment.
PublishScanAtThisRevision(c) ==
    /\ Pc(c) = "publish"
    /\ inflight' = [inflight EXCEPT ![Key(c)] = NoScanner]
    /\ scanCache' = IF call[c].full
                THEN [data |-> call[c].data, key |-> Key(c), revision |-> revision, fresh |-> TRUE]
                ELSE scanCache
    /\ call' = [d \in ScanCallers |->
                  IF d = c THEN AtRest
                  ELSE IF Pc(d) = "wait" /\ Key(d) = Key(c)
                  THEN [call[d] EXCEPT !.pc = "woken", !.got = call[c].data,
                                       !.full = call[c].full]
                  ELSE call[d]]
    /\ UNCHANGED <<text, listed, revision, fileCache, calls, faults>>

\* Mutant: the flight's channel is not closed when the scan was incomplete.
PublishScanToItself(c) ==
    /\ Pc(c) = "publish"
    /\ inflight' = [inflight EXCEPT ![Key(c)] = NoScanner]
    /\ scanCache' = IF call[c].full
                THEN [data |-> call[c].data, key |-> Key(c),
                      revision |-> call[c].revision, fresh |-> TRUE]
                ELSE scanCache
    /\ call' = [d \in ScanCallers |->
                  IF d = c THEN AtRest
                  ELSE IF call[c].full /\ Pc(d) = "wait" /\ Key(d) = Key(c)
                  THEN [call[d] EXCEPT !.pc = "woken", !.got = call[c].data,
                                       !.full = call[c].full]
                  ELSE call[d]]
    /\ UNCHANGED <<text, listed, revision, fileCache, calls, faults>>

\* finish: hand the result to every waiter, cache it if it is complete, free
\* the key, and return it.
PublishScan(c) ==
    /\ Pc(c) = "publish"
    /\ inflight' = [inflight EXCEPT ![Key(c)] = NoScanner]
    /\ scanCache' = IF call[c].full
                THEN [data |-> call[c].data, key |-> Key(c),
                      revision |-> call[c].revision, fresh |-> TRUE]
                ELSE scanCache
    /\ call' = [d \in ScanCallers |->
                  IF d = c THEN AtRest
                  ELSE IF Pc(d) = "wait" /\ Key(d) = Key(c)
                  THEN [call[d] EXCEPT !.pc = "woken", !.got = call[c].data,
                                       !.full = call[c].full]
                  ELSE call[d]]
    /\ UNCHANGED <<text, listed, revision, fileCache, calls, faults>>

ExpireCache ==
    /\ scanCache.fresh
    /\ scanCache' = [scanCache EXCEPT !.fresh = FALSE]
    /\ UNCHANGED <<text, listed, revision, fileCache, inflight, call,
                   calls, faults>>

\* transcriptParseErrorRetryInterval has passed since a failure.
RetryFallsDue(f) ==
    /\ fileCache[f].failed /\ ~fileCache[f].retry
    /\ fileCache' = [fileCache EXCEPT ![f].retry = TRUE]
    /\ UNCHANGED <<text, listed, revision, scanCache, inflight, call, calls, faults>>

ProceedScan(c) ==
    \/ TakeHit(c) \/ ConfirmHit(c) \/ JoinScan(c) \/ ClaimScan(c)
    \/ WakeWithResult(c) \/ WakeWithPartial(c) \/ WakeAndRetry(c)
    \/ Collect(c) \/ DecideParses(c) \/ EndScan(c) \/ GateRevision(c) \/ PublishScan(c)
    \/ \E f \in Transcripts : ParseFile(c, f) \/ FailParse(c, f)

ScanNext ==
    \/ \E f \in Transcripts : AppendLine(f) \/ TearLine(f) \/ DeleteTranscript(f)
                              \/ IndexEvent(f) \/ RetryFallsDue(f)
    \/ \E c \in ScanCallers : CallScan(c) \/ CancelScanContext(c) \/ CancelWait(c)
                          \/ PanicScan(c) \/ ProceedScan(c)
    \/ ExpireCache

\* A snapshot() goroutine that called is never starved; its context may end.
ScanFairness == \A c \in ScanCallers : WF_scanVars(ProceedScan(c) \/ CancelWait(c))
ScanSpec == ScanInit /\ [][ScanNext]_scanVars /\ ScanFairness

-----------------------------------------------------------------------------
(* Properties.                                                             *)

Trace == [upto : 0..MaxLines, tokens : Nat]
Entry == [size : -1..(2 * MaxLines), newline : BOOLEAN, trace : Trace,
          failed : BOOLEAN, retry : BOOLEAN]
Data == [traces : [Transcripts -> Trace], failed : SUBSET Transcripts, revision : Nat,
         why : SUBSET {"walk", "file", "context", "revision", "panic", "waiter"}]

\* Every variable of the transcript scan has its type.
ScanType ==
    /\ text \in [Transcripts -> [there : BOOLEAN, lines : 0..MaxLines, torn : BOOLEAN]]
    /\ listed \in [Transcripts -> -1..(2 * MaxLines)]
    /\ revision \in Nat
    /\ fileCache \in [Transcripts -> Entry]
    /\ scanCache \in [data : Data, key : Keys \cup {NoScanner}, revision : Nat, fresh : BOOLEAN]
    /\ inflight \in [Keys -> ScanCallers \cup {NoScanner}]
    /\ \A c \in ScanCallers : call[c].data \in Data /\ call[c].got \in Data

\* What a complete result that is current owes its readers: for every file the
\* index holds, a trace of all the lines the index has seen, or the disclosure
\* that the file failed to parse.
Covers(data) ==
    IsComplete(data) =>
        \A f \in Transcripts :
            listed[f] < 0 \/ f \in data.failed \/ data.traces[f].upto >= listed[f] \div 2

\* No interleaving of scans, index events, cancellations, failures and reuse
\* of parsed files lets a stale parse pass for current: a cached scan, one
\* about to be published and one handed to a waiter cover the index whenever
\* they carry its present revision.
CurrentScanCoversIndex ==
    /\ scanCache.revision = revision => Covers(scanCache.data)
    /\ \A c \in ScanCallers :
         /\ Pc(c) = "publish" /\ call[c].full /\ call[c].revision = revision => Covers(call[c].data)
         /\ Pc(c) = "woken" /\ Current(c) => Covers(call[c].got)

\* A key in flight belongs to the one caller that scans for it, and every
\* waiter of a key waits for a scan in flight: a panicking, cancelled or
\* outdated scan neither strands the key nor starts a second scan.
OneScanPerKey ==
    \A c \in ScanCallers :
        /\ Pc(c) \in {"collect", "decide", "parse", "gate", "publish"}
             <=> inflight[Key(c)] = c
        /\ Pc(c) = "wait" => inflight[Key(c)] # NoScanner

\* Callers share scans without sharing stale ones.
SharedScanIsSound == ScanType /\ CurrentScanCoversIndex /\ OneScanPerKey

\* Every call of transcriptData returns, however often the evidence changes: a
\* caller makes finitely many calls, so all are idle again and again.
EveryScanCallReturns == []<>(\A c \in ScanCallers : Pc(c) = "idle")

\* transcripts.go:428-429: "One file failing to parse is degraded evidence for
\* that file, not a gap in the scan's coverage": no scan is incomplete for that
\* reason alone.
ParseErrorStaysLocal ==
    \A c \in ScanCallers : Pc(c) \in {"gate", "publish"} => call[c].data.why # {"file"}
=============================================================================
