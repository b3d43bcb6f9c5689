-------------------------- MODULE SnapshotDelivery --------------------------
(***************************************************************************)
(* Refresh slots and snapshot delivery (tray.go, server.go).  Requests for *)
(* a refresh name a time slot; one loop claims slots and builds snapshots; *)
(* /api/snapshot handlers serve the last complete snapshot through a cache *)
(* of encoded payloads, or build one themselves while there is none.       *)
(*                                                                         *)
(* A snapshot is what delivery tells apart: its slot, whether its evidence *)
(* was complete, and who built it.  A payload, plain or compressed, is the *)
(* snapshot it encodes.  A slot is its interval and its start.             *)
(***************************************************************************)
EXTENDS Integers, FiniteSets

CONSTANTS
  Clients,        \* one /api/snapshot request at a time each
  GzipClients,    \* the clients that accept gzip
  Requesters,     \* callers of requestRefreshForInterval besides the loop
  Intervals,      \* refresh intervals clients choose from
  Configured,     \* cfg.RefreshInterval
  Loop,           \* the refresh loop
  MaxTime,        \* bound on the clock
  NoSlot

ASSUME ConstantsAssumption ==
  /\ Intervals \subseteq Nat \ {0}
  /\ Configured \in Nat \ {0}
  /\ GzipClients \subseteq Clients
  /\ MaxTime \in Nat
  /\ Loop \notin Clients \cup Requesters
  /\ NoSlot \notin [every : Intervals \cup {Configured}, start : Nat]

VARIABLES
  time,
  closing,
  pendingSlot, activeSlot, lastSlot,
  refreshing,
  refreshCh,        \* a token is in the channel, whose capacity is one
  loop,             \* where the refresh loop is
  lastSnapshot,
  cacheSlot, cacheJSON, cacheGZIP,
  request, wanted,  \* where each refresh request is, and the slot it computed
  handler,          \* where each /api/snapshot handler is
  snap, payload,    \* its snapshot and its encoded body
  held,             \* what its client received last
  scanned           \* slots the loop has built snapshots for

slots    == <<pendingSlot, activeSlot, lastSlot, refreshing, loop, scanned>>
cache    == <<cacheSlot, cacheJSON, cacheGZIP>>
requests == <<request, wanted>>
handlers == <<handler, snap, payload, held>>
vars     == <<time, closing, slots, refreshCh, lastSnapshot, cache, requests, handlers>>

SlotFor(interval) == [every |-> interval, start |-> time - (time % interval)]
NoSnapshot        == [slot |-> NoSlot, complete |-> FALSE, by |-> Loop]
Built(slot, complete, builder) == [slot |-> slot, complete |-> complete, by |-> builder]

(* The loop's first act is to request the current slot.                    *)
Init ==
  /\ time = 0
  /\ closing = FALSE
  /\ pendingSlot = NoSlot
  /\ activeSlot = NoSlot
  /\ lastSlot = NoSlot
  /\ refreshing = FALSE
  /\ refreshCh = FALSE
  /\ loop = "wait"
  /\ lastSnapshot = NoSnapshot
  /\ cacheSlot = NoSlot
  /\ cacheJSON = NoSnapshot
  /\ cacheGZIP = NoSnapshot
  /\ request = [r \in Requesters \cup {Loop} |-> IF r = Loop THEN "publish" ELSE "idle"]
  /\ wanted = [r \in Requesters \cup {Loop} |->
                 IF r = Loop THEN SlotFor(Configured) ELSE NoSlot]
  /\ handler = [h \in Clients |-> "idle"]
  /\ snap = [h \in Clients |-> NoSnapshot]
  /\ payload = [h \in Clients |-> NoSnapshot]
  /\ held = [h \in Clients |-> NoSnapshot]
  /\ scanned = {}

Tick ==
  /\ time < MaxTime
  /\ time' = time + 1
  /\ UNCHANGED <<closing, slots, refreshCh, lastSnapshot, cache, requests, handlers>>

(* markClosing, as shutdown begins.                                        *)
Close ==
  /\ ~closing
  /\ closing' = TRUE
  /\ pendingSlot' = NoSlot
  /\ UNCHANGED <<time, activeSlot, lastSlot, refreshing, loop, scanned, refreshCh,
                 lastSnapshot, cache, requests, handlers>>

(***************************************************************************)
(* requestRefreshForSlot: compute the slot, publish it under the lock,     *)
(* then wake the loop.                                                     *)
(***************************************************************************)
ComputeSlot(r, interval) ==
  /\ request[r] = "idle"
  /\ r = Loop => loop = "wait" /\ interval = Configured
  /\ request' = [request EXCEPT ![r] = "publish"]
  /\ wanted' = [wanted EXCEPT ![r] = SlotFor(interval)]
  /\ UNCHANGED <<time, closing, slots, refreshCh, lastSnapshot, cache, handlers>>

PublishSlot(r) ==
  /\ request[r] = "publish"
  /\ wanted' = [wanted EXCEPT ![r] = NoSlot]
  /\ IF closing \/ wanted[r] \in {lastSlot, activeSlot, pendingSlot}
     THEN request' = [request EXCEPT ![r] = "idle"] /\ UNCHANGED pendingSlot
     ELSE request' = [request EXCEPT ![r] = "wake"] /\ pendingSlot' = wanted[r]
  /\ UNCHANGED <<time, closing, activeSlot, lastSlot, refreshing, refreshCh, loop, scanned,
                 lastSnapshot, cache, handlers>>

(* Mutant: the channel has no buffer, so a busy loop misses the wake-up.   *)
WakeLoopUnbuffered(r) ==
  /\ request[r] = "wake"
  /\ request' = [request EXCEPT ![r] = "idle"]
  /\ refreshCh' = (refreshCh \/ (loop = "wait" /\ r # Loop))
  /\ UNCHANGED <<time, closing, slots, lastSnapshot, cache, wanted, handlers>>

WakeLoop(r) ==
  /\ request[r] = "wake"
  /\ request' = [request EXCEPT ![r] = "idle"]
  /\ refreshCh' = TRUE
  /\ UNCHANGED <<time, closing, slots, lastSnapshot, cache, wanted, handlers>>

(***************************************************************************)
(* refreshLoop and runRefreshStep.                                         *)
(***************************************************************************)
Receive ==
  /\ loop = "wait"
  /\ request[Loop] = "idle"
  /\ refreshCh
  /\ refreshCh' = FALSE
  /\ loop' = "claim"
  /\ UNCHANGED <<time, closing, pendingSlot, activeSlot, lastSlot, refreshing, scanned,
                 lastSnapshot, cache, requests, handlers>>

StopLoop ==
  /\ loop = "wait"
  /\ request[Loop] = "idle"
  /\ closing
  /\ loop' = "stopped"
  /\ UNCHANGED <<time, closing, pendingSlot, activeSlot, lastSlot, refreshing, refreshCh,
                 scanned, lastSnapshot, cache, requests, handlers>>

Claim(slot) ==
  LET claimed == ~closing /\ slot \notin {lastSlot, activeSlot}
  IN /\ loop = "claim"
     /\ pendingSlot' = NoSlot
     /\ activeSlot' = IF claimed THEN slot ELSE activeSlot
     /\ scanned' = IF claimed THEN scanned \cup {slot} ELSE scanned
     /\ loop' = IF claimed THEN "claimed" ELSE "wait"
     /\ UNCHANGED <<time, closing, lastSlot, refreshing, refreshCh, lastSnapshot, cache,
                    requests, handlers>>

(* Mutant: the loop always scans for the moment.                           *)
ClaimSlotOfTheMoment == Claim(SlotFor(Configured))

(* A token without a pending slot stands for the slot of the moment.       *)
ClaimSlot == Claim(IF pendingSlot = NoSlot THEN SlotFor(Configured) ELSE pendingSlot)

BeginBuild ==
  /\ loop = "claimed"
  /\ refreshing' = TRUE
  /\ loop' = "build"
  /\ UNCHANGED <<time, closing, pendingSlot, activeSlot, lastSlot, refreshCh, scanned,
                 lastSnapshot, cache, requests, handlers>>

(* refreshOnce has complete evidence; otherwise, and while the app closes, *)
(* nothing is remembered.                                                  *)
FinishBuild ==
  /\ loop = "build"
  /\ ~closing
  /\ loop' = "remember"
  /\ UNCHANGED <<time, closing, pendingSlot, activeSlot, lastSlot, refreshing, refreshCh,
                 scanned, lastSnapshot, cache, requests, handlers>>

(* rememberSnapshot, once the history line has been appended.              *)
RememberBuild ==
  /\ loop = "remember"
  /\ lastSnapshot' = Built(activeSlot, TRUE, Loop)
  /\ loop' = "apply"
  /\ UNCHANGED <<time, closing, pendingSlot, activeSlot, lastSlot, refreshing, refreshCh,
                 scanned, cache, requests, handlers>>

(* Mutant: the guards are released only on the way out of a good refresh.  *)
ReleaseSlotIfApplied ==
  /\ loop \in {"build", "remember", "apply"}
  /\ loop' = "release"
  /\ lastSlot' = IF loop = "apply" THEN activeSlot ELSE lastSlot
  /\ activeSlot' = IF loop = "apply" THEN NoSlot ELSE activeSlot
  /\ UNCHANGED <<time, closing, pendingSlot, refreshing, refreshCh, scanned, lastSnapshot,
                 cache, requests, handlers>>

(* The deferred finishRefreshSlot: at the end, or at once if the build was *)
(* aborted or panicked anywhere.                                           *)
ReleaseSlot ==
  /\ loop \in {"build", "remember", "apply"}
  /\ loop' = "release"
  /\ lastSlot' = activeSlot
  /\ activeSlot' = NoSlot
  /\ UNCHANGED <<time, closing, pendingSlot, refreshing, refreshCh, scanned, lastSnapshot,
                 cache, requests, handlers>>

(* The deferred setRefreshing(false).                                      *)
EndRefresh ==
  /\ loop = "release"
  /\ loop' = "wait"
  /\ refreshing' = FALSE
  /\ UNCHANGED <<time, closing, pendingSlot, activeSlot, lastSlot, refreshCh, scanned,
                 lastSnapshot, cache, requests, handlers>>

(***************************************************************************)
(* handleSnapshotAPI.                                                      *)
(***************************************************************************)
Step(h, label) == handler' = [handler EXCEPT ![h] = label]

Poll(h) ==
  /\ handler[h] = "idle"
  /\ IF lastSnapshot = NoSnapshot
     THEN Step(h, "build") /\ UNCHANGED snap
     ELSE Step(h, "validate") /\ snap' = [snap EXCEPT ![h] = lastSnapshot]
  /\ UNCHANGED <<time, closing, slots, refreshCh, lastSnapshot, cache, requests, payload, held>>

(* A build on demand is labelled with the slot of the moment it ends.      *)
BuildOnDemand(h, complete) ==
  /\ handler[h] = "build"
  /\ snap' = [snap EXCEPT ![h] = Built(SlotFor(Configured), complete, h)]
  /\ Step(h, IF complete THEN "remember" ELSE "validate")
  /\ UNCHANGED <<time, closing, slots, refreshCh, lastSnapshot, cache, requests, payload, held>>

RememberOnDemand(h) ==
  /\ handler[h] = "remember"
  /\ lastSnapshot' = snap[h]
  /\ Step(h, "validate")
  /\ UNCHANGED <<time, closing, slots, refreshCh, cache, requests, snap, payload, held>>

Respond(h, body) ==
  /\ Step(h, "idle")
  /\ held' = [held EXCEPT ![h] = body]
  /\ snap' = [snap EXCEPT ![h] = NoSnapshot]
  /\ payload' = [payload EXCEPT ![h] = NoSnapshot]

(* If-None-Match names the slot of what the client holds.                  *)
Validate(h) ==
  /\ handler[h] = "validate"
  /\ IF held[h].slot = snap[h].slot
     THEN Respond(h, held[h])
     ELSE Step(h, "json") /\ UNCHANGED <<held, snap, payload>>
  /\ UNCHANGED <<time, closing, slots, refreshCh, lastSnapshot, cache, requests>>

(* clientSnapshotJSON is called first, and again on a gzip miss.           *)
LookupJSON(h) ==
  /\ handler[h] \in {"json", "json for gzip"}
  /\ IF cacheSlot = snap[h].slot /\ cacheJSON # NoSnapshot
     THEN /\ payload' = [payload EXCEPT ![h] = cacheJSON]
          /\ Step(h, IF handler[h] = "json" THEN "encoded" ELSE "compress")
     ELSE /\ UNCHANGED payload
          /\ Step(h, IF handler[h] = "json" THEN "encode" ELSE "encode for gzip")
  /\ UNCHANGED <<time, closing, slots, refreshCh, lastSnapshot, cache, requests, snap, held>>

(* Mutant: a new slot's JSON leaves the last slot's gzip body in the cache.*)
StoreJSONKeepingGZIP(h) ==
  /\ handler[h] \in {"encode", "encode for gzip"}
  /\ cacheSlot' = snap[h].slot
  /\ cacheJSON' = snap[h]
  /\ payload' = [payload EXCEPT ![h] = snap[h]]
  /\ Step(h, IF handler[h] = "encode" THEN "encoded" ELSE "compress")
  /\ UNCHANGED <<time, closing, slots, refreshCh, lastSnapshot, cacheGZIP, requests, snap, held>>

StoreJSON(h) ==
  /\ handler[h] \in {"encode", "encode for gzip"}
  /\ cacheSlot' = snap[h].slot
  /\ cacheJSON' = snap[h]
  /\ cacheGZIP' = NoSnapshot
  /\ payload' = [payload EXCEPT ![h] = snap[h]]
  /\ Step(h, IF handler[h] = "encode" THEN "encoded" ELSE "compress")
  /\ UNCHANGED <<time, closing, slots, refreshCh, lastSnapshot, requests, snap, held>>

SendPlain(h) ==
  /\ handler[h] = "encoded"
  /\ h \notin GzipClients
  /\ Respond(h, payload[h])
  /\ UNCHANGED <<time, closing, slots, refreshCh, lastSnapshot, cache, requests>>

LookupGZIP(h) ==
  /\ handler[h] = "encoded"
  /\ h \in GzipClients
  /\ IF cacheSlot = snap[h].slot /\ cacheGZIP # NoSnapshot
     THEN Respond(h, cacheGZIP)
     ELSE Step(h, "json for gzip") /\ UNCHANGED <<held, snap, payload>>
  /\ UNCHANGED <<time, closing, slots, refreshCh, lastSnapshot, cache, requests>>

(* The compressed body is stored only if its slot still owns the cache.    *)
StoreGZIP(h) ==
  /\ handler[h] = "compress"
  /\ cacheGZIP' = IF cacheSlot = snap[h].slot THEN payload[h] ELSE cacheGZIP
  /\ Respond(h, payload[h])
  /\ UNCHANGED <<time, closing, slots, refreshCh, lastSnapshot, cacheSlot, cacheJSON, requests>>

(* net/http contains a handler's panic; the client gets nothing.           *)
AbortHandler(h) ==
  /\ handler[h] \in {"build", "remember"}
  /\ Respond(h, held[h])
  /\ UNCHANGED <<time, closing, slots, refreshCh, lastSnapshot, cache, requests>>

(***************************************************************************)
(* The specification.                                                      *)
(***************************************************************************)
Request(r) == PublishSlot(r) \/ WakeLoop(r)

Refresh ==
  ClaimSlot \/ BeginBuild \/ FinishBuild \/ RememberBuild \/ ReleaseSlot \/ EndRefresh

Serve(h) ==
  \/ Poll(h) \/ (\E complete \in BOOLEAN : BuildOnDemand(h, complete))
  \/ RememberOnDemand(h) \/ Validate(h) \/ LookupJSON(h) \/ StoreJSON(h)
  \/ SendPlain(h) \/ LookupGZIP(h) \/ StoreGZIP(h) \/ AbortHandler(h)

Next ==
  \/ Tick \/ Close
  \/ \E r \in Requesters \cup {Loop}, i \in Intervals : ComputeSlot(r, i)
  \/ \E r \in Requesters \cup {Loop} : Request(r)
  \/ Receive \/ StopLoop \/ Refresh
  \/ \E h \in Clients : Serve(h)

Spec == Init /\ [][Next]_vars

(* Builds end: they run under a context timeout and contain their panics.  *)
(* Go's select picks evenly among ready cases, so a token is received even *)
(* if the ticker fires again and again.                                    *)
Fairness ==
  /\ \A r \in Requesters \cup {Loop} : WF_vars(Request(r))
  /\ SF_vars(Receive)
  /\ WF_vars(Refresh)

FairSpec == Spec /\ Fairness

(***************************************************************************)
(* Properties.                                                             *)
(***************************************************************************)
SlotType     == [every : Intervals \cup {Configured}, start : Nat]
SnapshotType == [slot : SlotType \cup {NoSlot}, complete : BOOLEAN, by : Clients \cup {Loop}]

HandlerLabels == {"idle", "build", "remember", "validate", "json", "encode", "encoded",
                  "json for gzip", "encode for gzip", "compress"}

(* Every variable keeps its type.                                          *)
TypeOK ==
  /\ time \in Nat /\ closing \in BOOLEAN /\ refreshing \in BOOLEAN /\ refreshCh \in BOOLEAN
  /\ {pendingSlot, activeSlot, lastSlot, cacheSlot} \subseteq SlotType \cup {NoSlot}
  /\ loop \in {"wait", "claim", "claimed", "build", "remember", "apply", "release", "stopped"}
  /\ {lastSnapshot, cacheJSON, cacheGZIP} \subseteq SnapshotType
  /\ request \in [Requesters \cup {Loop} -> {"idle", "publish", "wake"}]
  /\ wanted \in [Requesters \cup {Loop} -> SlotType \cup {NoSlot}]
  /\ handler \in [Clients -> HandlerLabels]
  /\ snap \in [Clients -> SnapshotType]
  /\ payload \in [Clients -> SnapshotType]
  /\ held \in [Clients -> SnapshotType]
  /\ scanned \subseteq SlotType

(* A published request is never forgotten: a token is in the channel, or   *)
(* somebody is about to send one, or the loop is about to look.            *)
NoLostWakeup ==
  pendingSlot # NoSlot =>
    \/ refreshCh
    \/ loop \in {"claim", "stopped"}
    \/ \E r \in Requesters \cup {Loop} : request[r] = "wake"

(* The guards that reject other slots belong to a refresh in progress,     *)
(* whatever became of the refreshes before it (tray.go:578-582).           *)
GuardsHeldByBuild ==
  /\ activeSlot # NoSlot <=> loop \in {"claimed", "build", "remember", "apply"}
  /\ refreshing <=> loop \in {"build", "remember", "apply", "release"}

(* Every body in the cache encodes a snapshot of the slot the cache is     *)
(* labelled with, however lookups, encodes and stores interleave.          *)
CacheBodiesMatchSlot ==
  /\ cacheJSON # NoSnapshot => cacheJSON.slot = cacheSlot
  /\ cacheGZIP # NoSnapshot => cacheGZIP.slot = cacheSlot

(* Only complete evidence becomes the snapshot everybody is served         *)
(* (tray.go:771).                                                          *)
RememberedIsComplete == lastSnapshot # NoSnapshot => lastSnapshot.complete

(* What is served is of the slot its label names and was complete when it  *)
(* was kept.                                                               *)
DeliveryIsConsistent == TypeOK /\ CacheBodiesMatchSlot /\ RememberedIsComplete

(* A slot that a request published is scanned, unless a later request or   *)
(* shutdown takes its place; in particular it is never already done.       *)
PublishedIsScanned ==
  \A slot \in [every : Intervals, start : 0..MaxTime] :
    pendingSlot = slot ~> \/ activeSlot = slot
                         \/ pendingSlot \notin {slot, NoSlot}
                         \/ closing

(* server.go:599: an incomplete on-demand result goes to its caller only.  *)
PartialStaysPrivate ==
  \A h \in Clients : held[h] # NoSnapshot /\ ~held[h].complete => held[h].by = h
=============================================================================
