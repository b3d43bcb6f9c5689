----------------------------- MODULE AppProofs -----------------------------
(***************************************************************************)
(* Proofs about the app's process, in two parts: SnapshotDelivery for      *)
(* every set of clients, requesters and intervals, and AppLifecycle for    *)
(* every set of callers of onExit and every number of sampler deaths.      *)
(*   DeliveryTypes       TypeOK is an invariant.                           *)
(*   WakeupIsKept        NoLostWakeup is an invariant.                     *)
(*   GuardsAreReleased   GuardsHeldByBuild is an invariant.                *)
(*   DeliveryConsistent  DeliveryIsConsistent is an invariant.             *)
(*   OneLoopOnly         OneSamplerLoop is an invariant.                   *)
(*   TeardownHolds       TeardownIsOrdered is an invariant.                *)
(***************************************************************************)
EXTENDS SnapshotDelivery, AppLifecycle, FiniteSetTheorems, TLAPS

(***************************************************************************)
(* Types.                                                                  *)
(***************************************************************************)

(* A slot starts at or before the moment it is computed, and not before    *)
(* the clock's zero.                                                       *)
LEMMA SlotStart ==
  ASSUME NEW t \in Nat, NEW every \in Nat \ {0}
  PROVE  t - (t % every) \in Nat
  OBVIOUS

(* SlotFor yields a slot, so a computed slot is never the missing one.     *)
LEMMA SlotForType ==
  ASSUME time \in Nat, NEW interval \in Intervals \cup {Configured}
  PROVE  SlotFor(interval) \in SlotType /\ SlotFor(interval) # NoSlot
<1>1. time - (time % interval) \in Nat
  BY SlotStart, ConstantsAssumption DEF ConstantsAssumption
<1>2. SlotFor(interval) \in SlotType
  BY <1>1 DEF SlotFor, SlotType
<1>3. QED
  BY <1>2, ConstantsAssumption DEF ConstantsAssumption, SlotType

(* The program starts well typed, the startup slot requested.              *)
LEMMA InitTypes == Init => TypeOK
<1> SUFFICES ASSUME Init PROVE TypeOK
  OBVIOUS
<1>1. time \in Nat /\ SlotFor(Configured) \in SlotType
  BY SlotForType DEF Init
<1>2. NoSnapshot \in SnapshotType
  BY DEF NoSnapshot, SnapshotType
<1>3. QED
  BY <1>1, <1>2 DEF Init, TypeOK, HandlerLabels

(* What a built snapshot is.                                               *)
LEMMA BuiltType ==
  ASSUME NEW slot \in SlotType \cup {NoSlot}, NEW complete \in BOOLEAN,
         NEW builder \in Clients \cup {Loop}
  PROVE  /\ Built(slot, complete, builder) \in SnapshotType
         /\ Built(slot, complete, builder).slot = slot
         /\ Built(slot, complete, builder).complete = complete
  BY DEF Built, SnapshotType

(* The handler's last step keeps its four variables typed.                 *)
LEMMA RespondType ==
  ASSUME TypeOK, NEW h \in Clients, NEW body \in SnapshotType, Respond(h, body)
  PROVE  /\ handler' \in [Clients -> HandlerLabels]
         /\ snap' \in [Clients -> SnapshotType]
         /\ payload' \in [Clients -> SnapshotType]
         /\ held' \in [Clients -> SnapshotType]
<1>1. NoSnapshot \in SnapshotType
  BY DEF NoSnapshot, SnapshotType
<1>2. QED
  BY <1>1 DEF Respond, Step, TypeOK, HandlerLabels

(* Every step of a handler keeps every type.                               *)
LEMMA ServeTypes ==
  ASSUME TypeOK, NEW h \in Clients, Serve(h)
  PROVE  TypeOK'
<1> USE DEF Step, slots, cache, requests
<1>0. SlotFor(Configured) \in SlotType /\ NoSnapshot \in SnapshotType
  BY SlotForType DEF TypeOK, NoSnapshot, SnapshotType
<1>a. snap[h] \in SnapshotType /\ payload[h] \in SnapshotType /\ held[h] \in SnapshotType
  BY DEF TypeOK
<1>b. snap[h].slot \in SlotType \cup {NoSlot}
  BY <1>a DEF SnapshotType
<1>1. CASE Poll(h)
  BY <1>1 DEF Poll, TypeOK, HandlerLabels
<1>2. ASSUME NEW complete \in BOOLEAN, BuildOnDemand(h, complete) PROVE TypeOK'
  <2>1. Built(SlotFor(Configured), complete, h) \in SnapshotType
    BY <1>0, BuiltType
  <2>2. QED
    BY <1>2, <2>1 DEF BuildOnDemand, TypeOK, HandlerLabels
<1>3. CASE RememberOnDemand(h)
  BY <1>a, <1>3 DEF RememberOnDemand, TypeOK, HandlerLabels
<1>4. CASE Validate(h)
  <2>1. CASE held[h].slot = snap[h].slot
    BY <1>a, <1>4, <2>1, RespondType DEF Validate, TypeOK
  <2>2. CASE held[h].slot # snap[h].slot
    BY <1>4, <2>2 DEF Validate, TypeOK, HandlerLabels
  <2>3. QED
    BY <2>1, <2>2
<1>5. CASE LookupJSON(h)
  BY <1>5 DEF LookupJSON, TypeOK, HandlerLabels
<1>6. CASE StoreJSON(h)
  BY <1>0, <1>a, <1>b, <1>6 DEF StoreJSON, TypeOK, HandlerLabels
<1>7. CASE SendPlain(h)
  BY <1>a, <1>7, RespondType DEF SendPlain, TypeOK
<1>8. CASE LookupGZIP(h)
  <2>1. CASE cacheSlot = snap[h].slot /\ cacheGZIP # NoSnapshot
    BY <1>8, <2>1, RespondType DEF LookupGZIP, TypeOK
  <2>2. CASE ~(cacheSlot = snap[h].slot /\ cacheGZIP # NoSnapshot)
    BY <1>8, <2>2 DEF LookupGZIP, TypeOK, HandlerLabels
  <2>3. QED
    BY <2>1, <2>2
<1>9. CASE StoreGZIP(h)
  BY <1>a, <1>9, RespondType DEF StoreGZIP, TypeOK
<1>10. CASE AbortHandler(h)
  BY <1>a, <1>10, RespondType DEF AbortHandler, TypeOK
<1>11. QED
  BY <1>1, <1>2, <1>3, <1>4, <1>5, <1>6, <1>7, <1>8, <1>9, <1>10 DEF Serve

(* Every step keeps every type.                                            *)
LEMMA NextTypes == TypeOK /\ [Next]_vars => TypeOK'
<1> SUFFICES ASSUME TypeOK, [Next]_vars PROVE TypeOK'
  OBVIOUS
<1> USE DEF slots, cache, requests, handlers
<1>0. /\ SlotFor(Configured) \in SlotType
      /\ \A i \in Intervals : SlotFor(i) \in SlotType
  BY SlotForType DEF TypeOK
<1>1. CASE Tick
  BY <1>1 DEF Tick, TypeOK
<1>2. CASE Close
  BY <1>2 DEF Close, TypeOK
<1>3. ASSUME NEW r \in Requesters \cup {Loop}, NEW i \in Intervals, ComputeSlot(r, i)
      PROVE  TypeOK'
  BY <1>0, <1>3 DEF ComputeSlot, TypeOK
<1>4. ASSUME NEW r \in Requesters \cup {Loop}, PublishSlot(r) PROVE TypeOK'
  BY <1>4 DEF PublishSlot, TypeOK
<1>5. ASSUME NEW r \in Requesters \cup {Loop}, WakeLoop(r) PROVE TypeOK'
  BY <1>5 DEF WakeLoop, TypeOK
<1>6. CASE Receive
  BY <1>6 DEF Receive, TypeOK
<1>7. CASE StopLoop
  BY <1>7 DEF StopLoop, TypeOK
<1>8. CASE ClaimSlot
  <2>1. PICK slot \in SlotType : Claim(slot)
    BY <1>0, <1>8 DEF ClaimSlot, TypeOK
  <2>2. QED
    BY <2>1 DEF Claim, TypeOK
<1>9. CASE BeginBuild
  BY <1>9 DEF BeginBuild, TypeOK
<1>10. CASE FinishBuild
  BY <1>10 DEF FinishBuild, TypeOK
<1>11. CASE RememberBuild
  <2>1. Built(activeSlot, TRUE, Loop) \in SnapshotType
    BY BuiltType DEF TypeOK
  <2>2. QED
    BY <1>11, <2>1 DEF RememberBuild, TypeOK
<1>12. CASE ReleaseSlot
  BY <1>12 DEF ReleaseSlot, TypeOK
<1>13. CASE EndRefresh
  BY <1>13 DEF EndRefresh, TypeOK
<1>14. ASSUME NEW h \in Clients, Serve(h) PROVE TypeOK'
  BY <1>14, ServeTypes
<1>15. CASE UNCHANGED vars
  BY <1>15 DEF vars, TypeOK
<1>16. QED
  BY <1>1, <1>2, <1>3, <1>4, <1>5, <1>6, <1>7, <1>8, <1>9, <1>10, <1>11, <1>12, <1>13,
     <1>14, <1>15 DEF Next, Request, Refresh

(* TypeOK is an invariant.                                                 *)
THEOREM DeliveryTypes == Spec => []TypeOK
<1>1. QED
  BY InitTypes, NextTypes, PTL DEF Spec

(***************************************************************************)
(* The refresh loop's promises.  Each is inductive next to TypeOK.         *)
(***************************************************************************)

(* Whoever publishes a slot still owes the wake-up, and whoever takes the  *)
(* token still owes the look at the slot.                                  *)
LEMMA NextWakeup == TypeOK /\ NoLostWakeup /\ [Next]_vars => NoLostWakeup'
<1> SUFFICES ASSUME TypeOK, NoLostWakeup, [Next]_vars, pendingSlot' # NoSlot
             PROVE  \/ refreshCh'
                    \/ loop' \in {"claim", "stopped"}
                    \/ \E r \in Requesters \cup {Loop} : request'[r] = "wake"
  BY DEF NoLostWakeup
<1> USE DEF slots, cache, requests, handlers
<1>0. request \in [Requesters \cup {Loop} -> {"idle", "publish", "wake"}]
  BY DEF TypeOK
<1>a. ASSUME pendingSlot' = pendingSlot, request' = request,
             refreshCh => refreshCh' \/ loop' = "claim",
             loop \in {"claim", "stopped"} => loop' \in {"claim", "stopped"}
      PROVE  \/ refreshCh'
             \/ loop' \in {"claim", "stopped"}
             \/ \E r \in Requesters \cup {Loop} : request'[r] = "wake"
  BY <1>a DEF NoLostWakeup
<1>1. ASSUME NEW r \in Requesters \cup {Loop}, NEW i \in Intervals, ComputeSlot(r, i)
      PROVE  \/ refreshCh' \/ loop' \in {"claim", "stopped"}
             \/ \E q \in Requesters \cup {Loop} : request'[q] = "wake"
  BY <1>0, <1>1 DEF ComputeSlot, NoLostWakeup
<1>2. ASSUME NEW r \in Requesters \cup {Loop}, PublishSlot(r)
      PROVE  \/ refreshCh' \/ loop' \in {"claim", "stopped"}
             \/ \E q \in Requesters \cup {Loop} : request'[q] = "wake"
  BY <1>0, <1>2 DEF PublishSlot, NoLostWakeup
<1>3. ASSUME NEW r \in Requesters \cup {Loop}, WakeLoop(r) PROVE refreshCh'
  BY <1>3 DEF WakeLoop
<1>4. CASE Receive
  BY <1>4 DEF Receive
<1>5. CASE StopLoop
  BY <1>5 DEF StopLoop
<1>6. CASE Close \/ ClaimSlot
  BY <1>6 DEF Close, ClaimSlot, Claim
<1>7. CASE BeginBuild \/ FinishBuild \/ RememberBuild \/ ReleaseSlot \/ EndRefresh
  BY <1>a, <1>7 DEF BeginBuild, FinishBuild, RememberBuild, ReleaseSlot, EndRefresh
<1>8. ASSUME NEW h \in Clients, Serve(h)
      PROVE  UNCHANGED <<pendingSlot, request, refreshCh, loop>>
  BY <1>8 DEF Serve, Poll, BuildOnDemand, RememberOnDemand, Validate, LookupJSON, StoreJSON,
     SendPlain, LookupGZIP, StoreGZIP, AbortHandler
<1>9. CASE Tick \/ UNCHANGED vars
  BY <1>a, <1>9 DEF Tick, vars
<1>10. QED
  BY <1>a, <1>1, <1>2, <1>3, <1>4, <1>5, <1>6, <1>7, <1>8, <1>9 DEF Next, Request, Refresh

(* NoLostWakeup is an invariant: a published slot is never left behind     *)
(* without somebody who will look at it.                                   *)
THEOREM WakeupIsKept == Spec => []NoLostWakeup
<1>1. Init => NoLostWakeup
  BY DEF Init, NoLostWakeup
<1>2. QED
  BY <1>1, NextWakeup, DeliveryTypes, PTL DEF Spec

(* The slot of a claim is never the missing one, and the only way out of a *)
(* build passes its release.                                               *)
LEMMA NextGuards == TypeOK /\ GuardsHeldByBuild /\ [Next]_vars => GuardsHeldByBuild'
<1> SUFFICES ASSUME TypeOK, GuardsHeldByBuild, [Next]_vars PROVE GuardsHeldByBuild'
  OBVIOUS
<1> USE DEF GuardsHeldByBuild, slots, cache, requests, handlers
<1>1. CASE ClaimSlot
  <2>1. PICK slot \in SlotType : Claim(slot) /\ slot # NoSlot
    BY <1>1, SlotForType DEF ClaimSlot, TypeOK
  <2>2. QED
    BY <2>1 DEF Claim
<1>2. CASE Receive \/ StopLoop
  BY <1>2 DEF Receive, StopLoop
<1>3. CASE BeginBuild
  BY <1>3 DEF BeginBuild
<1>4. CASE FinishBuild \/ RememberBuild
  BY <1>4 DEF FinishBuild, RememberBuild
<1>5. CASE ReleaseSlot
  BY <1>5 DEF ReleaseSlot
<1>6. CASE EndRefresh
  BY <1>6 DEF EndRefresh
<1>7. ASSUME NEW r \in Requesters \cup {Loop}, NEW i \in Intervals, ComputeSlot(r, i)
      PROVE  UNCHANGED <<activeSlot, refreshing, loop>>
  BY <1>7 DEF ComputeSlot
<1>8. ASSUME NEW r \in Requesters \cup {Loop}, Request(r)
      PROVE  UNCHANGED <<activeSlot, refreshing, loop>>
  BY <1>8 DEF Request, PublishSlot, WakeLoop
<1>9. ASSUME NEW h \in Clients, Serve(h) PROVE UNCHANGED <<activeSlot, refreshing, loop>>
  BY <1>9 DEF Serve, Poll, BuildOnDemand, RememberOnDemand, Validate, LookupJSON, StoreJSON,
     SendPlain, LookupGZIP, StoreGZIP, AbortHandler
<1>10. CASE Tick \/ Close \/ UNCHANGED vars
  BY <1>10 DEF Tick, Close, vars
<1>11. QED
  BY <1>1, <1>2, <1>3, <1>4, <1>5, <1>6, <1>7, <1>8, <1>9, <1>10 DEF Next, Refresh

(* GuardsHeldByBuild is an invariant: no abort, panic or shutdown leaves a *)
(* slot claimed or the app refreshing once its build is over.              *)
THEOREM GuardsAreReleased == Spec => []GuardsHeldByBuild
<1>1. Init => GuardsHeldByBuild
  BY DEF Init, GuardsHeldByBuild
<1>2. QED
  BY <1>1, NextGuards, DeliveryTypes, PTL DEF Spec

(***************************************************************************)
(* Delivery.  DeliveryIsConsistent is not inductive: a body is stored      *)
(* under the cache's label by a handler that computed it some steps ago,   *)
(* and a build is remembered after it was judged complete.  What the       *)
(* handlers carry between those steps is the missing part.                 *)
(***************************************************************************)

(* A handler about to store a compressed body has one of its own slot, and *)
(* one about to remember a build has a complete one.                       *)
HandlersCarry ==
  \A h \in Clients :
    /\ handler[h] = "compress" => payload[h].slot = snap[h].slot
    /\ handler[h] = "remember" => snap[h].complete

DeliveryInv == TypeOK /\ CacheBodiesMatchSlot /\ RememberedIsComplete /\ HandlersCarry

(* What a client is served never disturbs the caches.                      *)
LEMMA ServeDelivery ==
  ASSUME DeliveryInv, NEW h \in Clients, Serve(h)
  PROVE  DeliveryInv'
<1> USE DEF Step, Respond, slots, cache, requests, CacheBodiesMatchSlot, RememberedIsComplete,
            HandlersCarry
<1>0. TypeOK /\ TypeOK'
  BY ServeTypes DEF DeliveryInv
<1>a. /\ handler \in [Clients -> HandlerLabels] /\ snap \in [Clients -> SnapshotType]
      /\ payload \in [Clients -> SnapshotType]
  BY <1>0 DEF TypeOK
<1>1. CASE Poll(h)
  BY <1>0, <1>a, <1>1 DEF Poll, DeliveryInv
<1>2. ASSUME NEW complete \in BOOLEAN, BuildOnDemand(h, complete) PROVE DeliveryInv'
  <2>1. Built(SlotFor(Configured), complete, h).complete = complete
    BY DEF Built
  <2>2. QED
    BY <1>0, <1>a, <1>2, <2>1 DEF BuildOnDemand, DeliveryInv
<1>3. CASE RememberOnDemand(h)
  BY <1>0, <1>a, <1>3 DEF RememberOnDemand, DeliveryInv
<1>4. CASE Validate(h)
  BY <1>0, <1>a, <1>4 DEF Validate, DeliveryInv
<1>5. CASE LookupJSON(h)
  BY <1>0, <1>a, <1>5 DEF LookupJSON, DeliveryInv
<1>6. CASE StoreJSON(h)
  BY <1>0, <1>a, <1>6 DEF StoreJSON, DeliveryInv
<1>7. CASE SendPlain(h)
  BY <1>0, <1>a, <1>7 DEF SendPlain, DeliveryInv
<1>8. CASE LookupGZIP(h)
  BY <1>0, <1>a, <1>8 DEF LookupGZIP, DeliveryInv
<1>9. CASE StoreGZIP(h)
  BY <1>0, <1>a, <1>9 DEF StoreGZIP, DeliveryInv
<1>10. CASE AbortHandler(h)
  BY <1>0, <1>a, <1>10 DEF AbortHandler, DeliveryInv
<1>11. QED
  BY <1>1, <1>2, <1>3, <1>4, <1>5, <1>6, <1>7, <1>8, <1>9, <1>10 DEF Serve

(* The loop only ever remembers complete builds, and leaves the caches and *)
(* the handlers to themselves.                                             *)
LEMMA NextDelivery == DeliveryInv /\ [Next]_vars => DeliveryInv'
<1> SUFFICES ASSUME DeliveryInv, [Next]_vars PROVE DeliveryInv'
  OBVIOUS
<1> USE DEF slots, cache, requests, handlers
<1>0. TypeOK'
  BY NextTypes DEF DeliveryInv
<1>a. ASSUME UNCHANGED <<lastSnapshot, cache, handlers>> PROVE DeliveryInv'
  BY <1>0, <1>a DEF DeliveryInv, CacheBodiesMatchSlot, RememberedIsComplete, HandlersCarry
<1>1. CASE RememberBuild
  <2>1. lastSnapshot'.complete
    BY <1>1 DEF RememberBuild, Built
  <2>2. QED
    BY <1>0, <1>1, <2>1
    DEF RememberBuild, DeliveryInv, CacheBodiesMatchSlot, RememberedIsComplete, HandlersCarry
<1>2. ASSUME NEW h \in Clients, Serve(h) PROVE DeliveryInv'
  BY <1>2, ServeDelivery
<1>3. CASE Tick \/ Close \/ Receive \/ StopLoop
  BY <1>a, <1>3 DEF Tick, Close, Receive, StopLoop
<1>4. ASSUME NEW r \in Requesters \cup {Loop}, NEW i \in Intervals, ComputeSlot(r, i)
      PROVE  DeliveryInv'
  BY <1>a, <1>4 DEF ComputeSlot
<1>5. ASSUME NEW r \in Requesters \cup {Loop}, Request(r) PROVE DeliveryInv'
  BY <1>a, <1>5 DEF Request, PublishSlot, WakeLoop
<1>6. CASE ClaimSlot \/ BeginBuild \/ FinishBuild \/ ReleaseSlot \/ EndRefresh
  BY <1>a, <1>6 DEF ClaimSlot, Claim, BeginBuild, FinishBuild, ReleaseSlot, EndRefresh
<1>7. CASE UNCHANGED vars
  BY <1>a, <1>7 DEF vars
<1>8. QED
  BY <1>1, <1>2, <1>3, <1>4, <1>5, <1>6, <1>7 DEF Next, Refresh

(* DeliveryIsConsistent is an invariant: whatever the interleaving of      *)
(* handlers, no body is served under another slot's label, and nothing     *)
(* incomplete is ever remembered for everybody.                            *)
THEOREM DeliveryConsistent == Spec => []DeliveryIsConsistent
<1>1. Init => DeliveryInv
  BY InitTypes
  DEF Init, DeliveryInv, CacheBodiesMatchSlot, RememberedIsComplete, HandlersCarry
<1>2. DeliveryInv => DeliveryIsConsistent
  BY DEF DeliveryInv, DeliveryIsConsistent
<1>3. QED
  BY <1>1, <1>2, NextDelivery, PTL DEF Spec

-----------------------------------------------------------------------------
(***************************************************************************)
(* The sampler.  A start sees no goroutine of an earlier generation,       *)
(* because the only one that may still run is the one stopSampler joins,   *)
(* and the start waits for that.                                           *)
(***************************************************************************)

SamplerInv ==
  /\ generation \in Nat /\ joining \in Nat /\ sampling \in BOOLEAN
  /\ told \subseteq 1..generation
  /\ live \subseteq {generation}
  /\ sampling => generation > 0 /\ live = {generation} /\ generation \notin told
  /\ ~sampling /\ joining = 0 => live = {}
  /\ joining # 0 => joining = generation /\ ~sampling

(* A start adds the next generation to an empty set, or does nothing.      *)
LEMMA StartKeepsSampler ==
  ASSUME SamplerInv, StartSampler
  PROVE  SamplerInv'
<1>1. CASE sampling
  BY <1>1 DEF SamplerInv, StartSampler
<1>2. CASE ~sampling
  <2>1. live' = {generation'} /\ generation' = generation + 1
    BY <1>2 DEF SamplerInv, StartSampler
  <2>2. QED
    BY <1>2, <2>1 DEF SamplerInv, StartSampler
<1>3. QED
  BY <1>1, <1>2

(* Only a start, an end, a stop and a join concern the sampler.            *)
LEMMA NextSampler == SamplerInv /\ [LifeNext]_lifeVars => SamplerInv'
<1> SUFFICES ASSUME SamplerInv, [LifeNext]_lifeVars PROVE SamplerInv'
  OBVIOUS
<1> USE DEF samplerVars
<1>0. ASSUME UNCHANGED samplerVars PROVE SamplerInv'
  BY <1>0 DEF SamplerInv
<1>1. CASE Run
  BY <1>1, StartKeepsSampler DEF Run
<1>2. CASE RestartSampler
  BY <1>2, StartKeepsSampler DEF RestartSampler
<1>3. ASSUME NEW g \in live, NEW dies \in BOOLEAN, SamplerLeaves(g, dies) PROVE SamplerInv'
  BY <1>3 DEF SamplerLeaves, SamplerInv
<1>4. CASE StopSampler
  <2>1. CASE sampling
    <3>1. /\ sampling' = FALSE /\ told' = told \cup {generation} /\ joining' = generation
          /\ generation' = generation /\ live' = live
      BY <1>4, <2>1, Zenon DEF StopSampler
    <3>2. generation \in 1..generation
      BY <2>1 DEF SamplerInv
    <3>3. told' \subseteq 1..generation'
      BY <3>1, <3>2, Zenon DEF SamplerInv
    <3>4. generation # 0 /\ generation \in Nat /\ live \subseteq {generation}
      BY <2>1 DEF SamplerInv
    <3>5. QED
      BY <3>1, <3>3, <3>4, Zenon DEF SamplerInv
  <2>2. CASE ~sampling
    BY <1>0, <1>4, <2>2, Zenon DEF StopSampler
  <2>3. QED
    BY <2>1, <2>2
<1>5. CASE JoinSampler
  BY <1>5 DEF JoinSampler, SamplerInv
<1>6. CASE \/ \E popover \in BOOLEAN : OnReady(popover)
           \/ RegisterLoop \/ AskRefresh \/ ClaimRefresh \/ EndRefreshScan \/ FinishRefresh
           \/ \E l \in Loops : LoopStops(l)
           \/ MenuQuits \/ RecoveryEnds \/ ServeRequest \/ EndRequest
  BY <1>0, <1>6 DEF OnReady, RegisterLoop, AskRefresh, ClaimRefresh, EndRefreshScan,
     FinishRefresh, LoopStops, MenuQuits, RecoveryEnds, ServeRequest, EndRequest
<1>7. CASE \/ \E c \in Exits : CallExit(c) \/ ReturnFromExit(c)
           \/ DeadlinePasses
  BY <1>0, <1>7 DEF CallExit, ReturnFromExit, DeadlinePasses
<1>8. CASE \/ MarkClosing \/ CloseStopChannel \/ CancelShutdownContext
           \/ \E slot \in Waits : WaitForLoop(slot)
           \/ ShutdownServer \/ AwaitArchive \/ ReleaseOwners \/ RecordComplete
  BY <1>0, <1>8 DEF MarkClosing, CloseStopChannel, CancelShutdownContext, WaitForLoop,
     ShutdownServer, AwaitArchive, ReleaseOwners, RecordComplete
<1>9. CASE UNCHANGED lifeVars
  BY <1>0, <1>9 DEF lifeVars
<1>10. QED
  BY <1>1, <1>2, <1>3, <1>4, <1>5, <1>6, <1>7, <1>8, <1>9 DEF LifeNext, ShutdownStep

(* Before run, no sampler has been started.                                *)
LEMMA InitSampler == LifeInit => SamplerInv
<1> SUFFICES ASSUME LifeInit PROVE SamplerInv
  OBVIOUS
<1>1. sampling = FALSE /\ generation = 0 /\ live = {} /\ told = {} /\ joining = 0
  BY Zenon DEF LifeInit
<1>2. QED
  BY <1>1 DEF SamplerInv

(* SamplerInv is an invariant.                                             *)
LEMMA SamplerHolds == LifeSpec => []SamplerInv
<1>1. QED
  BY InitSampler, NextSampler, PTL DEF LifeSpec

(* OneSamplerLoop is an invariant: two sampler goroutines never share the  *)
(* process-wide baselines.                                                 *)
THEOREM OneLoopOnly == LifeSpec => []OneSamplerLoop
<1>1. SamplerInv => OneSamplerLoop
  <2> SUFFICES ASSUME SamplerInv PROVE Cardinality(live) <= 1
    BY DEF OneSamplerLoop
  <2>1. live = {} \/ live = {generation}
    BY DEF SamplerInv
  <2>2. QED
    <3>1. Cardinality({}) = 0 /\ Cardinality({generation}) = 1
      BY FS_EmptySet, FS_Singleton, Zenon
    <3>2. QED
      BY <2>1, <3>1
<1>2. QED
  BY <1>1, SamplerHolds, PTL

(***************************************************************************)
(* The teardown.  CompleteMeansQuiet is not inductive: a clean record is   *)
(* written long after the waits it rests on.  TeardownInv adds what each   *)
(* position of performShutdown has established by then, unless a wait      *)
(* failed, and why nothing behind it starts again.                         *)
(***************************************************************************)

RestOfTeardown == {"http", "sampler", "join", "archive", "release", "record", "done"}
PastHeartbeat  == RestOfTeardown
PastRefresh    == {"menu", "status", "heartbeat"} \cup RestOfTeardown
PastSampler    == {"archive", "release", "record", "done"}
PastArchive    == {"release", "record", "done"}
Positions      == {"none", "begin", "signal", "cancel", "refresh"} \cup PastRefresh

TeardownTypes ==
  /\ shut \in Positions
  /\ work \in {"idle", "scanning", "starting", "recording"}
  /\ readyAt \in Nat
  /\ loopState \in [Loops -> {"none", "running", "ended"}]
  /\ doneOf \in [{"refresh", "menu", "status", "heartbeat"} -> Loops \cup {NoLoop}]
  /\ recovery \in {"none", "running", "ended"}
  /\ completed \in {"no", "clean", "failed"}
  /\ leaving \in [Exits -> {"out", "waiting", "returned"}]

(* The teardown begins in a program that runs, and no refresh is asked for *)
(* or claimed once the app is marked closing.                              *)
NothingNew ==
  /\ shut # "none" => up
  /\ up => recovery # "none" /\ doneOf["heartbeat"] = "heartbeat"
  /\ shut \notin {"none", "begin"} => shutting /\ ~asked

(* A refresh in flight belongs to a loop that the shutdown can see.        *)
RefreshIsSeen ==
  /\ work # "idle" => loopState["refresh"] = "running"
  /\ loopState["refresh"] = "running" => doneOf["refresh"] = "refresh"

(* What each position has established.                                     *)
Established ==
  /\ ~failed =>
       /\ shut \in PastRefresh => work = "idle"
       /\ shut \in PastHeartbeat => loopState["heartbeat"] = "ended"
       /\ shut \in PastSampler => live = {} /\ sampling = FALSE
  /\ shut = "join" => joining # 0
  /\ shut \in PastArchive => recovery = "ended"
  /\ shut \in {"record", "done"} => owners = FALSE
  /\ completed # "no" <=> shut = "done"
  /\ completed = "clean" => ~failed
  /\ \A c \in Exits : leaving[c] = "returned" => shut = "done"

TeardownInv == SamplerInv /\ TeardownTypes /\ NothingNew /\ RefreshIsSeen /\ Established

(* The record comes last: the invariant implies the property.              *)
LEMMA InvImpliesQuiet == TeardownInv => CompleteMeansQuiet
  BY DEF TeardownInv, TeardownTypes, Established, CompleteMeansQuiet, PastRefresh, PastHeartbeat,
     PastSampler, PastArchive, RestOfTeardown

(* The order of the waits.                                                 *)
LEMMA WaitSequence ==
  /\ Waits = {"refresh", "menu", "status", "heartbeat"}
  /\ AfterWait("refresh") = "menu" /\ AfterWait("menu") = "status"
  /\ AfterWait("status") = "heartbeat" /\ AfterWait("heartbeat") = "http"
<1>1. DOMAIN WaitOrder = 1..4 /\ Len(WaitOrder) = 4
  BY DEF WaitOrder
<1>2. /\ WaitOrder[1] = "refresh" /\ WaitOrder[2] = "menu"
      /\ WaitOrder[3] = "status" /\ WaitOrder[4] = "heartbeat"
  BY DEF WaitOrder
<1>3. \A i \in 1..4 : i = 1 \/ i = 2 \/ i = 3 \/ i = 4
  OBVIOUS
<1>4. ASSUME NEW n \in 1..4
      PROVE  (CHOOSE i \in DOMAIN WaitOrder : WaitOrder[i] = WaitOrder[n]) = n
  <2>1. \A i \in 1..4 : WaitOrder[i] = WaitOrder[n] => i = n
    BY <1>2, <1>3
  <2>2. QED
    BY <1>1, <2>1
<1>5. ASSUME NEW n \in 1..4
      PROVE  AfterWait(WaitOrder[n]) = IF n = 4 THEN "http" ELSE WaitOrder[n + 1]
  <2>1. (CHOOSE i \in DOMAIN WaitOrder : WaitOrder[i] = WaitOrder[n]) = n
    BY <1>4
  <2>2. QED
    BY <1>1, <2>1, Zenon DEF AfterWait
<1>6. Waits = {"refresh", "menu", "status", "heartbeat"}
  BY <1>1, <1>2, <1>3 DEF Waits
<1>7. /\ AfterWait(WaitOrder[1]) = WaitOrder[2] /\ AfterWait(WaitOrder[2]) = WaitOrder[3]
      /\ AfterWait(WaitOrder[3]) = WaitOrder[4] /\ AfterWait(WaitOrder[4]) = "http"
  BY <1>5
<1>8. QED
  BY <1>2, <1>6, <1>7

(* The native loops that RegisterLoop starts: neither is the heartbeat.    *)
LEMMA RegisterLoopStarts ==
  ASSUME RegisterLoop
  PROVE  \E l \in {"paint", "menu", "refresh", "status"} :
           /\ doneOf' = [doneOf EXCEPT ![SlotOf(l)] = l]
           /\ loopState' = [loopState EXCEPT ![l] = "running"]
           /\ readyAt' = readyAt + 1
           /\ SlotOf(l) = IF l = "paint" THEN "menu" ELSE l
<1>1. readyAt \in 1..4
  BY DEF RegisterLoop, RegisterOrder
<1>2. RegisterOrder[readyAt] \in {"paint", "menu", "refresh", "status"}
  BY <1>1 DEF RegisterOrder
<1>3. QED
  BY <1>2 DEF RegisterLoop, SlotOf

(* Every step keeps the types.                                             *)
LEMMA NextTeardownTypes == TeardownTypes /\ [LifeNext]_lifeVars => TeardownTypes'
<1> SUFFICES ASSUME TeardownTypes, [LifeNext]_lifeVars PROVE TeardownTypes'
  OBVIOUS
<1> USE DEF TeardownTypes, Loops, Positions, PastRefresh, RestOfTeardown, bootVars, shutVars,
            workVars, samplerVars
<1>1. CASE Run
  BY <1>1 DEF Run
<1>2. ASSUME NEW popover \in BOOLEAN, OnReady(popover) PROVE TeardownTypes'
  BY <1>2 DEF OnReady, RegisterOrder
<1>3. CASE RegisterLoop
  <2>1. PICK l \in {"paint", "menu", "refresh", "status"} :
          /\ doneOf' = [doneOf EXCEPT ![SlotOf(l)] = l]
          /\ loopState' = [loopState EXCEPT ![l] = "running"]
          /\ readyAt' = readyAt + 1
          /\ SlotOf(l) = IF l = "paint" THEN "menu" ELSE l
    BY <1>3, RegisterLoopStarts
  <2>2. SlotOf(l) \in {"refresh", "menu", "status", "heartbeat"} /\ l \in Loops
    BY <2>1
  <2>3. doneOf' \in [{"refresh", "menu", "status", "heartbeat"} -> Loops \cup {NoLoop}]
    BY <2>1, <2>2
  <2>4. loopState' \in [Loops -> {"none", "running", "ended"}]
    BY <2>1, <2>2
  <2>5. readyAt' \in Nat
    BY <2>1
  <2>6. QED
    BY <1>3, <2>3, <2>4, <2>5 DEF RegisterLoop
<1>4. CASE AskRefresh \/ ClaimRefresh \/ EndRefreshScan \/ RestartSampler \/ FinishRefresh
  BY <1>4 DEF AskRefresh, ClaimRefresh, EndRefreshScan, RestartSampler, FinishRefresh
<1>5. ASSUME NEW l \in Loops, LoopStops(l) PROVE TeardownTypes'
  BY <1>5 DEF LoopStops
<1>6. CASE MenuQuits \/ RecoveryEnds \/ ServeRequest \/ EndRequest
  BY <1>6 DEF MenuQuits, RecoveryEnds, ServeRequest, EndRequest
<1>7. ASSUME NEW g \in live, NEW dies \in BOOLEAN, SamplerLeaves(g, dies)
      PROVE  TeardownTypes'
  BY <1>7 DEF SamplerLeaves
<1>8. ASSUME NEW c \in Exits, CallExit(c) \/ ReturnFromExit(c) PROVE TeardownTypes'
  BY <1>8 DEF CallExit, ReturnFromExit
<1>9. CASE MarkClosing \/ CloseStopChannel \/ DeadlinePasses
  BY <1>9 DEF MarkClosing, CloseStopChannel, DeadlinePasses
<1>10. CASE CancelShutdownContext
  BY <1>10 DEF CancelShutdownContext, WaitOrder
<1>11. ASSUME NEW slot \in Waits, WaitForLoop(slot) PROVE TeardownTypes'
  BY <1>11, WaitSequence DEF WaitForLoop
<1>12. CASE ShutdownServer \/ JoinSampler \/ AwaitArchive \/ ReleaseOwners
  BY <1>12 DEF ShutdownServer, JoinSampler, AwaitArchive, ReleaseOwners
<1>13. CASE StopSampler
  BY <1>13 DEF StopSampler
<1>14. CASE RecordComplete
  BY <1>14 DEF RecordComplete
<1>15. CASE UNCHANGED lifeVars
  BY <1>15 DEF lifeVars
<1>16. QED
  BY <1>1, <1>2, <1>3, <1>4, <1>5, <1>6, <1>7, <1>8, <1>9, <1>10, <1>11, <1>12, <1>13,
     <1>14, <1>15 DEF LifeNext, ShutdownStep

(* Every step keeps what the positions of the teardown have established.   *)
LEMMA NextTeardown == TeardownInv /\ [LifeNext]_lifeVars => TeardownInv'
<1> SUFFICES ASSUME TeardownInv, [LifeNext]_lifeVars
             PROVE  NothingNew' /\ RefreshIsSeen' /\ Established'
  BY NextSampler, NextTeardownTypes DEF TeardownInv
<1> USE DEF NothingNew, RefreshIsSeen, Established, PastRefresh, PastHeartbeat, PastSampler,
            PastArchive, RestOfTeardown, bootVars, shutVars, workVars, samplerVars
<1>0. TeardownTypes /\ SamplerInv /\ NothingNew /\ RefreshIsSeen /\ Established
  BY DEF TeardownInv
<1>1. CASE Run
  BY <1>0, <1>1 DEF Run, TeardownTypes, Loops
<1>2. ASSUME NEW popover \in BOOLEAN, OnReady(popover)
      PROVE  NothingNew' /\ RefreshIsSeen' /\ Established'
  BY <1>0, <1>2 DEF OnReady
<1>3. CASE RegisterLoop
  <2>1. PICK l \in {"paint", "menu", "refresh", "status"} :
          /\ doneOf' = [doneOf EXCEPT ![SlotOf(l)] = l]
          /\ loopState' = [loopState EXCEPT ![l] = "running"]
          /\ SlotOf(l) = IF l = "paint" THEN "menu" ELSE l
    BY <1>3, RegisterLoopStarts
  <2>2. /\ doneOf'["heartbeat"] = doneOf["heartbeat"]
        /\ loopState'["heartbeat"] = loopState["heartbeat"]
        /\ loopState["refresh"] = "running" => loopState'["refresh"] = "running"
        /\ loopState'["refresh"] = "running" => doneOf'["refresh"] = "refresh"
    BY <1>0, <2>1 DEF TeardownTypes, Loops
  <2>3. QED
    BY <1>0, <1>3, <2>2 DEF RegisterLoop
<1>4. CASE AskRefresh \/ FinishRefresh
  BY <1>0, <1>4 DEF AskRefresh, FinishRefresh
<1>5. CASE ClaimRefresh
  BY <1>0, <1>5 DEF ClaimRefresh
<1>6. CASE EndRefreshScan
  BY <1>0, <1>6 DEF EndRefreshScan
<1>7. CASE RestartSampler
  BY <1>0, <1>7 DEF RestartSampler, StartSampler
<1>8. ASSUME NEW l \in Loops, LoopStops(l)
      PROVE  NothingNew' /\ RefreshIsSeen' /\ Established'
  <2>1. /\ loopState["heartbeat"] = "ended" => loopState'["heartbeat"] = "ended"
        /\ work # "idle" => loopState'["refresh"] = loopState["refresh"]
        /\ loopState'["refresh"] = "running" => loopState["refresh"] = "running"
    BY <1>0, <1>8 DEF LoopStops, TeardownTypes, Loops
  <2>2. QED
    BY <1>0, <1>8, <2>1 DEF LoopStops
<1>9. CASE MenuQuits
  <2>1. /\ loopState'["heartbeat"] = loopState["heartbeat"]
        /\ loopState'["refresh"] = loopState["refresh"]
    BY <1>0, <1>9 DEF MenuQuits, TeardownTypes, Loops
  <2>2. QED
    BY <1>0, <1>9, <2>1 DEF MenuQuits
<1>10. CASE RecoveryEnds \/ ServeRequest \/ EndRequest
  BY <1>0, <1>10 DEF RecoveryEnds, ServeRequest, EndRequest
<1>11. ASSUME NEW g \in live, NEW dies \in BOOLEAN, SamplerLeaves(g, dies)
       PROVE  NothingNew' /\ RefreshIsSeen' /\ Established'
  BY <1>0, <1>11 DEF SamplerLeaves
<1>12. ASSUME NEW c \in Exits, CallExit(c) PROVE NothingNew' /\ RefreshIsSeen' /\ Established'
  BY <1>0, <1>12 DEF CallExit, TeardownTypes
<1>13. ASSUME NEW c \in Exits, ReturnFromExit(c)
       PROVE  NothingNew' /\ RefreshIsSeen' /\ Established'
  BY <1>0, <1>13 DEF ReturnFromExit, TeardownTypes
<1>14. CASE MarkClosing \/ CloseStopChannel \/ DeadlinePasses
  BY <1>0, <1>14 DEF MarkClosing, CloseStopChannel, DeadlinePasses
<1>15. CASE CancelShutdownContext
  BY <1>0, <1>15 DEF CancelShutdownContext, WaitOrder
<1>16. ASSUME NEW slot \in Waits, WaitForLoop(slot)
       PROVE  NothingNew' /\ RefreshIsSeen' /\ Established'
  <2>1. slot \in {"refresh", "menu", "status", "heartbeat"}
    BY WaitSequence
  <2>2. CASE Done(slot) /\ shut' = AfterWait(slot) /\ failed' = failed
    <3>1. slot = "refresh" => work = "idle"
      BY <1>0, <2>2 DEF Done, NoLoop
    <3>2. slot = "heartbeat" => loopState["heartbeat"] = "ended"
      BY <1>0, <1>16, <2>2 DEF Done, NoLoop, WaitForLoop
    <3>3. QED
      BY <1>0, <1>16, <2>1, <2>2, <3>1, <3>2, WaitSequence DEF WaitForLoop
  <2>3. CASE shut' = "http" /\ failed' = TRUE
    BY <1>0, <1>16, <2>1, <2>3 DEF WaitForLoop
  <2>4. QED
    BY <1>16, <2>2, <2>3 DEF WaitForLoop
<1>17. CASE ShutdownServer
  BY <1>0, <1>17 DEF ShutdownServer
<1>18. CASE StopSampler
  <2>1. CASE sampling
    BY <1>0, <1>18, <2>1 DEF StopSampler, SamplerInv
  <2>2. CASE ~sampling
    BY <1>0, <1>18, <2>2 DEF StopSampler, SamplerInv
  <2>3. QED
    BY <2>1, <2>2
<1>19. CASE JoinSampler
  <2>1. live = {} /\ sampling = FALSE
    BY <1>0, <1>19 DEF JoinSampler, SamplerInv
  <2>2. QED
    BY <1>0, <1>19, <2>1 DEF JoinSampler
<1>20. CASE AwaitArchive
  BY <1>0, <1>20 DEF AwaitArchive, TeardownTypes
<1>21. CASE ReleaseOwners \/ RecordComplete
  BY <1>0, <1>21 DEF ReleaseOwners, RecordComplete
<1>22. CASE UNCHANGED lifeVars
  BY <1>0, <1>22 DEF lifeVars
<1>23. QED
  BY <1>1, <1>2, <1>3, <1>4, <1>5, <1>6, <1>7, <1>8, <1>9, <1>10, <1>11, <1>12, <1>13, <1>14,
     <1>15, <1>16, <1>17, <1>18, <1>19, <1>20, <1>21, <1>22 DEF LifeNext, ShutdownStep

(* TeardownIsOrdered is an invariant: a clean shutdown record is the truth *)
(* about the process, and no caller of onExit returns before it.           *)
THEOREM TeardownHolds == LifeSpec => []TeardownIsOrdered
<1>1. LifeInit => TeardownInv
  <2> SUFFICES ASSUME LifeInit PROVE TeardownInv
    OBVIOUS
  <2>1. TeardownTypes
    BY DEF LifeInit, TeardownTypes, Positions, PastRefresh, RestOfTeardown, Loops, NoLoop
  <2>2. QED
    BY <2>1, InitSampler DEF TeardownInv, LifeInit, NothingNew, RefreshIsSeen, Established,
       PastRefresh, PastHeartbeat, PastSampler, PastArchive, RestOfTeardown, Loops, NoLoop
<1>2. LifeSpec => []TeardownInv
  BY <1>1, NextTeardown, PTL DEF LifeSpec
<1>3. TeardownInv => CompleteMeansQuiet
  BY InvImpliesQuiet
<1>4. QED
  BY <1>2, <1>3, OneLoopOnly, PTL DEF TeardownIsOrdered
=============================================================================
