------------------------ MODULE EvidenceIndexProofs ------------------------
(***************************************************************************)
(* Proofs about EvidenceIndex for every number of consumers and files.     *)
(*   TypeCorrect        every constant: TypeOK is an invariant.            *)
(*   WalkOwnership      every constant: OneWalkOwner is an invariant.      *)
(*   CatalogIsCurrent   no panic, no late roots, no priority files:        *)
(*                      CompleteMeansCurrent is an invariant.              *)
(*   RevisionsTrack     every constant: RevisionTracksChanges.             *)
(*   SnapshotsCover     archive coverage requested before the start:       *)
(*                      SnapshotCoversWindow is an invariant.              *)
(***************************************************************************)
EXTENDS EvidenceIndex, TLAPS

(***************************************************************************)
(* Types.                                                                  *)
(***************************************************************************)

(* The values flight is given: none, and one invalidated by a gap.         *)
LEMMA IdleType == Idle \in FlightType
  BY DEF Idle, FlightType, Windows, Stamps, Absent

(* markGapLocked keeps flight typed, whether or not one is under way.      *)
LEMMA GapFlightType == flight \in FlightType => GapFlight \in FlightType
<1> SUFFICES ASSUME flight \in FlightType PROVE GapFlight \in FlightType
  OBVIOUS
<1>1. [flight EXCEPT !.gapped = TRUE] \in FlightType
  BY DEF FlightType
<1>2. QED
  BY <1>1 DEF GapFlight

(* markGapLocked keeps the types of the four variables it assigns.         *)
LEMMA MarkGapType ==
  TypeOK /\ MarkGap => /\ flight' \in FlightType
                       /\ current' \in SUBSET Consumers
                       /\ reconcileRequired' \in BOOLEAN
                       /\ complete' \in BOOLEAN
<1> SUFFICES ASSUME TypeOK, MarkGap
             PROVE  /\ flight' \in FlightType
                    /\ current' \in SUBSET Consumers
                    /\ reconcileRequired' \in BOOLEAN
                    /\ complete' \in BOOLEAN
  OBVIOUS
<1>1. flight' \in FlightType
  BY GapFlightType DEF MarkGap, TypeOK
<1>2. QED
  BY <1>1, Zenon DEF MarkGap

(* start() leaves a well-typed index.                                      *)
LEMMA InitType == Init => TypeOK
<1> SUFFICES ASSUME Init PROVE TypeOK
  OBVIOUS
<1>1. disk \in [Paths -> Stamps]
  BY DEF Init, Stamps, Absent, Archived
<1>2. hand \in [path : Paths \cup {NoOne}, stamp : Stamps]
  BY DEF Init, NoHand, Stamps, Absent
<1>3. QED
  BY ConstantsAssumption, IdleType, <1>1, <1>2
  DEF ConstantsAssumption, Init, TypeOK, Stamps, Absent, Archived, NoMutations, Windows, Labels

(* Every step keeps every type.                                            *)
LEMMA NextType == TypeOK /\ [Next]_vars => TypeOK'
<1> SUFFICES ASSUME TypeOK, [Next]_vars PROVE TypeOK'
  OBVIOUS
<1> USE ConstantsAssumption DEF ConstantsAssumption, TypeOK, Stamps, env, index, calls
<1>0. GapFlight \in FlightType /\ Idle \in FlightType
  BY IdleType, GapFlightType
<1>00. MarkGap => /\ flight' \in FlightType
                  /\ current' \in SUBSET Consumers
                  /\ reconcileRequired' \in BOOLEAN
                  /\ complete' \in BOOLEAN
  BY MarkGapType
<1>1. ASSUME NEW p \in Paths, WriteFile(p) PROVE TypeOK'
  BY <1>1 DEF WriteFile, Emit
<1>2. ASSUME NEW p \in Paths, DeleteFile(p) PROVE TypeOK'
  BY <1>2 DEF DeleteFile, Emit, Absent
<1>3. ASSUME NEW p \in Paths, MergeRoots(p) PROVE TypeOK'
  BY <1>3 DEF MergeRoots
<1>4. ASSUME NEW p \in Paths, LoseEvent(p) PROVE TypeOK'
  BY <1>00, <1>4 DEF LoseEvent, Fault
<1>5. ASSUME NEW p \in Paths, WalkError(p) PROVE TypeOK'
  <2>1. flight' \in FlightType
    BY <1>5 DEF WalkError, FlightType
  <2>2. QED
    BY <2>1, <1>5 DEF WalkError, Fault
<1>6. ASSUME NEW c \in Consumers, CancelContext(c) PROVE TypeOK'
  BY <1>6 DEF CancelContext, Fault
<1>7. ASSUME NEW c \in Consumers, AbortWalk(c) PROVE TypeOK'
  <2>1. flight' \in FlightType /\ pc' \in [Consumers -> Labels]
    BY <1>0, <1>7 DEF AbortWalk, CloseFlight, Labels
  <2>2. /\ current' \in SUBSET Consumers
        /\ reconcileRequired' \in BOOLEAN
        /\ complete' \in BOOLEAN
    BY <1>7, Zenon DEF AbortWalk
  <2>3. faults' \in Nat /\ reportGap' \in [Consumers -> BOOLEAN]
    BY <1>7 DEF AbortWalk, Fault
  <2>4. QED
    BY <2>1, <2>2, <2>3, <1>7 DEF AbortWalk
<1>8. CASE DropEvents
  BY <1>8 DEF DropEvents, Fault
<1>9. CASE RequestArchiveCoverage
  BY <1>9 DEF RequestArchiveCoverage
<1>10. CASE RequestReconcile
  BY <1>0, <1>10 DEF RequestReconcile
<1>11. CASE RecordIncompleteBatch
  BY <1>00, <1>11 DEF RecordIncompleteBatch
<1>12. ASSUME NEW p \in Paths, StatEvent(p) PROVE TypeOK'
  BY <1>12 DEF StatEvent
<1>13. CASE ApplyMutation
  <2>1. /\ flight' \in FlightType
        /\ current' \in SUBSET Consumers
        /\ reconcileRequired' \in BOOLEAN
        /\ complete' \in BOOLEAN
    BY <1>00, <1>13 DEF ApplyMutation
  <2>2. /\ hand' \in [path : Paths \cup {NoOne}, stamp : Nat]
        /\ mutations' \in [Paths -> Nat \cup {NoMutation}]
        /\ files' \in [Paths -> Nat]
    BY <1>13 DEF ApplyMutation, NoHand, Absent
  <2>3. QED
    BY <2>1, <2>2, <1>13 DEF ApplyMutation
<1>14. ASSUME NEW p \in Paths, Walk(p) PROVE TypeOK'
  BY <1>14 DEF Walk, FlightType, Visible, Absent
<1>15. ASSUME NEW c \in Consumers, Proceed(c) PROVE TypeOK'
  <2> USE DEF Labels
  <2>1. CASE ReadRoots(c)
    BY <2>1 DEF ReadRoots, Goto
  <2>2. CASE SyncRoots(c)
    <3>1. /\ flight' \in FlightType
          /\ current' \in SUBSET Consumers
          /\ reconcileRequired' \in BOOLEAN
          /\ complete' \in BOOLEAN
      BY <1>00, <2>2 DEF SyncRoots
    <3>2. /\ pc' \in [Consumers -> Labels]
          /\ seen' \in [Consumers -> SUBSET Paths]
          /\ rootsKey' \in SUBSET Paths
      <4>1. CASE seen[c] = rootsKey
        BY <2>2, <4>1 DEF SyncRoots, Goto
      <4>2. CASE seen[c] # rootsKey
        BY <2>2, <4>2 DEF SyncRoots, Goto
      <4>3. QED
        BY <4>1, <4>2
    <3>3. QED
      BY <3>1, <3>2, <2>2 DEF SyncRoots
  <2>3. CASE UpdateWatcher(c)
    BY <1>00, <2>3 DEF UpdateWatcher, Goto, Fault
  <2>4. CASE SkipReconcile(c)
    BY <2>4 DEF SkipReconcile, Goto
  <2>5. CASE JoinFlight(c)
    BY <2>5 DEF JoinFlight, Goto
  <2>6. CASE AbandonWait(c)
    BY <2>6 DEF AbandonWait, Return, Goto, NoPrio, Absent
  <2>7. CASE ClaimFlight(c)
    BY <2>7 DEF ClaimFlight, Goto, WalkWindow, FlightType, Windows, Absent
  <2>8. CASE CommitWalk(c)
    <3>1. flight.walk \in [Paths -> Stamps] /\ flight.window \in Windows
      BY DEF FlightType
    <3>2. files' \in [Paths -> Stamps]
      BY <2>8, <3>1 DEF CommitWalk, Merged, Pending
    <3>3. QED
      BY <1>0, <2>8, <3>1, <3>2 DEF CommitWalk, CloseFlight, NoMutations
  <2>9. CASE StatPriority(c)
    BY <2>9 DEF StatPriority, Goto, Absent
  <2>10. CASE DeliverSnapshot(c)
    BY <2>10 DEF DeliverSnapshot, Return, Goto, NoPrio, Absent
  <2>11. QED
    BY <1>15, <2>1, <2>2, <2>3, <2>4, <2>5, <2>6, <2>7, <2>8, <2>9, <2>10 DEF Proceed
<1>16. CASE UNCHANGED vars
  BY <1>16 DEF vars
<1>17. QED
  BY <1>1, <1>2, <1>3, <1>4, <1>5, <1>6, <1>7, <1>8, <1>9, <1>10, <1>11, <1>12, <1>13,
     <1>14, <1>15, <1>16 DEF Next, Environment, Watcher, WalkTree

(* TypeOK is an invariant.                                                 *)
THEOREM TypeCorrect == Spec => []TypeOK
<1>1. QED
  BY InitType, NextType, PTL DEF Spec

(***************************************************************************)
(* Ownership of the flight.                                                *)
(***************************************************************************)

(* A gap keeps the flight's owner.                                         *)
LEMMA GapKeepsOwner == TypeOK => GapFlight.owner = flight.owner
<1> SUFFICES ASSUME TypeOK PROVE GapFlight.owner = flight.owner
  OBVIOUS
<1>1. [flight EXCEPT !.gapped = TRUE].owner = flight.owner
  BY DEF TypeOK, FlightType
<1>2. QED
  BY <1>1 DEF GapFlight

(* Only claim, commit and panic change who walks; only joining and closing *)
(* change who waits.                                                       *)
LEMMA NextOwner == TypeOK /\ OneWalkOwner /\ [Next]_vars => OneWalkOwner'
<1> SUFFICES ASSUME TypeOK, OneWalkOwner, [Next]_vars PROVE OneWalkOwner'
  OBVIOUS
<1> USE ConstantsAssumption DEF ConstantsAssumption, OneWalkOwner, calls
<1>0. /\ pc \in [Consumers -> Labels] /\ flight \in FlightType
      /\ flight.owner \in Consumers \cup {NoOne}
  BY DEF TypeOK, FlightType
<1>a. GapFlight.owner = flight.owner
  BY GapKeepsOwner
<1>b. ASSUME pc' = pc, flight' = flight \/ flight' = GapFlight PROVE OneWalkOwner'
  BY <1>a, <1>b
<1>1. ASSUME NEW p \in Paths, WriteFile(p) PROVE OneWalkOwner'
  BY <1>b, <1>1 DEF WriteFile
<1>2. ASSUME NEW p \in Paths, DeleteFile(p) PROVE OneWalkOwner'
  BY <1>b, <1>2 DEF DeleteFile
<1>3. ASSUME NEW p \in Paths, MergeRoots(p) PROVE OneWalkOwner'
  BY <1>b, <1>3 DEF MergeRoots
<1>4. ASSUME NEW p \in Paths, LoseEvent(p) PROVE OneWalkOwner'
  BY <1>b, <1>4 DEF LoseEvent, MarkGap
<1>5. ASSUME NEW p \in Paths, WalkError(p) PROVE OneWalkOwner'
  BY <1>0, <1>5 DEF WalkError, FlightType
<1>6. ASSUME NEW c \in Consumers, CancelContext(c) PROVE OneWalkOwner'
  BY <1>b, <1>6 DEF CancelContext
<1>c. ASSUME NEW c \in Consumers, pc[c] = "walk", CloseFlight(c) PROVE OneWalkOwner'
  <2>1. flight.owner = c /\ flight'.owner = NoOne
    BY <1>c DEF CloseFlight, Idle
  <2>2. \A k \in Consumers : pc'[k] # "walk" /\ pc'[k] # "wait"
    BY <1>0, <1>c, <2>1 DEF CloseFlight
  <2>3. QED
    BY <2>1, <2>2
<1>7. ASSUME NEW c \in Consumers, AbortWalk(c) PROVE OneWalkOwner'
  BY <1>c, <1>7 DEF AbortWalk
<1>8. CASE DropEvents
  BY <1>b, <1>8 DEF DropEvents
<1>9. CASE RequestArchiveCoverage
  BY <1>b, <1>9 DEF RequestArchiveCoverage
<1>10. CASE RequestReconcile
  BY <1>b, <1>10 DEF RequestReconcile
<1>11. CASE RecordIncompleteBatch
  BY <1>b, <1>11 DEF RecordIncompleteBatch, MarkGap
<1>12. ASSUME NEW p \in Paths, StatEvent(p) PROVE OneWalkOwner'
  BY <1>b, <1>12 DEF StatEvent
<1>13. CASE ApplyMutation
  BY <1>b, <1>13 DEF ApplyMutation, MarkGap
<1>14. ASSUME NEW p \in Paths, Walk(p) PROVE OneWalkOwner'
  BY <1>0, <1>14 DEF Walk, FlightType
<1>15. ASSUME NEW c \in Consumers, Proceed(c) PROVE OneWalkOwner'
  <2>0. ASSUME NEW label \in Labels \ {"walk", "wait"}, Goto(c, label), pc[c] # "walk",
               flight' = flight \/ flight' = GapFlight
        PROVE  OneWalkOwner'
    <3>1. flight'.owner = flight.owner
      BY <1>a, <2>0
    <3>2. QED
      BY <1>0, <2>0, <3>1 DEF Goto, Labels
  <2>1. CASE ReadRoots(c)
    BY <2>0, <2>1 DEF ReadRoots, Labels
  <2>2. CASE SyncRoots(c)
    BY <2>0, <2>2 DEF SyncRoots, MarkGap, Labels
  <2>3. CASE UpdateWatcher(c)
    BY <2>0, <2>3 DEF UpdateWatcher, MarkGap, Labels
  <2>4. CASE SkipReconcile(c)
    BY <2>0, <2>4 DEF SkipReconcile, Labels
  <2>5. CASE JoinFlight(c)
    BY <1>0, <2>5 DEF JoinFlight, Goto, Labels
  <2>6. CASE AbandonWait(c)
    BY <2>0, <2>6 DEF AbandonWait, Return, Labels
  <2>7. CASE ClaimFlight(c)
    BY <1>0, <2>7 DEF ClaimFlight, Goto, Labels
  <2>8. CASE CommitWalk(c)
    BY <1>c, <2>8 DEF CommitWalk
  <2>9. CASE StatPriority(c)
    BY <2>0, <2>9 DEF StatPriority, Labels
  <2>10. CASE DeliverSnapshot(c)
    BY <2>0, <2>10 DEF DeliverSnapshot, Return, Labels
  <2>11. QED
    BY <1>15, <2>1, <2>2, <2>3, <2>4, <2>5, <2>6, <2>7, <2>8, <2>9, <2>10 DEF Proceed
<1>16. CASE UNCHANGED vars
  BY <1>b, <1>16 DEF vars
<1>17. QED
  BY <1>1, <1>2, <1>3, <1>4, <1>5, <1>6, <1>7, <1>8, <1>9, <1>10, <1>11, <1>12, <1>13,
     <1>14, <1>15, <1>16 DEF Next, Environment, Watcher, WalkTree

(* OneWalkOwner is an invariant.                                           *)
THEOREM WalkOwnership == Spec => []OneWalkOwner
<1>1. Init => OneWalkOwner
  BY ConstantsAssumption DEF ConstantsAssumption, Init, OneWalkOwner, Idle
<1>2. QED
  BY <1>1, NextOwner, TypeCorrect, PTL DEF Spec

(***************************************************************************)
(* The catalog is current.  CompleteMeansCurrent is not inductive: a       *)
(* commit is right only if every entry the walk and the side buffer have   *)
(* gathered is still the disk's, or has an event on its way, unless a gap  *)
(* has been marked meanwhile.  That is what CatalogInv adds.               *)
(***************************************************************************)

Steady == ~CanAbort /\ LateRoots = {} /\ \A c \in Consumers : PriorityOf[c] = {}

Fresh(stamp, p) == stamp = disk[p] \/ lossy \/ p \in events

(* The roots never change and nobody brings a priority stat.               *)
Quiet ==
  /\ roots = Paths /\ rootsKey = Paths /\ watched = Paths
  /\ \A c \in Consumers : pc[c] = "sync" => seen[c] = Paths
  /\ \A c \in Consumers : pc[c] # "update" /\ prio[c] = NoPrio

(* The event in hand carries the disk's stamp unless a later one follows.  *)
HandInv ==
  /\ hand # NoHand => hand.path \in Paths
  /\ hand # NoHand => Fresh(hand.stamp, hand.path)

(* What a flight without gaps has gathered.                                *)
FlightInv ==
  /\ flight.owner = NoOne => mutations = NoMutations
  /\ flight.owner # NoOne /\ ~flight.gapped =>
       \A p \in Paths :
         /\ mutations[p] # NoMutation => mutations[p] = disk[p] \/ Reported(p)
         /\ mutations[p] = NoMutation /\ p \notin flight.todo /\ ~flight.failed
              => Agrees(flight.walk[p], p, flight.window) \/ Reported(p)

CatalogInv ==
  /\ TypeOK /\ OneWalkOwner
  /\ Quiet /\ HandInv /\ FlightInv
  /\ complete => initialized
  /\ CompleteMeansCurrent

(* Calls that only move along, or hand a snapshot out, keep the invariant. *)
LEMMA CallSteps ==
  ASSUME Steady, CatalogInv, TypeOK', OneWalkOwner', Quiet',
         UNCHANGED <<disk, events, lossy, hand, mutations, rootsKey, coverage,
                     initialized, complete, files, flight>>
  PROVE  CatalogInv'
  BY DEF CatalogInv, HandInv, FlightInv, CompleteMeansCurrent, Agrees, Reported, Fresh

(* A gap keeps the invariant: nothing is claimed afterwards, whatever      *)
(* happened to the events.                                                 *)
LEMMA GapSteps ==
  ASSUME Steady, CatalogInv, TypeOK', OneWalkOwner', Quiet', MarkGap, HandInv',
         UNCHANGED mutations
  PROVE  CatalogInv'
<1> USE DEF CatalogInv
<1>1. /\ GapFlight.owner = flight.owner
      /\ flight.owner # NoOne => GapFlight.gapped
  <2>1. flight \in FlightType
    BY DEF TypeOK
  <2>2. QED
    BY <2>1 DEF GapFlight, FlightType
<1>2. FlightInv'
  BY <1>1 DEF MarkGap, FlightInv, NoMutations
<1>3. ~complete'
  BY DEF MarkGap
<1>4. QED
  BY <1>2, <1>3 DEF CompleteMeansCurrent

(* With every root known at start, nothing moves the roots or the watcher. *)
LEMMA NextQuiet == Steady /\ CatalogInv /\ [Next]_vars => Quiet'
<1> SUFFICES ASSUME Steady, CatalogInv, [Next]_vars PROVE Quiet'
  OBVIOUS
<1> USE DEF CatalogInv, Steady, Quiet, env, index, calls
<1>0. /\ pc \in [Consumers -> Labels]
      /\ seen \in [Consumers -> SUBSET Paths]
      /\ prio \in [Consumers -> [Paths -> Stamps]]
  BY DEF TypeOK
<1>1. ASSUME UNCHANGED <<roots, rootsKey, watched, seen, prio>>,
             \A k \in Consumers : pc'[k] = "sync" => pc[k] = "sync",
             \A k \in Consumers : pc'[k] # "update"
      PROVE  Quiet'
  BY <1>1
<1>2. CASE UNCHANGED vars
  BY <1>2 DEF vars
<1>3. CASE Environment
  <2>1. ASSUME NEW c \in Consumers, CancelContext(c) PROVE Quiet'
    BY <1>1, <2>1 DEF CancelContext
  <2>2. ASSUME NEW c \in Consumers, AbortWalk(c) PROVE Quiet'
    BY <2>2 DEF AbortWalk
  <2>3. QED
    BY <1>1, <1>3, <2>1, <2>2
    DEF Environment, WriteFile, DeleteFile, MergeRoots, LoseEvent, WalkError, DropEvents,
        RequestArchiveCoverage
<1>4. CASE Watcher \/ WalkTree \/ RequestReconcile
  BY <1>1, <1>4
  DEF Watcher, RecordIncompleteBatch, ApplyMutation, StatEvent, WalkTree, Walk, RequestReconcile
<1>5. ASSUME NEW c \in Consumers, Proceed(c) PROVE Quiet'
  <2>1. CASE ReadRoots(c)
    BY <1>0, <2>1 DEF ReadRoots, Goto, Labels
  <2>2. CASE SyncRoots(c)
    <3>1. seen[c] = rootsKey
      BY <2>2 DEF SyncRoots
    <3>2. QED
      BY <1>0, <2>2, <3>1 DEF SyncRoots, Goto, Labels
  <2>3. CASE UpdateWatcher(c)
    BY <2>3 DEF UpdateWatcher
  <2>4. CASE CommitWalk(c)
    BY <1>0, <1>1, <2>4 DEF CommitWalk, CloseFlight
  <2>5. CASE StatPriority(c)
    BY <1>0, <2>5 DEF StatPriority, Goto, NoPrio
  <2>6. CASE AbandonWait(c) \/ DeliverSnapshot(c)
    BY <1>0, <2>6 DEF AbandonWait, DeliverSnapshot, Return, Goto
  <2>7. CASE SkipReconcile(c) \/ JoinFlight(c) \/ ClaimFlight(c)
    BY <1>0, <1>1, <2>7 DEF SkipReconcile, JoinFlight, ClaimFlight, Goto
  <2>8. QED
    BY <1>5, <2>1, <2>2, <2>3, <2>4, <2>5, <2>6, <2>7 DEF Proceed
<1>6. QED
  BY <1>2, <1>3, <1>4, <1>5 DEF Next

(* Writes and deletions announce themselves, since the watcher covers      *)
(* every path.                                                             *)
LEMMA DiskSteps ==
  ASSUME Steady, CatalogInv, NEW p \in Paths, NEW s \in Stamps, TypeOK', OneWalkOwner', Quiet',
         disk' = [disk EXCEPT ![p] = s], Emit(p),
         UNCHANGED <<lossy, hand, mutations, rootsKey, coverage, initialized, complete, files,
                     flight>>
  PROVE  CatalogInv'
<1> USE DEF CatalogInv
<1>1. events' = events \cup {p}
  BY DEF Emit, Quiet
<1>2. \A q \in Paths : q # p => disk'[q] = disk[q]
  BY DEF TypeOK
<1>3. \A q \in Paths : Reported(q) => Reported(q)'
  BY <1>1 DEF Reported
<1>4. Reported(p)'
  BY <1>1 DEF Reported
<1>6. HandInv'
  BY <1>1, <1>2 DEF HandInv, Fresh
<1>7. FlightInv'
  BY <1>2, <1>3, <1>4 DEF FlightInv, Agrees
<1>8. CompleteMeansCurrent'
  BY <1>2, <1>3, <1>4 DEF CompleteMeansCurrent, Agrees, TypeOK
<1>9. QED
  BY <1>6, <1>7, <1>8

(* An applied mutation replaces the event in hand in the catalog and, while*)
(* a walk runs, in its side buffer; a full buffer is a gap.                *)
LEMMA ApplySteps ==
  ASSUME Steady, CatalogInv, TypeOK', OneWalkOwner', Quiet', ApplyMutation
  PROVE  CatalogInv'
<1> USE DEF CatalogInv
<1>1. PICK h \in Paths, s \in Stamps :
        hand.path = h /\ hand.stamp = s /\ Fresh(s, h) /\ h # NoOne
  BY ConstantsAssumption DEF ConstantsAssumption, ApplyMutation, HandInv, TypeOK
<1>2. UNCHANGED <<disk, events, lossy, rootsKey, coverage, initialized>> /\ hand' = NoHand
  BY DEF ApplyMutation, env, calls
<1>3. HandInv'
  BY <1>2 DEF HandInv
<1>4. \A q \in Paths : q # h => (Reported(q) <=> Reported(q)')
  BY <1>1, <1>2, ConstantsAssumption DEF ConstantsAssumption, Reported, NoHand
<1>5. s = disk'[h] \/ Reported(h)'
  BY <1>1, <1>2 DEF Fresh, Reported
<1>6. /\ mutations \in [Paths -> Stamps \cup {NoMutation}]
      /\ files \in [Paths -> Stamps]
      /\ flight \in FlightType
  BY DEF TypeOK
<1>7. NoMutation \notin Stamps
  BY DEF NoMutation, Stamps
<1>8. CASE flight.owner # NoOne /\ ~Buffered(h)
  <2>1. MarkGap /\ UNCHANGED mutations
    BY <1>1, <1>8 DEF ApplyMutation
  <2>2. QED
    BY <1>3, <2>1, GapSteps
<1>9. CASE flight.owner = NoOne \/ Buffered(h)
  <2>1. UNCHANGED <<flight, complete>>
    BY <1>1, <1>9 DEF ApplyMutation
  <2>2. FlightInv'
    <3>1. CASE flight.owner = NoOne
      <4>1. UNCHANGED mutations
        BY <3>1 DEF ApplyMutation
      <4>2. QED
        BY <2>1, <3>1, <4>1 DEF FlightInv, NoMutations
    <3>2. CASE flight.owner # NoOne
      <4>1. mutations' = [mutations EXCEPT ![h] = s]
        BY <1>1, <1>9, <3>2 DEF ApplyMutation
      <4>2. /\ mutations'[h] = s
            /\ \A q \in Paths : q # h => mutations'[q] = mutations[q]
        BY <1>1, <1>6, <4>1
      <4>3. SUFFICES ASSUME ~flight.gapped, NEW q \in Paths
            PROVE  /\ mutations'[q] # NoMutation => mutations'[q] = disk'[q] \/ Reported(q)'
                   /\ mutations'[q] = NoMutation /\ q \notin flight.todo /\ ~flight.failed
                        => Agrees(flight.walk[q], q, flight.window)' \/ Reported(q)'
        BY <2>1, <3>2 DEF FlightInv, Agrees
      <4>4. CASE q = h
        BY <1>1, <1>5, <1>7, <4>2, <4>4
      <4>5. CASE q # h
        <5>1. mutations'[q] = mutations[q] /\ disk'[q] = disk[q] /\ (Reported(q) <=> Reported(q)')
          BY <1>2, <1>4, <4>2, <4>5
        <5>2. Agrees(flight.walk[q], q, flight.window) <=> Agrees(flight.walk[q], q, flight.window)'
          BY <1>2, <2>1 DEF Agrees
        <5>3. QED
          BY <3>2, <4>3, <5>1, <5>2 DEF FlightInv
      <4>6. QED
        BY <4>4, <4>5
    <3>3. QED
      BY <3>1, <3>2
  <2>3. complete => initialized /\ files' = [files EXCEPT ![h] = s]
    BY <1>1 DEF ApplyMutation
  <2>4. CompleteMeansCurrent'
    <3>1. SUFFICES ASSUME complete, NEW q \in Paths
          PROVE  (Agrees(files[q], q, coverage) \/ Reported(q))'
      BY <2>1 DEF CompleteMeansCurrent, Quiet
    <3>2. CASE q = h
      <4>1. files'[q] = s
        BY <1>1, <1>6, <2>3, <3>1, <3>2
      <4>2. QED
        BY <1>5, <3>2, <4>1 DEF Agrees
    <3>3. CASE q # h
      <4>1. files'[q] = files[q]
        BY <1>1, <1>6, <2>3, <3>1, <3>3
      <4>2. Agrees(files[q], q, coverage) \/ Reported(q)
        BY <3>1 DEF CompleteMeansCurrent, Quiet
      <4>3. QED
        BY <1>2, <1>4, <3>3, <4>1, <4>2 DEF Agrees
    <3>4. QED
      BY <3>2, <3>3
  <2>5. QED
    BY <1>2, <1>3, <2>1, <2>2, <2>4
<1>10. QED
  BY <1>8, <1>9

(* A commit without a gap: every entry comes from the walk or from the     *)
(* side buffer, and both agree with the disk.                              *)
LEMMA CommitSteps ==
  ASSUME Steady, CatalogInv, TypeOK', OneWalkOwner', Quiet',
         NEW c \in Consumers, CommitWalk(c)
  PROVE  CatalogInv'
<1> USE DEF CatalogInv
<1>1. /\ flight.owner = c /\ flight.owner # NoOne
      /\ UNCHANGED <<disk, events, lossy, hand, rootsKey>>
      /\ flight' = Idle /\ mutations' = NoMutations /\ initialized' /\ coverage' = flight.window
  BY ConstantsAssumption DEF ConstantsAssumption, CommitWalk, CloseFlight, OneWalkOwner, env
<1>2. HandInv' /\ FlightInv'
  BY <1>1 DEF HandInv, FlightInv, Fresh, Idle
<1>3. ASSUME complete' PROVE CompleteMeansCurrent'
  <2>1. /\ ~flight.failed /\ ~flight.gapped /\ flight.todo = {}
        /\ \A p \in Paths : files'[p] = Merged(p)
    BY <1>3 DEF CommitWalk
  <2>2. ASSUME NEW p \in Paths PROVE (Agrees(files[p], p, coverage) \/ Reported(p))'
    <3>1. CASE mutations[p] # NoMutation
      <4>1. files'[p] = mutations[p]
        BY <2>1, <3>1 DEF Merged, Pending
      <4>2. QED
        BY <1>1, <2>1, <3>1, <4>1 DEF FlightInv, Agrees, Reported
    <3>2. CASE mutations[p] = NoMutation
      <4>1. files'[p] = flight.walk[p]
        BY <2>1, <3>2 DEF Merged, Pending
      <4>2. Agrees(flight.walk[p], p, flight.window) \/ Reported(p)
        BY <1>1, <2>1, <3>2 DEF FlightInv
      <4>3. QED
        BY <1>1, <4>1, <4>2 DEF Agrees, Reported
    <3>3. QED
      BY <3>1, <3>2
  <2>3. QED
    BY <2>2 DEF CompleteMeansCurrent, Quiet
<1>4. QED
  BY <1>1, <1>2, <1>3 DEF CompleteMeansCurrent

(* The remaining steps of the watcher and of a walk.                       *)
LEMMA EventSteps ==
  ASSUME Steady, CatalogInv, TypeOK', OneWalkOwner', Quiet', NEW p \in Paths,
         \/ DropEvents \/ StatEvent(p)
  PROVE  CatalogInv'
<1> USE DEF CatalogInv, index
<1>1. UNCHANGED <<disk, mutations, rootsKey, coverage, initialized, complete, files, flight>>
  BY DEF DropEvents, StatEvent, env
<1>2. \A q \in Paths : Reported(q) => Reported(q)'
  BY ConstantsAssumption DEF ConstantsAssumption, Reported, DropEvents, StatEvent, NoHand, TypeOK
<1>3. HandInv'
  BY <1>1 DEF HandInv, Fresh, DropEvents, StatEvent, NoHand
<1>4. FlightInv' /\ CompleteMeansCurrent'
  BY <1>1, <1>2 DEF FlightInv, CompleteMeansCurrent, Agrees, Quiet
<1>5. QED
  BY <1>1, <1>3, <1>4

(* Reading one file of the tree, or failing to, keeps the catalog invariant:*)
(* what the walk has read is the disk's stamp unless an event is under way.*)
LEMMA WalkSteps ==
  ASSUME Steady, CatalogInv, TypeOK', OneWalkOwner', Quiet', NEW p \in Paths,
         \/ Walk(p) \/ WalkError(p)
  PROVE  CatalogInv'
<1> USE DEF CatalogInv, index
<1>1. UNCHANGED <<disk, events, lossy, hand, mutations, rootsKey, coverage, initialized,
                  complete, files>>
  BY DEF Walk, WalkError, env
<1>2. HandInv' /\ CompleteMeansCurrent'
  BY <1>1 DEF HandInv, Fresh, CompleteMeansCurrent, Agrees, Reported
<1>3. FlightInv'
  <2>1. flight \in FlightType /\ disk \in [Paths -> Stamps]
    BY DEF TypeOK
  <2>2. CASE WalkError(p)
    BY <1>1, <2>1, <2>2 DEF WalkError, FlightInv, FlightType, Reported
  <2>3. CASE Walk(p)
    <3>1. /\ flight'.walk[p] = Visible(disk[p], flight.window)
          /\ \A q \in Paths : q # p => flight'.walk[q] = flight.walk[q]
          /\ flight'.todo = flight.todo \ {p}
          /\ flight'.owner = flight.owner
          /\ flight'.gapped = flight.gapped /\ flight'.failed = flight.failed
          /\ flight'.window = flight.window /\ flight.window \in Windows
      BY <2>1, <2>3 DEF Walk, FlightType
    <3>2. Agrees(flight.walk[p], p, flight.window)'
      BY <1>1, <2>1, <3>1 DEF Agrees, Visible, InWindow, Windows, Stamps, Absent, Archived
    <3>3. QED
      BY <1>1, <3>1, <3>2 DEF FlightInv, Agrees, Reported
  <2>4. QED
    BY <2>2, <2>3
<1>4. QED
  BY <1>1, <1>2, <1>3

(* An audit request and the claim of a flight keep the catalog invariant: a*)
(* new flight has read nothing, and finds the side buffer empty.           *)
LEMMA FlightSteps ==
  ASSUME Steady, CatalogInv, TypeOK', OneWalkOwner', Quiet', NEW c \in Consumers,
         \/ RequestReconcile \/ ClaimFlight(c)
  PROVE  CatalogInv'
<1> USE DEF CatalogInv, index
<1>1. UNCHANGED <<disk, events, lossy, hand, mutations, rootsKey, coverage, initialized,
                  complete, files>>
  BY DEF RequestReconcile, ClaimFlight, env
<1>2. HandInv' /\ CompleteMeansCurrent'
  BY <1>1 DEF HandInv, Fresh, CompleteMeansCurrent, Agrees, Reported
<1>3. FlightInv'
  <2>1. flight \in FlightType
    BY DEF TypeOK
  <2>2. CASE RequestReconcile
    BY <1>1, <2>1, <2>2 DEF RequestReconcile, GapFlight, FlightInv, FlightType
  <2>3. CASE ClaimFlight(c)
    <3>1. mutations' = NoMutations /\ flight'.todo = Paths
      BY <1>1, <2>3 DEF ClaimFlight, FlightInv, Quiet
    <3>2. QED
      BY <3>1 DEF FlightInv, NoMutations
  <2>4. QED
    BY <2>2, <2>3
<1>4. QED
  BY <1>1, <1>2, <1>3

(* Every step keeps the catalog invariant while the world is steady: roots *)
(* known at the start, no priority files, no panicking walk.               *)
LEMMA NextCatalog == Steady /\ CatalogInv /\ [Next]_vars => CatalogInv'
<1> SUFFICES ASSUME Steady, CatalogInv, [Next]_vars PROVE CatalogInv'
  OBVIOUS
<1>0. TypeOK' /\ OneWalkOwner' /\ Quiet'
  BY NextType, NextOwner, NextQuiet DEF CatalogInv
<1> USE <1>0 DEF env, index, calls
<1>1. CASE UNCHANGED vars
  BY <1>1, CallSteps DEF vars
<1>2. CASE Environment
  <2>1. ASSUME NEW p \in Paths, WriteFile(p) \/ DeleteFile(p) PROVE CatalogInv'
    <3>1. clock + 1 \in Stamps /\ Absent \in Stamps
      BY DEF CatalogInv, TypeOK, Stamps, Absent
    <3>2. QED
      BY <2>1, <3>1, DiskSteps DEF WriteFile, DeleteFile
  <2>2. ASSUME NEW p \in Paths, MergeRoots(p) PROVE CatalogInv'
    BY <2>2 DEF MergeRoots, Steady
  <2>3. ASSUME NEW p \in Paths, LoseEvent(p) PROVE CatalogInv'
    <3>1. MarkGap /\ UNCHANGED mutations /\ HandInv'
      BY <2>3 DEF LoseEvent, HandInv
    <3>2. QED
      BY <3>1, GapSteps
  <2>4. ASSUME NEW p \in Paths, WalkError(p) PROVE CatalogInv'
    BY <2>4, WalkSteps
  <2>5. ASSUME NEW c \in Consumers, CancelContext(c) PROVE CatalogInv'
    BY <2>5, CallSteps DEF CancelContext
  <2>6. ASSUME NEW c \in Consumers, AbortWalk(c) PROVE CatalogInv'
    BY <2>6 DEF AbortWalk, Steady
  <2>7. CASE RequestArchiveCoverage
    BY <2>7, CallSteps DEF RequestArchiveCoverage
  <2>8. CASE DropEvents
    <3>1. PICK p \in Paths : p \in events
      BY <2>8 DEF DropEvents, CatalogInv, TypeOK
    <3>2. QED
      BY <2>8, <3>1, EventSteps
  <2>9. QED
    BY <1>2, <2>1, <2>2, <2>3, <2>4, <2>5, <2>6, <2>7, <2>8 DEF Environment
<1>3. CASE Watcher
  <2>1. CASE RecordIncompleteBatch
    <3>1. MarkGap /\ UNCHANGED mutations /\ HandInv'
      BY <2>1 DEF RecordIncompleteBatch, HandInv
    <3>2. QED
      BY <3>1, GapSteps
  <2>2. QED
    BY <1>3, <2>1, ApplySteps, EventSteps DEF Watcher
<1>4. CASE WalkTree
  BY <1>4, WalkSteps DEF WalkTree
<1>5. ASSUME NEW c \in Consumers, Proceed(c) PROVE CatalogInv'
  <2>1. CASE \/ ReadRoots(c) \/ SkipReconcile(c) \/ JoinFlight(c) \/ AbandonWait(c)
             \/ StatPriority(c)
    BY <2>1, CallSteps DEF ReadRoots, SkipReconcile, JoinFlight, AbandonWait, StatPriority
  <2>2. CASE SyncRoots(c)
    <3>1. seen[c] = rootsKey
      BY <2>2 DEF SyncRoots, CatalogInv, Quiet
    <3>2. QED
      BY <2>2, <3>1, CallSteps DEF SyncRoots
  <2>3. CASE UpdateWatcher(c)
    BY <2>3 DEF UpdateWatcher, CatalogInv, Quiet
  <2>4. CASE DeliverSnapshot(c)
    <3>1. files' = files
      BY <2>4 DEF DeliverSnapshot, CatalogInv, Quiet, NoPrio, TypeOK
    <3>2. QED
      BY <2>4, <3>1, CallSteps DEF DeliverSnapshot
  <2>5. QED
    BY <1>5, <2>1, <2>2, <2>3, <2>4, CommitSteps, FlightSteps DEF Proceed
<1>6. CASE RequestReconcile
  <2>1. CASE Consumers = {}
    <3>1. flight.owner = NoOne
      BY <2>1 DEF CatalogInv, TypeOK, FlightType
    <3>2. flight' = flight
      BY <1>6, <3>1 DEF RequestReconcile, GapFlight
    <3>3. QED
      BY <1>6, <3>2, CallSteps DEF RequestReconcile
  <2>2. CASE Consumers # {}
    BY <1>6, <2>2, FlightSteps
  <2>3. QED
    BY <2>1, <2>2
<1>7. QED
  BY <1>1, <1>2, <1>3, <1>4, <1>5, <1>6 DEF Next

(* The index as start() leaves it, not yet complete, meets the invariant.  *)
LEMMA InitCatalog == Steady /\ Init => CatalogInv
<1> SUFFICES ASSUME Steady, Init PROVE CatalogInv
  OBVIOUS
<1>1. TypeOK
  BY InitType
<1>2. QED
  BY <1>1, ConstantsAssumption
  DEF ConstantsAssumption, Init, CatalogInv, Quiet, HandInv, FlightInv, CompleteMeansCurrent,
      Steady, Idle, NoHand, NoPrio, OneWalkOwner

(* When no walk panics, no root arrives late and no caller brings priority *)
(* files, a catalog that calls itself complete agrees with the disk, up to *)
(* events still on their way: for any number of files and callers and any  *)
(* side-buffer limit.                                                      *)
THEOREM CatalogIsCurrent == Steady => (Spec => []CompleteMeansCurrent)
<1> SUFFICES ASSUME Steady PROVE Spec => []CompleteMeansCurrent
  OBVIOUS
<1>1. Init => CatalogInv
  BY InitCatalog
<1>2. CatalogInv /\ [Next]_vars => CatalogInv'
  BY NextCatalog
<1>3. CatalogInv => CompleteMeansCurrent
  BY DEF CatalogInv
<1>4. QED
  BY <1>1, <1>2, <1>3, PTL DEF Spec

(***************************************************************************)
(* Revisions.  RevisionTracksChanges needs that a caller inside snapshot() *)
(* does not count among the holders of the present revision, or the one    *)
(* that is about to deliver a changed catalog would keep the old one.      *)
(***************************************************************************)

NothingHeldInside == \A c \in Consumers : pc[c] # "idle" => c \notin current

(* Calls enter through ReadRoots, which drops what the caller held, and    *)
(* only a call that returns makes its caller a holder again.               *)
LEMMA NextHolders ==
  ASSUME TypeOK, NothingHeldInside, [Next]_vars
  PROVE  NothingHeldInside'
<1> USE DEF NothingHeldInside
<1>0. pc \in [Consumers -> Labels]
  BY DEF TypeOK
<1>a. ASSUME pc' = pc, current' \subseteq current PROVE NothingHeldInside'
  BY <1>a
<1>b. ASSUME NEW c \in Consumers, pc[c] # "idle", current' \subseteq current,
             \A k \in Consumers \ {c} : pc'[k] # "idle" => pc[k] # "idle"
      PROVE  NothingHeldInside'
  BY <1>b
<1>1. CASE Environment
  <2>1. ASSUME NEW c \in Consumers, AbortWalk(c) PROVE NothingHeldInside'
    BY <1>0, <2>1 DEF AbortWalk
  <2>2. ASSUME NEW c \in Consumers, CancelContext(c) PROVE NothingHeldInside'
    BY <1>a, <2>2 DEF CancelContext
  <2>3. ASSUME NEW p \in Paths,
               \/ WriteFile(p) \/ DeleteFile(p) \/ MergeRoots(p) \/ LoseEvent(p) \/ WalkError(p)
        PROVE  NothingHeldInside'
    BY <1>a, <2>3 DEF WriteFile, DeleteFile, MergeRoots, LoseEvent, WalkError, MarkGap, calls
  <2>4. QED
    BY <1>1, <1>a, <2>1, <2>2, <2>3 DEF Environment, DropEvents, RequestArchiveCoverage, calls
<1>2. CASE Watcher \/ WalkTree \/ RequestReconcile
  BY <1>2, <1>a
  DEF Watcher, WalkTree, RequestReconcile, RecordIncompleteBatch, ApplyMutation, StatEvent, Walk,
      MarkGap, calls
<1>3. ASSUME NEW c \in Consumers, Proceed(c) PROVE NothingHeldInside'
  <2>1. CASE ReadRoots(c)
    BY <1>0, <2>1 DEF ReadRoots, Goto
  <2>2. CASE SyncRoots(c)
    BY <1>0, <1>b, <2>2 DEF SyncRoots, Goto, MarkGap
  <2>3. CASE UpdateWatcher(c)
    BY <1>0, <1>b, <2>3 DEF UpdateWatcher, Goto, MarkGap
  <2>4. CASE SkipReconcile(c) \/ JoinFlight(c) \/ AbandonWait(c) \/ ClaimFlight(c) \/ StatPriority(c)
    BY <1>0, <1>b, <2>4
    DEF SkipReconcile, JoinFlight, AbandonWait, ClaimFlight, StatPriority, Goto, Return
  <2>5. CASE CommitWalk(c)
    BY <1>0, <2>5 DEF CommitWalk, CloseFlight
  <2>6. CASE DeliverSnapshot(c)
    BY <1>0, <2>6 DEF DeliverSnapshot, Return, Goto
  <2>7. QED
    BY <1>3, <2>1, <2>2, <2>3, <2>4, <2>5, <2>6 DEF Proceed
<1>4. CASE UNCHANGED vars
  BY <1>a, <1>4 DEF vars, calls
<1>5. QED
  BY <1>1, <1>2, <1>3, <1>4 DEF Next

(* A step that changes the catalog either ends a flight with the commit of *)
(* its walk or leaves no holder of the revision, but the caller it has     *)
(* just handed the new one to.                                             *)
LEMMA ChangesAreSeen ==
  ASSUME OneWalkOwner, NothingHeldInside, Next, files' # files
  PROVE  current' \cap current = {} \/ (flight.owner # NoOne /\ flight'.owner = NoOne)
<1>1. CASE Environment
  <2>1. files' = files
    BY <1>1
    DEF Environment, WriteFile, DeleteFile, MergeRoots, LoseEvent, WalkError, CancelContext,
        AbortWalk, DropEvents, RequestArchiveCoverage, index
  <2>2. QED
    BY <2>1
<1>2. CASE Watcher
  BY <1>2 DEF Watcher, RecordIncompleteBatch, ApplyMutation, StatEvent, MarkGap, index
<1>3. CASE WalkTree \/ RequestReconcile
  BY <1>3 DEF WalkTree, Walk, RequestReconcile, index
<1>4. ASSUME NEW c \in Consumers, Proceed(c)
      PROVE  current' \cap current = {} \/ (flight.owner # NoOne /\ flight'.owner = NoOne)
  <2>1. CASE CommitWalk(c)
    BY <2>1, ConstantsAssumption
    DEF ConstantsAssumption, OneWalkOwner, CommitWalk, CloseFlight, Idle
  <2>2. CASE DeliverSnapshot(c)
    BY <2>2 DEF DeliverSnapshot, NothingHeldInside
  <2>3. CASE \/ ReadRoots(c) \/ SyncRoots(c) \/ UpdateWatcher(c) \/ SkipReconcile(c)
             \/ JoinFlight(c) \/ AbandonWait(c) \/ ClaimFlight(c) \/ StatPriority(c)
    <3>1. files' = files
      BY <2>3
      DEF ReadRoots, SyncRoots, UpdateWatcher, SkipReconcile, JoinFlight, AbandonWait,
          ClaimFlight, StatPriority, index
    <3>2. QED
      BY <3>1
  <2>4. QED
    BY <1>4, <2>1, <2>2, <2>3 DEF Proceed
<1>5. QED
  BY <1>1, <1>2, <1>3, <1>4 DEF Next

(* RevisionTracksChanges holds of every step: between two reconciles a     *)
(* revision names one catalog, whatever the watcher, the walk and the      *)
(* priority stats of other callers do meanwhile.                           *)
THEOREM RevisionsTrack == Spec => RevisionTracksChanges
<1>1. Init => NothingHeldInside
  BY DEF Init, NothingHeldInside
<1>2. TypeOK /\ NothingHeldInside /\ [Next]_vars => NothingHeldInside'
  BY NextHolders
<1>3. /\ OneWalkOwner /\ NothingHeldInside /\ [Next]_vars
      => [files' # files => \/ current' \cap current = {}
                            \/ flight.owner # NoOne /\ flight'.owner = NoOne]_vars
  BY ChangesAreSeen
<1>4. QED
  BY <1>1, <1>2, <1>3, TypeCorrect, WalkOwnership, PTL DEF Spec, RevisionTracksChanges

(***************************************************************************)
(* Windows.  Once archive coverage is requested every walk covers the      *)
(* archive, so nobody's narrower reconcile can replace a wide catalog.     *)
(***************************************************************************)

WideInv ==
  /\ archiveRequested
  /\ coverage = "archive"
  /\ flight.owner # NoOne => flight.window = "archive"

(* A gap keeps the window of the flight it invalidates.                    *)
LEMMA GapKeepsWindow == TypeOK => GapFlight.window = flight.window
<1> SUFFICES ASSUME TypeOK PROVE GapFlight.window = flight.window
  OBVIOUS
<1>1. [flight EXCEPT !.gapped = TRUE].window = flight.window
  BY DEF TypeOK, FlightType
<1>2. QED
  BY <1>1 DEF GapFlight

(* Only a claim chooses a window and only a commit installs it.            *)
LEMMA NextWide ==
  ASSUME TypeOK, OneWalkOwner, WideInv, [Next]_vars
  PROVE  WideInv'
<1> USE DEF WideInv
<1>0. GapFlight.owner = flight.owner /\ GapFlight.window = flight.window
  BY GapKeepsOwner, GapKeepsWindow
<1>a. ASSUME UNCHANGED <<archiveRequested, coverage>>, flight' = flight \/ flight' = GapFlight
      PROVE  WideInv'
  BY <1>0, <1>a
<1>b. ASSUME UNCHANGED <<archiveRequested, coverage>>,
             flight'.owner = flight.owner, flight'.window = flight.window
      PROVE  WideInv'
  BY <1>b
<1>1. CASE Environment
  <2>1. ASSUME NEW c \in Consumers, AbortWalk(c) PROVE WideInv'
    BY <2>1 DEF AbortWalk, CloseFlight, Idle
  <2>2. ASSUME NEW p \in Paths, WalkError(p) PROVE WideInv'
    BY <1>b, <2>2 DEF WalkError, index, TypeOK, FlightType
  <2>3. ASSUME NEW p \in Paths, \/ WriteFile(p) \/ DeleteFile(p) \/ MergeRoots(p) \/ LoseEvent(p)
        PROVE  WideInv'
    BY <1>a, <2>3 DEF WriteFile, DeleteFile, MergeRoots, LoseEvent, MarkGap, index
  <2>4. QED
    BY <1>1, <1>a, <2>1, <2>2, <2>3
    DEF Environment, DropEvents, RequestArchiveCoverage, CancelContext, index
<1>2. CASE Watcher \/ RequestReconcile
  BY <1>2, <1>a
  DEF Watcher, RequestReconcile, RecordIncompleteBatch, ApplyMutation, StatEvent, MarkGap, index
<1>3. CASE WalkTree
  BY <1>3, <1>b DEF WalkTree, Walk, index, TypeOK, FlightType
<1>4. ASSUME NEW c \in Consumers, Proceed(c) PROVE WideInv'
  <2>1. CASE ClaimFlight(c)
    BY <2>1 DEF ClaimFlight, WalkWindow, index
  <2>2. CASE CommitWalk(c)
    BY <2>2, ConstantsAssumption
    DEF ConstantsAssumption, OneWalkOwner, CommitWalk, CloseFlight, Idle
  <2>3. CASE \/ ReadRoots(c) \/ SyncRoots(c) \/ UpdateWatcher(c) \/ SkipReconcile(c)
             \/ JoinFlight(c) \/ AbandonWait(c) \/ StatPriority(c) \/ DeliverSnapshot(c)
    BY <1>a, <2>3
    DEF ReadRoots, SyncRoots, UpdateWatcher, SkipReconcile, JoinFlight, AbandonWait,
        StatPriority, DeliverSnapshot, MarkGap, index
  <2>4. QED
    BY <1>4, <2>1, <2>2, <2>3 DEF Proceed
<1>5. CASE UNCHANGED vars
  BY <1>5, <1>a DEF vars, index
<1>6. QED
  BY <1>1, <1>2, <1>3, <1>4, <1>5 DEF Next

(* When archive coverage is requested before the index starts, as the app  *)
(* does, every snapshot delivered as complete is as wide as its caller     *)
(* asked for, whoever walked for it.                                       *)
THEOREM SnapshotsCover == ArchiveAtStart => (Spec => []SnapshotCoversWindow)
<1> SUFFICES ASSUME ArchiveAtStart PROVE Spec => []SnapshotCoversWindow
  OBVIOUS
<1>1. Init => WideInv
  BY ConstantsAssumption DEF ConstantsAssumption, Init, WideInv, Idle
<1>2. TypeOK /\ OneWalkOwner /\ WideInv /\ [Next]_vars => WideInv'
  BY NextWide
<1>3. WideInv => SnapshotCoversWindow
  BY DEF WideInv, SnapshotCoversWindow
<1>4. QED
  BY <1>1, <1>2, <1>3, TypeCorrect, WalkOwnership, PTL DEF Spec
=============================================================================
