---------------------------- MODULE AppLifecycle ----------------------------
(***************************************************************************)
(* The life of the tray process: run starts the owners (evidence index,    *)
(* archive recovery, token sampler, heartbeat), onReady starts the loops,  *)
(* and onExit, whoever calls it, tears everything down once.  The refresh  *)
(* loop can be inside a long scan when the shutdown begins, and restarts   *)
(* the sampler at the end of every scan.                                   *)
(***************************************************************************)
EXTENDS Naturals, Sequences, FiniteSets

CONSTANTS Exits,       \* callers of onExit: the native delegate and run itself
          MaxDeaths    \* how often a sampler goroutine ends unasked

ASSUME LifecycleAssumption == Exits # {} /\ MaxDeaths \in Nat

VARIABLES up,          \* run has started the owners and serves
          readyAt,     \* onReady: 0 not called, else the next loop to register
          loopState,        \* loop -> "none", "running" or "ended"
          doneOf,      \* shutdown's done channels: slot -> the loop that closes it
          shutting,    \* a.closing
          stopClosed,  \* a.stopCh is closed
          ctxCancelled,\* the shutdown context
          asked,       \* a refresh waits in refreshCh
          work,        \* the refresh step in flight
          sampling,    \* sampler.running
          generation,  \* sampler.generation
          live,        \* generations whose goroutine has not ended
          told,        \* generations whose stop channel is closed
          joining,     \* the generation stopSampler waits for, 0 for none
          deaths,
          recovery,    \* the archive recovery goroutine
          owners,      \* trajectory store and evidence index are open
          serving,     \* an HTTP request is being served
          shut,        \* performShutdown's position
          expired,     \* the deadline of the wait in progress has passed
          failed,      \* shutdownErr # nil
          completed,   \* the shutdown_complete record
          leaving      \* caller -> its progress through onExit

lifeVars == <<up, readyAt, loopState, doneOf, shutting, stopClosed, ctxCancelled,
              asked, work, sampling, generation, live, told, joining, deaths,
              recovery, owners, serving, shut, expired, failed, completed, leaving>>
samplerVars == <<sampling, generation, live, told, joining, deaths>>
shutVars == <<shutting, stopClosed, ctxCancelled, shut, expired, failed, completed, leaving>>
workVars == <<asked, work>>
bootVars == <<up, readyAt, loopState, doneOf>>

Loops == {"paint", "menu", "refresh", "status", "heartbeat"}
RegisterOrder == <<"paint", "menu", "refresh", "status">>
\* registerLoopDone(false) serves both the paint queue and the menu
SlotOf(l) == IF l = "paint" THEN "menu" ELSE l
WaitOrder == <<"refresh", "menu", "status", "heartbeat">>
Waits == {WaitOrder[i] : i \in DOMAIN WaitOrder}
NoLoop == "nobody"

\* Mutant: a loop that was never told to stop counts as gone
DoneOnceTold(slot) == doneOf[slot] = NoLoop \/ stopClosed
Done(slot) == doneOf[slot] # NoLoop => loopState[doneOf[slot]] = "ended"

LifeInit ==
  /\ up = FALSE /\ readyAt = 0 /\ loopState = [l \in Loops |-> "none"]
  /\ doneOf = [s \in {"refresh", "menu", "status", "heartbeat"} |-> NoLoop]
  /\ shutting = FALSE /\ stopClosed = FALSE /\ ctxCancelled = FALSE
  /\ asked = FALSE /\ work = "idle"
  /\ sampling = FALSE /\ generation = 0 /\ live = {} /\ told = {} /\ joining = 0
  /\ deaths = 0 /\ recovery = "none" /\ owners = TRUE /\ serving = FALSE
  /\ shut = "none" /\ expired = FALSE /\ failed = FALSE /\ completed = "no"
  /\ leaving = [c \in Exits |-> "out"]

-----------------------------------------------------------------------------
(* The sampler's lifecycle.  lifecycleTransitionMu is held by stopSampler   *)
(* until the goroutine it stopped is gone, so a start waits for the join.   *)

StartSampler ==
  /\ joining = 0
  /\ IF sampling
     THEN UNCHANGED <<sampling, generation, live>>
     ELSE /\ generation' = generation + 1
          /\ sampling' = TRUE
          /\ live' = live \union {generation + 1}
  /\ UNCHANGED <<told, joining, deaths>>

SamplerLeaves(g, dies) ==
  /\ g \in live
  /\ IF dies THEN g \notin told /\ deaths < MaxDeaths ELSE g \in told
  /\ deaths' = IF dies THEN deaths + 1 ELSE deaths
  /\ live' = live \ {g}
  /\ sampling' = (sampling /\ generation # g)
  /\ UNCHANGED <<generation, told, joining>>
  /\ UNCHANGED <<bootVars, shutVars, workVars, recovery, owners, serving>>

-----------------------------------------------------------------------------
(* Start                                                                    *)

Run ==
  /\ ~up
  /\ up' = TRUE
  /\ recovery' = "running"
  /\ StartSampler
  /\ loopState' = [loopState EXCEPT !["heartbeat"] = "running"]
  /\ doneOf' = [doneOf EXCEPT !["heartbeat"] = "heartbeat"]
  /\ UNCHANGED <<readyAt, shutVars, workVars, owners, serving>>

OnReady(popover) ==
  /\ up /\ readyAt = 0
  /\ readyAt' = IF shutting THEN Len(RegisterOrder) + 1 ELSE IF popover THEN 1 ELSE 2
  /\ UNCHANGED <<up, loopState, doneOf, shutVars, workVars, samplerVars, recovery, owners, serving>>

RegisterLoop ==
  /\ readyAt \in DOMAIN RegisterOrder
  /\ LET l == RegisterOrder[readyAt] IN
     /\ doneOf' = [doneOf EXCEPT ![SlotOf(l)] = l]
     /\ loopState' = [loopState EXCEPT ![l] = "running"]
  /\ readyAt' = readyAt + 1
  /\ UNCHANGED <<up, shutVars, workVars, samplerVars, recovery, owners, serving>>

-----------------------------------------------------------------------------
(* The loops                                                                *)

AskRefresh ==
  /\ up /\ ~shutting /\ ~asked
  /\ asked' = TRUE
  /\ UNCHANGED <<bootVars, shutVars, work, samplerVars, recovery, owners, serving>>

ClaimRefresh ==
  /\ loopState["refresh"] = "running" /\ asked /\ work = "idle"
  /\ asked' = FALSE
  /\ work' = IF shutting THEN "idle" ELSE "scanning"
  /\ UNCHANGED <<bootVars, shutVars, samplerVars, recovery, owners, serving>>

EndRefreshScan ==
  /\ work = "scanning"
  /\ work' = IF shutting THEN "idle" ELSE "starting"
  /\ UNCHANGED <<bootVars, shutVars, asked, samplerVars, recovery, owners, serving>>

\* startLiveTokenRate looked at closing before it calls start
RestartSampler ==
  /\ work = "starting"
  /\ StartSampler
  /\ work' = "recording"
  /\ UNCHANGED <<bootVars, shutVars, asked, recovery, owners, serving>>

FinishRefresh ==
  /\ work = "recording"
  /\ work' = "idle"
  /\ UNCHANGED <<bootVars, shutVars, asked, samplerVars, recovery, owners, serving>>

LoopStops(l) ==
  /\ loopState[l] = "running" /\ stopClosed
  /\ l = "refresh" => work = "idle"
  /\ loopState' = [loopState EXCEPT ![l] = "ended"]
  /\ UNCHANGED <<up, readyAt, doneOf, shutVars, workVars, samplerVars, recovery, owners, serving>>

\* the Quit item ends the menu loop and hands over to the native run loop
MenuQuits ==
  /\ loopState["menu"] = "running"
  /\ loopState' = [loopState EXCEPT !["menu"] = "ended"]
  /\ UNCHANGED <<up, readyAt, doneOf, shutVars, workVars, samplerVars, recovery, owners, serving>>

RecoveryEnds ==
  /\ recovery = "running" /\ ctxCancelled
  /\ recovery' = "ended"
  /\ UNCHANGED <<bootVars, shutVars, workVars, samplerVars, owners, serving>>

ServeRequest ==
  /\ up /\ ~serving /\ shut \in {"none", "begin", "signal", "cancel"} \union Waits
  /\ serving' = TRUE
  /\ UNCHANGED <<bootVars, shutVars, workVars, samplerVars, recovery, owners>>

EndRequest ==
  /\ serving /\ serving' = FALSE
  /\ UNCHANGED <<bootVars, shutVars, workVars, samplerVars, recovery, owners>>

-----------------------------------------------------------------------------
(* Shutdown.  shutdownOnce lets one caller perform it, the others wait.     *)

CallExit(c) ==
  /\ up /\ leaving[c] = "out"
  /\ leaving' = [leaving EXCEPT ![c] = "waiting"]
  /\ shut' = IF shut = "none" THEN "begin" ELSE shut
  /\ UNCHANGED <<shutting, stopClosed, ctxCancelled, expired, failed, completed>>
  /\ UNCHANGED <<bootVars, workVars, samplerVars, recovery, owners, serving>>

MarkClosing ==
  /\ shut = "begin"
  /\ shutting' = TRUE /\ asked' = FALSE /\ shut' = "signal"
  /\ UNCHANGED <<stopClosed, ctxCancelled, expired, failed, completed, leaving>>
  /\ UNCHANGED <<bootVars, work, samplerVars, recovery, owners, serving>>

CloseStopChannel ==
  /\ shut = "signal"
  /\ stopClosed' = TRUE /\ shut' = "cancel"
  /\ UNCHANGED <<shutting, ctxCancelled, expired, failed, completed, leaving>>
  /\ UNCHANGED <<bootVars, workVars, samplerVars, recovery, owners, serving>>

CancelShutdownContext ==
  /\ shut = "cancel"
  /\ ctxCancelled' = TRUE /\ expired' = FALSE /\ shut' = WaitOrder[1]
  /\ UNCHANGED <<shutting, stopClosed, failed, completed, leaving>>
  /\ UNCHANGED <<bootVars, workVars, samplerVars, recovery, owners, serving>>

\* waitForTrayLoops reads one slot after the other; a loop not yet registered
\* has no channel to wait for.
AfterWait(slot) ==
  LET i == CHOOSE i \in DOMAIN WaitOrder : WaitOrder[i] = slot
  IN IF i = Len(WaitOrder) THEN "http" ELSE WaitOrder[i + 1]

\* Mutant: no deadline bounds the wait
WaitForLoopUnbounded(slot) ==
  /\ shut = slot /\ Done(slot)
  /\ shut' = AfterWait(slot) /\ expired' = FALSE
  /\ UNCHANGED <<shutting, stopClosed, ctxCancelled, failed, completed, leaving>>
  /\ UNCHANGED <<bootVars, workVars, samplerVars, recovery, owners, serving>>

\* One deadline for all slots; the first one still open when it passes ends
\* the wait.
WaitForLoop(slot) ==
  /\ shut = slot
  /\ \/ /\ Done(slot)
        /\ shut' = AfterWait(slot)
        /\ expired' = (expired /\ shut' # "http")
        /\ UNCHANGED failed
     \/ /\ ~Done(slot) /\ expired
        /\ shut' = "http" /\ expired' = FALSE /\ failed' = TRUE
  /\ UNCHANGED <<shutting, stopClosed, ctxCancelled, completed, leaving>>
  /\ UNCHANGED <<bootVars, workVars, samplerVars, recovery, owners, serving>>

DeadlinePasses ==
  /\ shut \in Waits \union {"http"} /\ ~expired
  /\ expired' = TRUE
  /\ UNCHANGED <<shutting, stopClosed, ctxCancelled, shut, failed, completed, leaving>>
  /\ UNCHANGED <<bootVars, workVars, samplerVars, recovery, owners, serving>>

ShutdownServer ==
  /\ shut = "http"
  /\ \/ ~serving /\ UNCHANGED failed
     \/ serving /\ expired /\ failed' = TRUE
  /\ shut' = "sampler" /\ expired' = FALSE
  /\ UNCHANGED <<shutting, stopClosed, ctxCancelled, completed, leaving>>
  /\ UNCHANGED <<bootVars, workVars, samplerVars, recovery, owners, serving>>

StopSampler ==
  /\ shut = "sampler" /\ joining = 0
  /\ IF sampling
     THEN /\ sampling' = FALSE
          /\ told' = told \union {generation}
          /\ joining' = generation
          /\ shut' = "join"
     ELSE shut' = "archive" /\ UNCHANGED <<sampling, told, joining>>
  /\ UNCHANGED <<generation, live, deaths>>
  /\ UNCHANGED <<shutting, stopClosed, ctxCancelled, expired, failed, completed, leaving>>
  /\ UNCHANGED <<bootVars, workVars, recovery, owners, serving>>

JoinSampler ==
  /\ shut = "join" /\ joining \notin live
  /\ joining' = 0 /\ shut' = "archive"
  /\ UNCHANGED <<sampling, generation, live, told, deaths>>
  /\ UNCHANGED <<shutting, stopClosed, ctxCancelled, expired, failed, completed, leaving>>
  /\ UNCHANGED <<bootVars, workVars, recovery, owners, serving>>

AwaitArchive ==
  /\ shut = "archive" /\ recovery # "running"
  /\ shut' = "release"
  /\ UNCHANGED <<shutting, stopClosed, ctxCancelled, expired, failed, completed, leaving>>
  /\ UNCHANGED <<bootVars, workVars, samplerVars, recovery, owners, serving>>

ReleaseOwners ==
  /\ shut = "release"
  /\ owners' = FALSE /\ shut' = "record"
  /\ UNCHANGED <<shutting, stopClosed, ctxCancelled, expired, failed, completed, leaving>>
  /\ UNCHANGED <<bootVars, workVars, samplerVars, recovery, serving>>

RecordComplete ==
  /\ shut = "record"
  /\ completed' = IF failed THEN "failed" ELSE "clean"
  /\ shut' = "done"
  /\ UNCHANGED <<shutting, stopClosed, ctxCancelled, expired, failed, leaving>>
  /\ UNCHANGED <<bootVars, workVars, samplerVars, recovery, owners, serving>>

ReturnFromExit(c) ==
  /\ leaving[c] = "waiting" /\ shut = "done"
  /\ leaving' = [leaving EXCEPT ![c] = "returned"]
  /\ UNCHANGED <<shutting, stopClosed, ctxCancelled, shut, expired, failed, completed>>
  /\ UNCHANGED <<bootVars, workVars, samplerVars, recovery, owners, serving>>

ShutdownStep ==
  \/ MarkClosing \/ CloseStopChannel \/ CancelShutdownContext
  \/ \E slot \in Waits : WaitForLoop(slot)
  \/ ShutdownServer \/ StopSampler \/ JoinSampler
  \/ AwaitArchive \/ ReleaseOwners \/ RecordComplete

LifeNext ==
  \/ Run
  \/ \E popover \in BOOLEAN : OnReady(popover)
  \/ RegisterLoop
  \/ AskRefresh \/ ClaimRefresh \/ EndRefreshScan \/ RestartSampler \/ FinishRefresh
  \/ \E l \in Loops : LoopStops(l)
  \/ MenuQuits \/ RecoveryEnds \/ ServeRequest \/ EndRequest
  \/ \E g \in live, dies \in BOOLEAN : SamplerLeaves(g, dies)
  \/ \E c \in Exits : CallExit(c) \/ ReturnFromExit(c)
  \/ DeadlinePasses
  \/ ShutdownStep

LifeSpec == LifeInit /\ [][LifeNext]_lifeVars

\* Timers fire, a stopped sampler and a cancelled recovery end; a scan and a
\* request may hang for ever.
LifeFairness ==
  /\ WF_lifeVars(ShutdownStep)
  /\ WF_lifeVars(DeadlinePasses)
  /\ WF_lifeVars(RecoveryEnds)
  /\ WF_lifeVars(\E g \in live : SamplerLeaves(g, FALSE))
  /\ \A c \in Exits : WF_lifeVars(ReturnFromExit(c))

LifeFairSpec == LifeSpec /\ LifeFairness

-----------------------------------------------------------------------------
(* Correctness                                                              *)

\* A shutdown_complete record without an error is the truth: no refresh is in
\* flight, no sampler goroutine is left, the archive recovery and the
\* heartbeat have ended and the owners they used are released.  And nobody
\* returns from onExit before that record.
CompleteMeansQuiet ==
  /\ completed = "clean" =>
       /\ work = "idle" /\ live = {} /\ ~owners
       /\ recovery = "ended" /\ loopState["heartbeat"] = "ended"
  /\ (\E c \in Exits : leaving[c] = "returned") => completed # "no"

\* The sampler keeps process-wide baselines: two generations never run at the
\* same time, even when a refresh that outlived the shutdown's wait restarts it.
OneSamplerLoop == Cardinality(live) <= 1

\* The order of the teardown holds for both of its observers.
TeardownIsOrdered == CompleteMeansQuiet /\ OneSamplerLoop

\* A caller of onExit returns, whatever scan or request hangs.
ExitReturns ==
  []<>(\A c \in Exits : leaving[c] # "waiting")
=============================================================================
