---------------------------------- MODULE Boot ----------------------------------
(******************************************************************************)
(* andara-server's process: main's start, its three goroutines (the tick      *)
(* loop, the content reconcile and main itself), the probes it answers, and   *)
(* every way it stops (cmd/andara-server/main.go, server/boot, and the        *)
(* Gateway's start and drain in server/gateway/server.go).                    *)
(*                                                                            *)
(* The four flags the goroutines share are atomics, so each load and store of *)
(* one is a step.  What the World's log says of content is kept to its swaps: *)
(* a swap's digest is its place in the log.                                   *)
(******************************************************************************)
EXTENDS Integers, Sequences

CONSTANTS
  MaxSwapLog,   \* bound: swaps on the World's log
  MaxBoots      \* bound: processes

ASSUME BootAssumption == {MaxSwapLog, MaxBoots} \subseteq Nat

VARIABLES
  main, why,          \* where run is, and what it is stopping for
  loop, loopErr,      \* the tick loop: is it running, and what it returned
  ticked,             \* its first live tick has completed
  leaving,            \* where the loop is in leaveWait
  reconciling,        \* ReconcileContent: see Reconcile*
  gateway, probes,    \* the two listeners
  signaled,           \* SIGTERM has come
  started, waiting, ready, draining,  \* the Runtime's atomics
  heldFinding,        \* an empty store's no_zones_found: "none", "held" or "settled"
  reports,            \* how often it was reported
  swapLog, consumed,  \* the World's swaps, and how many the Engine has met
  inEffect,           \* the content in effect in the Engine
  everZones,          \* a World in effect has had Zones, in any process
  spawnKnown,         \* character.spawn_room resolves in the content
  exitCode, boots

mainVars == <<main, why, signaled, exitCode, boots>>
loopVars == <<loop, loopErr, ticked, leaving>>
bootFlags == <<started, waiting, ready, draining>>
serverVars == <<gateway, probes>>
heldVars == <<heldFinding, reports>>
bootWorld == <<swapLog, consumed, inEffect, everZones, spawnKnown>>
bootVars == <<mainVars, loopVars, reconciling, bootFlags, serverVars, heldVars, bootWorld>>

ExitOK == 0
ExitFail == 1
ExitMismatch == 3
ExitBoundaryLost == 5

(* LoopExit *)
LoopExit(e) == IF e = "lost" THEN ExitBoundaryLost ELSE ExitFail

-------------------------------------------------------------------------------
(* The World's content, as its log of swaps has it. *)

NoZones == [digest |-> 0, zones |-> FALSE]

(* The Engine: a swap applies over the content it was made for, and none takes *)
(* a Zone away.                                                               *)
AppliesTo(w, s) == s.base = w.digest /\ (w.zones => s.zones)

SwapsApplied(w, s) == IF AppliesTo(w, s) THEN [digest |-> s.digest, zones |-> s.zones] ELSE w

(* contentApplied: the next swap of the log, over the content in effect. *)
ContentApplied == SwapsApplied(inEffect, swapLog[consumed + 1])

(* recovered: the swaps a dead process met are replayed, and those alone. *)
WorldRecovered == UNCHANGED <<swapLog, consumed, inEffect, everZones>>

(* A stale swap is taken for one that applied. *)
WorldHadZonesAny == \E i \in DOMAIN swapLog : swapLog[i].zones

(* worldHadZones: the same walk from the records alone, up to the first swap   *)
(* with Zones, so no Zone can be removed on the way.                           *)
Walked(w, s) == IF w.zones \/ s.base # w.digest THEN w
                ELSE [digest |-> s.digest, zones |-> s.zones]

(* The walk over the first n swaps, as the sequence of what it held. *)
Walks(n) == {w \in [0..n -> [digest : 0..MaxSwapLog, zones : BOOLEAN]] :
               w[0] = NoZones /\ \A i \in 1..n : w[i] = Walked(w[i - 1], swapLog[i])}

WorldHadZones == \E w \in Walks(Len(swapLog)) : w[Len(swapLog)].zones

(* The Loader produces a swap: for the content in effect, or, in a produce    *)
(* that a dead process or a timeout left behind, for what was.                 *)
ProduceSwap(base, zones) ==
  /\ reconciling = "running" \/ gateway = "up"
  /\ Len(swapLog) < MaxSwapLog
  /\ zones => spawnKnown
  /\ swapLog' = Append(swapLog, [base |-> base, digest |-> Len(swapLog) + 1, zones |-> zones])
  /\ UNCHANGED <<mainVars, loopVars, reconciling, bootFlags, serverVars, heldVars, consumed,
                 inEffect, everZones, spawnKnown>>

-------------------------------------------------------------------------------
(* The held finding. *)

(* dropHeld, serveHeld: settled unreported. *)
DropHeld ==
  /\ heldFinding' = IF heldFinding = "held" THEN "settled" ELSE heldFinding
  /\ UNCHANGED reports

(* reportHeld: settled as an exit 1 does. *)
ReportHeld ==
  /\ heldFinding' = IF heldFinding = "held" THEN "settled" ELSE heldFinding
  /\ reports' = IF heldFinding = "held" THEN reports + 1 ELSE reports

(* exitHeld: a signal leaves it to SettleHeld. *)
ExitHeld == IF signaled THEN UNCHANGED heldVars ELSE ReportHeld

-------------------------------------------------------------------------------
(* main: run, up to the loop. *)

BootInit ==
  /\ main = "load" /\ why = "none" /\ signaled = FALSE /\ exitCode = ExitOK /\ boots = 1
  /\ loop = "none" /\ loopErr = "none" /\ ticked = FALSE /\ leaving = "no"
  /\ reconciling = "none" /\ gateway = "none" /\ probes = "none"
  /\ started = FALSE /\ waiting = FALSE /\ ready = FALSE /\ draining = FALSE
  /\ heldFinding = "none" /\ reports = 0
  /\ swapLog = <<>> /\ consumed = 0 /\ inEffect = NoZones /\ everZones = FALSE /\ spawnKnown \in BOOLEAN

(* run returns: with the loop to stop first, or not. *)
Stop(step, reason) == main' = step /\ why' = reason

(* What the pointers name loads, or does not and the log is what comes back;   *)
(* an empty store's finding is held until one or the other is settled.         *)
LoadSettles == heldFinding' \in {"none", "held"}

(* LoadContent *)
LoadContent ==
  /\ main = "load"
  /\ \/ Stop("verbs", "none") /\ LoadSettles
     \/ Stop("close", "fail") /\ UNCHANGED heldFinding
  /\ UNCHANGED <<signaled, exitCode, boots, loopVars, reconciling, bootFlags, serverVars, reports,
                 bootWorld>>

(* The parts are opened in turn, and any of them may fail the boot. *)
Opens(part, next) ==
  /\ main = part
  /\ Stop(next, "none") \/ Stop("close", "fail")
  /\ UNCHANGED <<signaled, exitCode, boots, loopVars, reconciling, bootFlags, serverVars, heldVars,
                 bootWorld>>

LoadVerbs == Opens("verbs", "accounts")
OpenAccounts == Opens("accounts", "admin")
OpenContentAdmin == Opens("admin", "ingress")
StartIngress == Opens("ingress", "roster")
StartRoster == Opens("roster", "recover")

(* StartTickLoop recovers the World and starts the loop, the probes and the    *)
(* reconcile; or it fails, and a mismatch holds its metrics for a scrape.      *)
StartTickLoop ==
  /\ main = "recover"
  /\ \/ /\ Stop("await", "none")
        /\ loop' = "running" /\ probes' = "up" /\ reconciling' = "running"
        /\ UNCHANGED <<loopErr, ticked, leaving, gateway>>
     \/ /\ Stop("close", "fail") /\ UNCHANGED <<loopVars, serverVars, reconciling>>
     \/ /\ Stop("linger", "mismatch") /\ UNCHANGED <<loopVars, serverVars, reconciling>>
  /\ UNCHANGED <<signaled, exitCode, boots, bootFlags, heldVars, bootWorld>>

HoldMismatch ==
  /\ main = "linger" /\ Stop("close", why)
  /\ UNCHANGED <<signaled, exitCode, boots, loopVars, reconciling, bootFlags, serverVars, heldVars,
                 bootWorld>>

-------------------------------------------------------------------------------
(* ReconcileContent, on its goroutine. *)

ReconcileDone(r) == reconciling' = r

(* A swap is refused or not written, the log cannot be read, or the signal     *)
(* cancels it.                                                                 *)
ReconcileFails ==
  /\ reconciling = "running" /\ ReconcileDone("failed") /\ ExitHeld
  /\ UNCHANGED <<mainVars, loopVars, bootFlags, serverVars, bootWorld>>

(* The loop has applied what is on the World's log (worldBarrier). *)
BarrierReached == reconciling = "running" /\ consumed = Len(swapLog)

EnterWait == waiting' = TRUE

(* No Zones in effect: a first start, which waits, unless the log had some. *)
ReconcileWaits ==
  /\ BarrierReached /\ ~inEffect.zones
  /\ IF WorldHadZones
     THEN ReconcileDone("lost") /\ ExitHeld /\ UNCHANGED waiting
     ELSE EnterWait /\ ReconcileDone("ok") /\ DropHeld
  /\ UNCHANGED <<mainVars, loopVars, started, ready, draining, serverVars, bootWorld>>

ReconcileServes ==
  /\ BarrierReached /\ inEffect.zones
  /\ ReconcileDone("ok") /\ DropHeld
  /\ UNCHANGED <<mainVars, loopVars, bootFlags, serverVars, bootWorld>>

-------------------------------------------------------------------------------
(* The tick loop's goroutine. *)

(* A tick applies the next swap: contentApplied, and into leaveWait. *)
LoopSwaps ==
  /\ loop = "running" /\ leaving = "no" /\ consumed < Len(swapLog)
  /\ consumed' = consumed + 1 /\ ticked' = TRUE
  /\ inEffect' = ContentApplied /\ everZones' = (everZones \/ ContentApplied.zones)
  /\ leaving' = IF waiting /\ ContentApplied.zones /\ spawnKnown THEN "leave" ELSE "no"
  /\ UNCHANGED <<mainVars, loop, loopErr, reconciling, bootFlags, serverVars, heldVars, swapLog,
                 spawnKnown>>

LoopTicks ==
  /\ loop = "running" /\ leaving = "no" /\ ~ticked /\ ticked' = TRUE
  /\ UNCHANGED <<mainVars, loop, loopErr, leaving, reconciling, bootFlags, serverVars, heldVars,
                 bootWorld>>

(* leaveWait: the wait ends; then, if the Gateway serves, the server is ready. *)
LeaveWait ==
  /\ \/ /\ leaving = "leave" /\ waiting' = FALSE /\ leaving' = "left"
        /\ UNCHANGED ready
     \/ /\ leaving = "left" /\ leaving' = IF started /\ ~draining THEN "mark" ELSE "no"
        /\ UNCHANGED <<waiting, ready>>
     \/ /\ leaving = "mark" /\ ready' = TRUE /\ leaving' = "no"
        /\ UNCHANGED waiting
  /\ UNCHANGED <<mainVars, loop, loopErr, ticked, reconciling, started, draining, serverVars,
                 heldVars, bootWorld>>

(* Loop.Run returns: asked to, or of a lost boundary or a fault; a drain that  *)
(* runs past its timeout leaves its tick where it is.                          *)
LoopEnds(e) ==
  /\ loop \in {"running", "stopping"} /\ e \in {"nil", "lost", "fail"}
  /\ e = "nil" => loop = "stopping"
  /\ leaving = "no" \/ (loop = "stopping" /\ e = "fail")
  /\ loop' = "ended" /\ loopErr' = e
  /\ UNCHANGED <<mainVars, ticked, leaving, reconciling, bootFlags, serverVars, heldVars, bootWorld>>

-------------------------------------------------------------------------------
(* main: from the reconcile to serving. *)

Signal ==
  /\ ~signaled /\ main \notin {"close", "exited"} /\ signaled' = TRUE
  /\ UNCHANGED <<main, why, exitCode, boots, loopVars, reconciling, bootFlags, serverVars, heldVars,
                 bootWorld>>

(* The select over the reconcile, the loop and the signal. *)
AwaitReconcile ==
  /\ main = "await"
  /\ \/ reconciling = "ok" /\ Stop("seed", "none")
     \/ reconciling \in {"failed", "lost"} /\ Stop("halt", IF signaled THEN "signal" ELSE "fail")
     \/ loop = "ended" /\ Stop("close", "loop")
     \/ signaled /\ Stop("halt", "signal")
  /\ UNCHANGED <<signaled, exitCode, boots, loopVars, reconciling, bootFlags, serverVars, heldVars,
                 bootWorld>>

(* A sizing build's seed. *)
Seed ==
  /\ main = "seed"
  /\ Stop("check", "none") \/ Stop("halt", IF signaled THEN "signal" ELSE "seed")
  /\ UNCHANGED <<signaled, exitCode, boots, loopVars, reconciling, bootFlags, serverVars, heldVars,
                 bootWorld>>

CheckSpawn ==
  /\ main = "check"
  /\ IF waiting \/ (everZones /\ spawnKnown) THEN Stop("gateway", "none") ELSE Stop("halt", "fail")
  /\ UNCHANGED <<signaled, exitCode, boots, loopVars, reconciling, bootFlags, serverVars, heldVars,
                 bootWorld>>

(* gateway.New, which a bad certificate fails, and its Start. *)
NewGateway ==
  /\ main = "gateway"
  /\ Stop("listen", "none") \/ Stop("halt", "fail")
  /\ UNCHANGED <<signaled, exitCode, boots, loopVars, reconciling, bootFlags, serverVars, heldVars,
                 bootWorld>>

StartGateway ==
  /\ main = "listen"
  /\ \/ Stop("mark", "none") /\ gateway' = "up"
     \/ Stop("halt", "fail") /\ UNCHANGED gateway
  /\ UNCHANGED <<signaled, exitCode, boots, loopVars, reconciling, bootFlags, probes, heldVars,
                 bootWorld>>

(* MarkStarted: started first, then the other flags. *)
MarkStarted ==
  /\ \/ /\ main = "mark" /\ started' = TRUE /\ main' = "unmarked"
        /\ UNCHANGED ready
     \/ /\ main = "unmarked" /\ UNCHANGED <<started, ready>>
        /\ main' = IF ~waiting /\ ~draining THEN "marking" ELSE "serve"
     \/ /\ main = "marking" /\ ready' = TRUE /\ main' = "serve"
        /\ UNCHANGED started
  /\ UNCHANGED <<why, signaled, exitCode, boots, loopVars, reconciling, waiting, draining,
                 serverVars, heldVars, bootWorld>>

-------------------------------------------------------------------------------
(* main: serving, and stopping. *)

(* The select over the signal, the loop and the two listeners. *)
ServeProbes ==
  /\ main = "serve"
  /\ \/ signaled /\ Stop("drain", "signal")
     \/ loop = "ended" /\ Stop("drain", "loop")
     \/ Stop("halt", "fail")
     \/ Stop("drain", "probes")
  /\ UNCHANGED <<signaled, exitCode, boots, loopVars, reconciling, bootFlags, serverVars, heldVars,
                 bootWorld>>

(* The Gateway's Shutdown begins with Runtime.Drain's two stores. *)
Drain ==
  /\ \/ main = "drain" /\ main' = "draining" /\ draining' = TRUE /\ UNCHANGED ready
     \/ main = "draining" /\ main' = "drained" /\ ready' = FALSE /\ UNCHANGED draining
  /\ UNCHANGED <<why, signaled, exitCode, boots, loopVars, reconciling, started, waiting,
                 serverVars, heldVars, bootWorld>>

(* The sessions are closed and the listener, within drain_timeout. *)
GatewayShutdown ==
  /\ main = "drained" /\ gateway' = "down"
  /\ main' = IF why = "loop" THEN "close" ELSE "halt"
  /\ UNCHANGED <<why, signaled, exitCode, boots, loopVars, reconciling, bootFlags, probes, heldVars,
                 bootWorld>>

(* halt: stop the loop and wait for it, the probes with it. *)
Halt ==
  /\ main = "halt"
  /\ \/ loop = "running" /\ loop' = "stopping" /\ UNCHANGED main
     \/ loop = "ended" /\ main' = "close" /\ UNCHANGED loop
  /\ UNCHANGED <<why, signaled, exitCode, boots, loopErr, ticked, leaving, reconciling, bootFlags,
                 serverVars, heldVars, bootWorld>>

(* A drain exits 0 whatever the loop says of it. *)
ExitOfDeaf(reason) ==
  CASE reason = "mismatch" -> ExitMismatch
    [] reason = "signal" -> ExitOK
    [] reason = "loop" -> LoopExit(loopErr)
    [] OTHER -> ExitFail

(* What run returns, for what it stopped for and what the loop returned. *)
ExitOf(reason) ==
  CASE reason = "mismatch" -> ExitMismatch
    [] reason = "signal" -> IF loopErr = "nil" THEN ExitOK ELSE LoopExit(loopErr)
    [] reason = "loop" -> LoopExit(loopErr)
    [] reason = "seed" -> IF loopErr = "nil" THEN ExitFail ELSE LoopExit(loopErr)
    [] OTHER -> ExitFail

(* The deferred closes, SettleHeld last. *)
Exits ==
  /\ main = "close" /\ main' = "exited" /\ exitCode' = ExitOf(why)
  /\ IF ExitOf(why) = ExitFail THEN ReportHeld ELSE DropHeld
  /\ probes' = "down" /\ gateway' = IF gateway = "none" THEN "none" ELSE "down"
  /\ reconciling' = "none" /\ leaving' = "no"
  /\ UNCHANGED <<why, signaled, boots, loop, loopErr, ticked, bootFlags, bootWorld>>

(* The supervisor starts another, under the same or another configuration. *)
BootsAgain ==
  /\ main = "exited" /\ boots < MaxBoots /\ boots' = boots + 1
  /\ main' = "load" /\ why' = "none" /\ signaled' = FALSE /\ exitCode' = ExitOK
  /\ loop' = "none" /\ loopErr' = "none" /\ ticked' = FALSE /\ leaving' = "no"
  /\ reconciling' = "none" /\ gateway' = "none" /\ probes' = "none"
  /\ started' = FALSE /\ waiting' = FALSE /\ ready' = FALSE /\ draining' = FALSE
  /\ heldFinding' = "none" /\ reports' = 0
  /\ spawnKnown' \in BOOLEAN /\ WorldRecovered

-------------------------------------------------------------------------------
BootNext ==
  \/ LoadContent \/ LoadVerbs \/ OpenAccounts \/ OpenContentAdmin \/ StartIngress \/ StartRoster
  \/ StartTickLoop \/ HoldMismatch
  \/ \E base \in 0..Len(swapLog), zones \in BOOLEAN : ProduceSwap(base, zones)
  \/ ReconcileFails \/ ReconcileWaits \/ ReconcileServes
  \/ LoopSwaps \/ LoopTicks \/ LeaveWait
  \/ \E e \in {"nil", "lost", "fail"} : LoopEnds(e)
  \/ Signal \/ AwaitReconcile \/ Seed \/ CheckSpawn \/ NewGateway \/ StartGateway
  \/ MarkStarted \/ ServeProbes \/ Drain \/ GatewayShutdown \/ Halt \/ Exits \/ BootsAgain

BootSpec == BootInit /\ [][BootNext]_bootVars

-------------------------------------------------------------------------------
(* Properties. *)

BootTypeOK ==
  /\ main \in {"load", "verbs", "accounts", "admin", "ingress", "roster", "recover", "linger",
               "await", "seed", "check", "gateway", "listen", "mark", "unmarked",
               "marking", "serve", "drain", "draining", "drained", "halt", "close", "exited"}
  /\ {started, waiting, ready, draining, ticked, signaled} \subseteq BOOLEAN
  /\ leaving \in {"no", "leave", "left", "mark"}
  /\ consumed \in 0..Len(swapLog)
  /\ heldFinding \in {"none", "held", "settled"} /\ reports \in 0..1

(* /readyz *)
ReadyNow == ready /\ ticked

(* /readyz says what it means (MarkStarted, leaveWait, Drain): it answers 200  *)
(* only once the Gateway serves, over a World with the spawn Room; and once    *)
(* the server has started, waits for nothing and is not stopping, it does so.  *)
ReadyTruthful ==
  /\ ReadyNow => started /\ ~waiting /\ inEffect.zones /\ spawnKnown
  /\ main = "serve" /\ ~waiting /\ leaving = "no" => ready

(* The exit code and the held finding say how the process ended (run,          *)
(* SettleHeld, worldHadZones): 0 only after the loop drained with nothing      *)
(* lost, 5 only for a lost boundary; the empty store's finding is settled by   *)
(* then, and never reported by a process that came to wait or to serve; and a  *)
(* World is given up as lost only if it has ever had Zones.                    *)
ExitTruthful ==
  /\ main = "exited" =>
       /\ exitCode = ExitOK => loopErr = "nil" /\ gateway \in {"none", "down"}
       /\ exitCode = ExitBoundaryLost => loopErr = "lost"
       /\ heldFinding # "held"
  /\ waiting \/ started => reports = 0
  /\ reconciling = "lost" => everZones
================================================================================
