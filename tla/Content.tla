-------------------------------- MODULE Content --------------------------------
(******************************************************************************)
(* Content, from a published version to the World in effect: the registry and *)
(* its publish path (server/content/registry.go, admin.go, coreboot.go), the  *)
(* Loader that follows the Active Pointers and brings each version into       *)
(* effect through a ContentSwap on the World Partition (loader.go, load.go),  *)
(* and the Engine's half of a swap (server/sim/content.go).                   *)
(*                                                                            *)
(* Two packs: core, which the server publishes at boot, and one Builder pack, *)
(* each of whose versions is compiled against a core version (its pin).       *)
(* Every version's content differs from every other's, so a digest of the     *)
(* World is the versions it was built from.  What a version's own text is     *)
(* refused for is left out.  Two goroutines load: the one that boots and then *)
(* follows the pointers, and a ReloadContent call's.                          *)
(******************************************************************************)
EXTENDS Integers, Sequences, FiniteSets

CONSTANTS
  MaxCore,      \* bound: core versions the builds carry
  MaxVersions,  \* bound: Builder pack versions published
  MaxMoves,     \* bound: pointer moves
  MaxSwaps,     \* bound: swaps in the log
  MaxRestarts,  \* bound: process restarts
  MaxContentFaults     \* bound: failed or unsettled reads and produces, timed out waits, reloads

Packs == {"core", "game"}
Loaders == {"follow", "reload"}
NoVersions == [p \in Packs |-> 0]

ASSUME ContentAssumption ==
  /\ {MaxCore, MaxVersions} \subseteq Nat \ {0}
  /\ {MaxMoves, MaxSwaps, MaxRestarts, MaxContentFaults} \subseteq Nat

VARIABLES
  pins,       \* Registry.manifests of the Builder pack: each version's core_version
  cores,      \* Registry.manifests of core: the versions published
  pointer,    \* the Active Pointers
  coreMover,  \* ActivatedBy of core's: "server" or "account"
  activating, \* ActivateVersion calls past their checks, the pointer not moved
  moves,      \* pointer records past the watch's pinned position, unread
  mode,       \* the process: "boot", "reconcile", "serve", "follow" or "down"
  bootCore,   \* CoreBoot.Active: core's active version when this process booted
  serving,    \* Loader.serving, which its digest goes with
  held,       \* Loader.held of the Builder pack, 0 for none
  startRetries, pending, retries,   \* Loader.startRetries, and Follow's own maps
  outlived,   \* history: a Builder version is retried, or was, beside a newer move already read
  loader,     \* a goroutine's batch and the load it is in
  swaps,      \* the ContentSwaps of the World Partition
  position,   \* how many of them the Engine has consumed
  effect,     \* Engine.versions
  world,      \* the versions Engine.world was built from
  outcome,    \* the tick's SwapApplied or SwapRefused, the Loader not told yet
  refused,    \* the version of each pack last rejected and not retried
  used        \* how much of each bound is used

contentVars == <<pins, cores, pointer, coreMover, activating, moves, mode, bootCore, serving,
  held, startRetries, pending, retries, outlived, loader, swaps, position, effect, world, outcome, refused, used>>
storeVars == <<pins, cores, pointer, coreMover, activating, moves>>
followVars == <<startRetries, pending, retries, outlived>>
engineVars == <<position, effect, world, outcome>>

IdleLoad == [stage |-> "idle", attempt |-> 0, verdict |-> "none", base |-> NoVersions]
NoLoader == [todo |-> <<>>, load |-> IdleLoad]
NoOutcome == [pack |-> "none", version |-> 0, result |-> "none"]
Task(p, v, moved) == [pack |-> p, version |-> v, moved |-> moved]

Uses(bound, max) == used[bound] < max /\ used' = [used EXCEPT ![bound] = @ + 1]
CanFault == used["failures"] + used["disturbances"] < MaxContentFaults
Unanswered == CanFault /\ used' = [used EXCEPT !["failures"] = @ + 1]
Disturbs == CanFault /\ used' = [used EXCEPT !["disturbances"] = @ + 1]

(* The first boot of a build whose core is version 1, on an empty store. *)
ContentInit ==
  /\ pins = <<>> /\ cores = {} /\ pointer = NoVersions /\ coreMover = "server"
  /\ activating = {} /\ moves = <<>> /\ mode = "boot" /\ bootCore = 0
  /\ serving = NoVersions /\ held = 0
  /\ startRetries = NoVersions /\ pending = NoVersions /\ retries = NoVersions /\ outlived = FALSE
  /\ loader = [w \in Loaders |-> NoLoader]
  /\ swaps = <<>> /\ position = 0 /\ effect = NoVersions /\ world = NoVersions
  /\ outcome = NoOutcome /\ refused = NoVersions
  /\ used = [b \in {"moves", "restarts", "failures", "disturbances"} |-> 0]

(* ------------------------------- the registry ------------------------------ *)

Pin(p, v) == IF p = "core" \/ v = 0 THEN 0 ELSE pins[v]

(* PublishVersion: Registry.Publish gives the next version to a publish whose *)
(* parent is still the newest.  The publish gate judges the version on its    *)
(* own, so one that wants a newer core is published.                          *)
PublishVersion ==
  /\ mode \in {"serve", "follow"} /\ Len(pins) < MaxVersions
  /\ \E pin \in cores : pins' = Append(pins, pin)
  /\ UNCHANGED <<cores, pointer, coreMover, activating, moves, mode, bootCore, serving, held,
                 followVars, loader, swaps, engineVars, refused, used>>

Moved(p, v) ==
  /\ pointer' = [pointer EXCEPT ![p] = v]
  /\ moves' = Append(moves, [pack |-> p, version |-> v])

(* BootCore: publish this build's core if the store lacks it, and activate it *)
(* if nothing is active or the server itself activated an older one.          *)
BootCore(build) ==
  LET move == pointer["core"] = 0 \/ (pointer["core"] < build /\ coreMover = "server")
  IN  /\ mode = "boot" /\ mode' = "reconcile"
      /\ cores' = cores \cup {build}
      /\ IF move THEN Moved("core", build) /\ bootCore' = build
                 ELSE UNCHANGED <<pointer, moves>> /\ bootCore' = pointer["core"]
      /\ UNCHANGED <<pins, coreMover, activating, serving, held, followVars, loader, swaps,
                     engineVars, refused, used>>

(* -------------------------- what the Loader accepts ------------------------ *)

Skewed(p, v, base) == p = "game" /\ base["core"] # 0 /\ Pin(p, v) > base["core"]
Stranded(p, v, base) == p = "core" /\ Pin("game", base["game"]) > v
(* build: the World that version and the rest of base make. *)
Build(p, v, base) == [base EXCEPT ![p] = v]
Accepts(p, v, base) == ~Skewed(p, v, base) /\ ~Stranded(p, v, base)

(* ActivateVersion checks the version against the World in effect; the pointer *)
(* moves later, with no lock held between.  Who approved it, or overrode, is  *)
(* not modelled.                                                              *)
CheckActivation(p, v) ==
  /\ mode \in {"serve", "follow"} /\ activating = {} /\ v # pointer[p]
  /\ IF p = "core" THEN v \in cores ELSE v \in DOMAIN pins
  /\ Accepts(p, v, serving)
  /\ activating' = {[pack |-> p, version |-> v]} /\ Uses("moves", MaxMoves)
  /\ UNCHANGED <<pins, cores, pointer, coreMover, moves, mode, bootCore, serving, held,
                 followVars, loader, swaps, engineVars, refused>>

MovePointer(a) ==
  /\ activating' = activating \ {a}
  /\ Moved(a.pack, a.version)
  /\ coreMover' = IF a.pack = "core" THEN "account" ELSE coreMover
  /\ UNCHANGED <<pins, cores, mode, bootCore, serving, held, followVars, loader, swaps,
                 engineVars, refused, used>>

(* ------------------------------ one load ----------------------------------- *)

Loads(w) == Head(loader[w].todo)

(* Loader.load and Apply return: on to the next of the batch.  A core move    *)
(* that Follow applied first retries the version held for core skew.          *)
After(w, h) ==
  LET t == Loads(w)
      release == IF t.moved /\ t.pack = "core" /\ h # 0 THEN <<Task("game", h, FALSE)>> ELSE <<>>
  IN  [todo |-> release \o Tail(loader[w].todo), load |-> IdleLoad]
Returns(w) == loader' = [loader EXCEPT ![w] = After(w, held')]

(* reject for a reason the store or the log gave: tried again.  Follow keeps  *)
(* its own retries; a reconcile leaves them for Follow to start with.         *)
RejectRetried(w) ==
  LET t == Loads(w) IN
  /\ IF w = "follow" /\ mode = "follow"
       THEN retries' = [retries EXCEPT ![t.pack] = t.version] /\ UNCHANGED startRetries
       ELSE startRetries' = [startRetries EXCEPT ![t.pack] = t.version] /\ UNCHANGED retries
  /\ outlived' = (outlived \/ (t.pack = "game" /\ pending["game"] # 0))
  /\ UNCHANGED <<pending, refused>>

Loading(w, stage) == loader[w].todo # <<>> /\ loader[w].load.stage = stage
Unmoved == UNCHANGED <<storeVars, mode, bootCore, serving>>

(* load: pack@version is serving already. *)
LoadSettled(w) ==
  /\ Loading(w, "idle") /\ serving[Loads(w).pack] = Loads(w).version
  /\ UNCHANGED <<held, refused, followVars, used>> /\ Returns(w)
  /\ Unmoved /\ UNCHANGED <<swaps, engineVars>>

(* loadOnce: resolving the version reads the store, which may not answer. *)
LoadUnreadable(w) ==
  /\ Loading(w, "idle") /\ serving[Loads(w).pack] # Loads(w).version
  /\ Unanswered /\ UNCHANGED held
  /\ RejectRetried(w) /\ Returns(w)
  /\ Unmoved /\ UNCHANGED <<swaps, engineVars>>

(* evaluate refuses the version: one that wants a newer core is held for it.  *)
LoadRefused(w) ==
  LET t == Loads(w) IN
  /\ Loading(w, "idle") /\ serving[t.pack] # t.version /\ ~Accepts(t.pack, t.version, serving)
  /\ IF Skewed(t.pack, t.version, serving)
       THEN held' = t.version /\ UNCHANGED refused
       ELSE refused' = [refused EXCEPT ![t.pack] = t.version] /\ UNCHANGED held
  /\ UNCHANGED <<followVars, used>> /\ Returns(w)
  /\ Unmoved /\ UNCHANGED <<swaps, engineVars>>

(* evaluate accepts it: the World is built on a snapshot of what is serving.  *)
Evaluate(w) ==
  LET t == Loads(w) IN
  /\ Loading(w, "idle") /\ serving[t.pack] # t.version /\ Accepts(t.pack, t.version, serving)
  /\ loader' = [loader EXCEPT ![w].load.stage = "built", ![w].load.base = serving]
  /\ Unmoved /\ UNCHANGED <<held, refused, followVars, used, swaps, engineVars>>

(* Then it is staged under, and the swap based on, what is serving now.  The  *)
(* produce is acknowledged, fails, or does not settle, written or not.        *)
SwapOf(w) ==
  LET t == Loads(w) IN
  [pack |-> t.pack, version |-> t.version, base |-> serving,
   built |-> Build(t.pack, t.version, loader[w].load.base)]
Produced(w) ==
  /\ Loading(w, "built") /\ Len(swaps) < MaxSwaps
  /\ swaps' = Append(swaps, SwapOf(w))
  /\ \/ UNCHANGED used /\ loader' = [loader EXCEPT ![w].load.stage = "applying"]
     \/ Unanswered /\ loader' = [loader EXCEPT ![w].load.stage = "unknown"]
  /\ Unmoved /\ UNCHANGED <<held, refused, followVars, engineVars>>
NotProduced(w) ==
  /\ Loading(w, "built") /\ Unanswered
  /\ \/ UNCHANGED held /\ RejectRetried(w) /\ Returns(w)
     \/ UNCHANGED <<held, refused, followVars>>
        /\ loader' = [loader EXCEPT ![w].load.stage = "unknown"]
  /\ Unmoved /\ UNCHANGED <<swaps, engineVars>>

Consumed == position = Len(swaps) /\ outcome = NoOutcome

(* The Engine answered this load: in effect, or refused.  A stale swap is     *)
(* evaluated again, three times in all.                                       *)
StaleRetries == 3
Answered(w) ==
  LET l == loader[w].load
      again == l.verdict = "stale" /\ l.attempt + 1 < StaleRetries
  IN  /\ Loading(w, "applying") \/ (Loading(w, "unknown") /\ Consumed)
      /\ l.verdict # "none"
      /\ UNCHANGED <<held, used>>
      /\ CASE again -> /\ loader' = [loader EXCEPT ![w].load = [IdleLoad EXCEPT !.attempt = l.attempt + 1]]
                       /\ UNCHANGED <<followVars, refused>>
           [] l.verdict = "stale" /\ ~again -> RejectRetried(w) /\ Returns(w)
           [] OTHER -> Returns(w) /\ UNCHANGED <<followVars, refused>>
      /\ Unmoved /\ UNCHANGED <<swaps, engineVars>>

(* A produce of unknown outcome that the World Partition turned out not to    *)
(* hold: tried again.                                                         *)
NeverWritten(w) ==
  /\ Loading(w, "unknown") /\ Consumed /\ loader[w].load.verdict = "none"
  /\ UNCHANGED <<held, used>> /\ RejectRetried(w) /\ Returns(w)
  /\ Unmoved /\ UNCHANGED <<swaps, engineVars>>

(* applyWait ends first: the swap may apply later, with nobody waiting. *)
WaitEnds(w) ==
  /\ \E stage \in {"applying", "unknown"} : Loading(w, stage)
  /\ loader[w].load.verdict = "none" /\ Disturbs
  /\ UNCHANGED held /\ RejectRetried(w) /\ Returns(w)
  /\ Unmoved /\ UNCHANGED <<swaps, engineVars>>

(* ------------------------------- the Engine -------------------------------- *)

(* Prepare: the topology the Loader staged with the swap.  (One that an       *)
(* earlier process staged is built again, and the tick halts if it differs.)  *)
Prepare(s) == s.built
(* prepareSwaps and applySwap of the next swap. *)
Verdict(s) == IF s.base = effect THEN "applied" ELSE "stale"
StepSwap ==
  LET s == swaps[position + 1] IN
  /\ mode # "down" /\ mode # "boot" /\ position < Len(swaps) /\ outcome = NoOutcome
  /\ position' = position + 1
  /\ outcome' = [pack |-> s.pack, version |-> s.version, result |-> Verdict(s)]
  /\ IF Verdict(s) = "applied"
       THEN effect' = [effect EXCEPT ![s.pack] = s.version] /\ world' = Prepare(s)
       ELSE UNCHANGED <<effect, world>>
  /\ Unmoved /\ UNCHANGED <<held, refused, followVars, loader, swaps, used>>

(* Loader.Applied and Refused: whoever waits on pack@version is told. *)
Told(w) ==
  IF /\ loader[w].todo # <<>> /\ loader[w].load.stage \in {"applying", "unknown"}
     /\ Loads(w).pack = outcome.pack /\ Loads(w).version = outcome.version
     /\ loader[w].load.verdict = "none"
    THEN [loader[w] EXCEPT !.load.verdict = outcome.result]
    ELSE loader[w]
Report ==
  /\ outcome # NoOutcome /\ outcome' = NoOutcome
  /\ loader' = [w \in Loaders |-> Told(w)]
  /\ IF outcome.result = "applied"
       THEN /\ serving' = [serving EXCEPT ![outcome.pack] = outcome.version]
            /\ held' = IF outcome.pack = "game" THEN 0 ELSE held
       ELSE UNCHANGED <<serving, held>>
  /\ UNCHANGED <<storeVars, mode, bootCore, refused, followVars, swaps, position, effect, world, used>>

(* ------------------------- boot, reconcile and Follow ---------------------- *)

Batch(versions, moved) ==
  LET of(p) == IF versions[p] = 0 THEN <<>> ELSE <<Task(p, versions[p], moved)>>
  IN  of("core") \o of("game")
Idle(w) == loader[w].todo = <<>>

(* Store.Active: the newest pointer record of each pack. *)
Active == pointer
(* LoadAll: once the World Partition is consumed past its end, every pack is  *)
(* loaded at its Active Pointer, core first.                                  *)
BarrierSkipped == TRUE   \* mutated
BarrierPassed == Consumed
LoadAll(w) ==
  /\ BarrierPassed
  /\ loader' = [loader EXCEPT ![w].todo = Batch(Active, FALSE)]
  /\ UNCHANGED startRetries
(* A partition that does not catch up in time: every pack not at its pointer  *)
(* is left to Follow's retries.                                               *)
BarrierTimesOut ==
  /\ ~Consumed
  /\ startRetries' = [p \in Packs |-> IF Active[p] # serving[p] THEN Active[p] ELSE startRetries[p]]
  /\ UNCHANGED loader

Reconcile ==
  /\ mode = "reconcile"
  /\ \/ LoadAll("follow") /\ mode' = "loading" /\ UNCHANGED used
     \/ BarrierTimesOut /\ Disturbs /\ mode' = "loading"
  /\ UNCHANGED <<storeVars, bootCore, serving, held, refused, pending, retries, outlived, swaps, engineVars>>

(* ReconcileContent ends: the server serves, unless core is not in effect. *)
Serve ==
  /\ mode = "loading" /\ Idle("follow")
  /\ mode' = IF serving["core"] = bootCore THEN "serve" ELSE "down"
  /\ UNCHANGED <<storeVars, bootCore, serving, held, refused, followVars, loader, swaps, engineVars, used>>

(* Mutated: the watch starts at the topic's end, as it does with nothing      *)
(* pinned.                                                                    *)
StartFollowUnpinned ==
  /\ mode = "serve" /\ mode' = "follow" /\ moves' = <<>>
  /\ retries' = startRetries /\ startRetries' = NoVersions
  /\ UNCHANGED <<pins, cores, pointer, coreMover, activating, bootCore, serving, held, refused,
                 pending, outlived, loader, swaps, engineVars, used>>
(* Follow starts from the pinned position, with what reconcile left to retry. *)
StartFollow ==
  /\ mode = "serve" /\ mode' = "follow"
  /\ retries' = startRetries /\ startRetries' = NoVersions
  /\ UNCHANGED <<storeVars, bootCore, serving, held, refused, pending, outlived, loader, swaps, engineVars, used>>

(* Watch delivers the pointer records from the pinned position on, in order. *)
Watched == Head(moves)
(* Follow reads a move: it waits for the debounce, and replaces a retry,      *)
(* after which nothing older of the pack is left to try.                      *)
ReadMove ==
  /\ mode = "follow" /\ Idle("follow") /\ moves # <<>>
  /\ moves' = Tail(moves)
  /\ pending' = [pending EXCEPT ![Watched.pack] = Watched.version]
  /\ retries' = [retries EXCEPT ![Watched.pack] = 0]
  /\ outlived' = (outlived /\ Watched.pack # "game")
  /\ UNCHANGED <<pins, cores, pointer, coreMover, activating, mode, bootCore, serving, held,
                 refused, startRetries, loader, swaps, engineVars, used>>

(* A batch is applied core first; a held version it replaces is dropped. *)
ApplyBatch(batch) ==
  /\ mode = "follow" /\ Idle("follow") /\ batch # NoVersions
  /\ loader' = [loader EXCEPT !["follow"].todo = Batch(batch, TRUE)]
  /\ held' = IF batch["game"] \notin {0, held} THEN 0 ELSE held
  /\ UNCHANGED <<storeVars, mode, bootCore, serving, refused, startRetries, outlived, swaps, engineVars, used>>
Debounced == ApplyBatch(pending) /\ pending' = NoVersions /\ UNCHANGED retries
RetryDue(due) ==
  /\ ApplyBatch([p \in Packs |-> IF p \in due THEN retries[p] ELSE 0])
  /\ retries' = [p \in Packs |-> IF p \in due THEN 0 ELSE retries[p]]
  /\ UNCHANGED pending

(* ReloadContent: a reconcile beside Follow. *)
ReloadContent ==
  /\ mode \in {"serve", "follow"} /\ Idle("reload") /\ Disturbs
  /\ LoadAll("reload") \/ BarrierTimesOut
  /\ UNCHANGED <<storeVars, mode, bootCore, serving, held, refused, pending, retries, outlived, swaps, engineVars>>

(* The process dies and a new one boots: recovery replays the swaps the last  *)
(* boundary covers, and the watch is pinned at the pointer topic's end.       *)
Restart ==
  /\ mode # "boot" /\ Uses("restarts", MaxRestarts)
  /\ mode' = "boot" /\ serving' = effect /\ outcome' = NoOutcome
  /\ activating' = {} /\ moves' = <<>> /\ held' = 0 /\ refused' = NoVersions
  /\ startRetries' = NoVersions /\ pending' = NoVersions /\ retries' = NoVersions /\ outlived' = FALSE
  /\ loader' = [w \in Loaders |-> NoLoader]
  /\ UNCHANGED <<pins, cores, pointer, coreMover, bootCore, swaps, position, effect, world>>

LoadStep(w) ==
  \/ LoadSettled(w) \/ LoadUnreadable(w) \/ LoadRefused(w) \/ Evaluate(w)
  \/ Produced(w) \/ NotProduced(w) \/ Answered(w) \/ NeverWritten(w) \/ WaitEnds(w)
ContentNext ==
  \/ PublishVersion
  \/ \E p \in Packs, v \in 1..(MaxCore + MaxVersions) : CheckActivation(p, v)
  \/ \E a \in activating : MovePointer(a)
  \/ \E build \in 1..MaxCore : BootCore(build)
  \/ \E w \in Loaders : LoadStep(w)
  \/ StepSwap \/ Report
  \/ Reconcile \/ Serve \/ StartFollow \/ ReadMove \/ Debounced
  \/ \E due \in SUBSET Packs : RetryDue(due)
  \/ ReloadContent \/ Restart

ContentSpec == ContentInit /\ [][ContentNext]_contentVars

(* ------------------------------- properties -------------------------------- *)

(* Every variable keeps its shape, and the Engine never consumes past the     *)
(* log: the registry, the Loader's maps and the swaps of loader.go.           *)
ContentTypeOK ==
  /\ pins \in Seq(1..MaxCore)
  /\ cores \subseteq 1..MaxCore
  /\ mode \in {"boot", "reconcile", "loading", "serve", "follow", "down"}
  /\ \A f \in {pointer, serving, effect, world, refused, startRetries, pending, retries} :
       f["core"] \in 0..MaxCore /\ f["game"] \in 0..Len(pins)
  /\ held \in 0..Len(pins) /\ position \in 0..Len(swaps)
  /\ \A w \in Loaders : loader[w].load.stage \in {"idle", "built", "applying", "unknown"}

(* No wait for the World Partition has ended unanswered, and no ReloadContent *)
(* has run beside Follow: one load at a time, each told what became of it.    *)
Undisturbed == used["disturbances"] = 0

(* What is in effect is what its versions say: the World was built from the   *)
(* versions in effect, so a replay of the log builds the same one, and no     *)
(* Builder pack serves on a core older than the one it was compiled against   *)
(* (loader.go evaluate, the base and staging of loadOnce; sim/content.go).    *)
EffectCoherent ==
  /\ world = effect
  /\ effect["core"] # 0 => Pin("game", effect["game"]) <= effect["core"]
CoherentUndisturbed == Undisturbed => EffectCoherent

(* Nothing is forgotten: once the Loader has read every move and has nothing  *)
(* left to do, a pack serves what its Active Pointer names, or that version   *)
(* was refused for what it is, or it is held for a core still too old         *)
(* (loader.go Follow, Apply, releaseHeld; load.go Pin).  Two cases are left   *)
(* out.  In one, a wait for the World Partition ran out or ReloadContent ran  *)
(* beside Follow (Undisturbed).  In the other, since the last move of the     *)
(* Builder pack was read, an older version of it, released by a core move,    *)
(* failed and went back to the retries (outlived): NewestMoveServed is that.  *)
LoaderQuiet ==
  /\ Undisturbed /\ mode = "follow" /\ moves = <<>> /\ Consumed
  /\ pending = NoVersions /\ retries = NoVersions /\ \A w \in Loaders : Idle(w)
PointerServed(p) ==
  \/ pointer[p] \in {0, serving[p], refused[p]}
  \/ p = "game" /\ held = pointer[p] /\ Skewed(p, held, serving)
PointersServed == LoaderQuiet => PointerServed("core") /\ (outlived \/ PointerServed("game"))

(* Without the second exception: "A newer move supersedes a retry of the      *)
(* version it replaces" (loader.go:1361).                                     *)
NewestMoveServed == LoaderQuiet => \A p \in Packs : PointerServed(p)
================================================================================
