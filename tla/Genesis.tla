------------------------------ MODULE Genesis ------------------------------
(***************************************************************************)
(* The genesis swap of a World whose content is a directory                *)
(* (content.source=dir, server/content/load.go's dirContent): a boot that  *)
(* finds nothing in effect lets what an earlier process produced apply,    *)
(* prepares the directory, produces one swap and waits for it, while the   *)
(* tick loop applies the World Partition and the author edits the files.   *)
(* A process may die anywhere, with its swap still on its way to the log.  *)
(*                                                                         *)
(* A swap is the revision of the directory it was built from (its digest); *)
(* every genesis swap has an empty base.                                   *)
(***************************************************************************)
EXTENDS Naturals, Sequences

CONSTANTS DirRevs,       \* revision |-> its Zones, {} for one with findings
          MaxGenesis,    \* swaps ever produced
          MaxDirEdits,   \* edits of the directory
          MaxKills       \* process deaths

ASSUME GenesisAssumption ==
  /\ 0 \notin DOMAIN DirRevs
  /\ MaxGenesis \in Nat /\ MaxDirEdits \in Nat /\ MaxKills \in Nat

VARIABLES
  dir,       \* the revision on disk, and the edits so far
  genesisLog,   \* the World Partition
  inflight,  \* swaps produced whose append may still happen
  step,      \* the tick loop: offset, revision in effect (0: none), frozen
  dirState,  \* dirContent: inEffect, zones, and its two channels
  genesis,   \* where Reconcile is, and the digest it produced
  kills

genesisVars == <<dir, genesisLog, inflight, step, dirState, genesis, kills>>

Revs == DOMAIN DirRevs
Valid(rev) == DirRevs[rev] # {}
GenesisStages == {"down", "start", "barrier", "prepare", "produce", "settling", "waiting",
            "serving", "failed"}

GenesisTypeOK ==
  /\ dir \in [rev : Revs, edits : 0..MaxDirEdits]
  /\ genesisLog \in Seq(Revs) /\ Len(genesisLog) <= MaxGenesis
  /\ inflight \in SUBSET Revs
  /\ step \in [at : 0..MaxGenesis, rev : Revs \union {0}, frozen : BOOLEAN]
  /\ dirState \in [inEffect : BOOLEAN, zones : {{}} \union {DirRevs[r] : r \in Revs},
                   applied : BOOLEAN, refused : BOOLEAN]
  /\ genesis \in [pc : GenesisStages, digest : Revs \union {0}]
  /\ kills \in 0..MaxKills

Goes(pc) == genesis' = [genesis EXCEPT !.pc = pc]
Up == genesis.pc \notin {"down", "failed"}

----------------------------------------------------------------------------
(* The tick loop. *)

\* Every base accepted.
StaleNever(rev) == FALSE

\* prepareSwaps: with content in effect, a swap with an empty base is stale.
StaleBase(rev) == step.rev # 0

\* Prepare reads the directory as it is now and keeps its Zones, refused or
\* not; a digest that is not the record's, or a finding, refuses the Step.
Prepares(rev) == Valid(dir.rev) /\ dir.rev = rev

\* dirContent.Applied: in effect, and the first to be applied releases a
\* Reconcile that waits.
DirApplied(rev) ==
  [dirState EXCEPT !.inEffect = TRUE, !.applied = TRUE, !.zones = DirRevs[dir.rev]]

\* dirContent.Refused keeps one refusal that nobody has read.
DirRefused == [dirState EXCEPT !.refused = TRUE]

TickApplies ==
  LET rev == genesisLog[step.at + 1]
  IN /\ Up /\ ~step.frozen /\ step.at < Len(genesisLog)
     /\ CASE StaleBase(rev) ->
               /\ step' = [step EXCEPT !.at = @ + 1]
               /\ dirState' = DirRefused
          [] ~StaleBase(rev) /\ Prepares(rev) ->
               /\ step' = [step EXCEPT !.at = @ + 1, !.rev = rev]
               /\ dirState' = DirApplied(rev)
          [] OTHER ->
               /\ step' = [step EXCEPT !.frozen = TRUE]
               /\ dirState' = [dirState EXCEPT !.zones = DirRevs[dir.rev]]
     /\ UNCHANGED <<dir, genesisLog, inflight, genesis, kills>>

----------------------------------------------------------------------------
(* Reconcile. *)

\* Nothing to do when recovery has content in effect; else the barrier.
ReconcileBegins ==
  /\ genesis.pc = "start"
  /\ Goes(IF dirState.inEffect THEN "serving" ELSE "barrier")
  /\ UNCHANGED <<dir, genesisLog, inflight, step, dirState, kills>>

\* The loop has passed the end the World Partition had, or the barrier's time
\* is up before it has: either way what is in effect decides.
BarrierEnds ==
  /\ genesis.pc = "barrier"
  /\ Goes(IF dirState.inEffect THEN "serving" ELSE "prepare")
  /\ UNCHANGED <<dir, genesisLog, inflight, step, dirState, kills>>

ReconcilePrepares ==
  /\ genesis.pc = "prepare"
  /\ dirState' = [dirState EXCEPT !.zones = DirRevs[dir.rev]]
  /\ genesis' = [genesis EXCEPT !.pc = IF Valid(dir.rev) THEN "produce" ELSE "failed",
                                !.digest = dir.rev]
  /\ UNCHANGED <<dir, genesisLog, inflight, step, kills>>

\* ProduceSwap: logged, refused, or pending with an outcome to come.
ReconcileProduces ==
  /\ genesis.pc = "produce" /\ Len(genesisLog) < MaxGenesis
  /\ \/ genesisLog' = Append(genesisLog, genesis.digest) /\ Goes("waiting") /\ UNCHANGED inflight
     \/ Goes("failed") /\ UNCHANGED <<genesisLog, inflight>>
     \/ inflight' = inflight \union {genesis.digest} /\ Goes("settling")
        /\ UNCHANGED genesisLog
  /\ UNCHANGED <<dir, step, dirState, kills>>

\* A pending swap settles: failed for good, logged, or unknown, which is
\* waited for as if it were logged.
PendingSettles ==
  /\ genesis.pc = "settling"
  /\ \/ genesis.digest \in inflight /\ inflight' = inflight \ {genesis.digest} /\ Goes("failed")
     \/ genesis.digest \notin inflight /\ Goes("waiting") /\ UNCHANGED inflight
     \/ genesis.digest \in inflight /\ Goes("waiting") /\ UNCHANGED inflight
  /\ UNCHANGED <<dir, genesisLog, step, dirState, kills>>

\* The wait taken to have succeeded when its time is up.
WaitEndsAnyway ==
  /\ genesis.pc = "waiting" /\ Goes("serving")
  /\ UNCHANGED <<dir, genesisLog, inflight, step, dirState, kills>>

\* The select of the last wait: whichever is ready.
GenesisWaitEnds ==
  /\ genesis.pc = "waiting"
  /\ \/ dirState.applied /\ Goes("serving") /\ UNCHANGED dirState
     \/ dirState.refused /\ Goes("failed")
        /\ dirState' = [dirState EXCEPT !.refused = FALSE]
     \/ Goes("failed") /\ UNCHANGED dirState
  /\ UNCHANGED <<dir, genesisLog, inflight, step, kills>>

----------------------------------------------------------------------------
(* The broker, the author, and the process. *)

InflightLands(rev) ==
  /\ rev \in inflight /\ Len(genesisLog) < MaxGenesis
  /\ inflight' = inflight \ {rev}
  /\ genesisLog' = Append(genesisLog, rev)
  /\ UNCHANGED <<dir, step, dirState, genesis, kills>>

InflightLost(rev) ==
  /\ rev \in inflight /\ genesis.pc = "down"
  /\ inflight' = inflight \ {rev}
  /\ UNCHANGED <<dir, genesisLog, step, dirState, genesis, kills>>

EditDir(rev) ==
  /\ dir.edits < MaxDirEdits /\ rev # dir.rev
  /\ dir' = [rev |-> rev, edits |-> dir.edits + 1]
  /\ UNCHANGED <<genesisLog, inflight, step, dirState, genesis, kills>>

Kill ==
  /\ kills < MaxKills /\ genesis.pc # "down"
  /\ kills' = kills + 1 /\ Goes("down")
  /\ UNCHANGED <<dir, genesisLog, inflight, step, dirState>>

\* Boot: recovery replays the World Partition up to a boundary the dead
\* process delivered, with the directory as it is now; one that does not build
\* what the log records ends the boot.
BootDir(upTo) ==
  LET rev == IF upTo = 0 THEN 0 ELSE genesisLog[1]
      fits == upTo = 0 \/ Prepares(rev)
  IN /\ genesis.pc = "down" /\ upTo \in 0..step.at
     /\ step' = [at |-> upTo, rev |-> IF fits THEN rev ELSE 0, frozen |-> FALSE]
     /\ dirState' = [inEffect |-> fits /\ upTo > 0, applied |-> fits /\ upTo > 0,
                     zones |-> IF upTo > 0 THEN DirRevs[dir.rev] ELSE {},
                     refused |-> FALSE]
     /\ genesis' = [pc |-> IF fits THEN "start" ELSE "failed", digest |-> 0]
     /\ UNCHANGED <<dir, genesisLog, inflight, kills>>

GenesisInit ==
  /\ dir \in [rev : {r \in Revs : Valid(r)}, edits : {0}]
  /\ genesisLog = <<>> /\ inflight = {}
  /\ step = [at |-> 0, rev |-> 0, frozen |-> FALSE]
  /\ dirState = [inEffect |-> FALSE, zones |-> {}, applied |-> FALSE, refused |-> FALSE]
  /\ genesis = [pc |-> "down", digest |-> 0]
  /\ kills = 0

GenesisNext ==
  \/ TickApplies
  \/ ReconcileBegins \/ BarrierEnds \/ ReconcilePrepares \/ ReconcileProduces
  \/ PendingSettles \/ GenesisWaitEnds
  \/ \E rev \in Revs : InflightLands(rev) \/ InflightLost(rev) \/ EditDir(rev)
  \/ Kill \/ \E upTo \in 0..MaxGenesis : BootDir(upTo)

GenesisSpec == GenesisInit /\ [][GenesisNext]_genesisVars

----------------------------------------------------------------------------
(* Properties. *)

\* A World has one genesis: what is in effect is what the first swap of the
\* World Partition recorded, however many boots produced one because the
\* barrier ran out or an earlier swap landed late, and whatever the directory
\* holds by now.
OneGenesis == step.rev # 0 => step.rev = genesisLog[1]

\* A boot that reports its content served has it in effect in the Engine, of
\* the revision its own Zones are reported from unless the files were edited
\* since: no swap of unknown outcome, and none refused, is taken for applied.
ServedIsInEffect ==
  genesis.pc = "serving" =>
    /\ dirState.inEffect /\ step.rev # 0
    /\ dir.edits = 0 => dirState.zones = DirRevs[step.rev]
============================================================================
