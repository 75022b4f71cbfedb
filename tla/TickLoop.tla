-------------------------------- MODULE TickLoop --------------------------------
(******************************************************************************)
(* The tick loop, its checkpoints, the snapshot rounds and recovery           *)
(* (server/tickloop loop.go and snapshot.go, sim.Engine's Step and Replay,    *)
(* server/recovery, the round selection of server/store).  The publication of *)
(* boundaries is what BoundaryLog promises, which BoundarySeq implements.     *)
(*                                                                            *)
(* Step is a function of the World and of the batch, so a World is its        *)
(* history: what every tick so far did.  Two Worlds have the same State Hash  *)
(* when they have the same history.  Each Partition holds one Zone.  A record *)
(* whose handler panics is in Poison.                                         *)
(*                                                                            *)
(* Three goroutines take the steps: the loop (a tick is two steps, so that    *)
(* what becomes of a boundary can be reported between its publication and its *)
(* checkpoint), the producer's promises and the round being written.          *)
(******************************************************************************)
EXTENDS Integers, Sequences, FiniteSets, FiniteSetsExt

CONSTANTS
  NumPartitions,    \* the Partitions this process owns are 1..NumPartitions
  MaxRecords,       \* bound: Commands logged to each Partition
  Poison,           \* <<Partition, offset>> of the records that panic
  CheckpointEvery,  \* sim.checkpoint_every_ticks
  MaxTick,          \* bound: the last tick
  MaxRestarts       \* bound: how often the process is started again

ASSUME TickLoopAssumption ==
  /\ NumPartitions \in Nat \ {0} /\ MaxRecords \in Nat
  /\ Poison \subseteq (1..NumPartitions) \X Nat
  /\ CheckpointEvery \in Nat \ {0} /\ MaxTick \in Nat /\ MaxRestarts \in Nat

Partitions == 1..NumPartitions

VARIABLES
  phase,      \* of the process: see Phases
  world,      \* the Engine's World
  published,  \* Loop.published: the newest tick whose boundary was taken; 0: none
  pending,    \* Loop.pending: ticks whose checkpoint waits for their boundary
  acked,      \* the newest boundary reported delivered; 0: none
  lostTick,   \* the boundary reported lost; 0: none
  base,       \* the tick this process started at
  forced,     \* Snapshotter.forced: a round is asked for
  round,      \* the round in flight: see Rounds
  copy,       \* the World it copied
  left,       \* the Zones whose object it has yet to put
  committed,  \* external: the offsets committed under the consumer group
  topic,      \* external: the boundaries, each with the World it is the hash of
  objects,    \* external: the snapshot store
  restarts

lost == lostTick # 0

(* "ticked": a tick is applied and published and not yet finished. *)
Phases == {"up", "ticked", "draining", "down", "refused"}
Rounds == {"none", "waiting", "writing"}

boundaryVars == <<acked, lostTick, base, topic>>
roundVars == <<round, copy, left, objects>>
loopVars == <<world, published, pending, committed>>
vars == <<phase, loopVars, boundaryVars, forced, roundVars, restarts>>

Log == INSTANCE BoundaryLog WITH delivered <- Len(topic)

Start == [p \in Partitions |-> 0]
Offsets(w) == IF w = <<>> THEN Start ELSE w[Len(w)].offsets
Faulted(w) == IF w = <<>> THEN {} ELSE w[Len(w)].faulted

Init ==
  /\ phase = "up" /\ world = <<>>
  /\ published = 0 /\ pending = <<>> /\ acked = 0 /\ lostTick = 0 /\ base = 0
  /\ forced = FALSE
  /\ round = "none" /\ copy = <<>> /\ left = {}
  /\ committed = [tick |-> 0, offsets |-> Start]
  /\ topic = <<>> /\ objects = {}
  /\ restarts = 0

--------------------------------------------------------------------------------
(* Poll: what each Partition not frozen has fetched so far, up to the budget; *)
(* nothing when the source is starved.                                        *)
Batches(w) ==
  {to \in [Partitions -> 0..MaxRecords] :
     \A p \in Partitions :
       /\ Offsets(w)[p] <= to[p]
       /\ p \in Faulted(w) => to[p] = Offsets(w)[p]}

Panics(w, to, p) == {n \in Offsets(w)[p]..(to[p] - 1) : <<p, n>> \in Poison}

(* Step: a Partition's records are applied in order up to one that panics; its *)
(* offset stops there, its Zone is faulted, and the rest is requeued.          *)
Step(w, to) ==
  Append(w,
    [offsets |-> [p \in Partitions |->
                    IF Panics(w, to, p) = {} THEN to[p] ELSE Min(Panics(w, to, p))],
     faulted |-> Faulted(w) \cup {p \in Partitions : Panics(w, to, p) # {}}])

(* tick, first half: poll, Step, Publish.  After a loss Publish refuses. *)
TickStep ==
  /\ phase = "up"
  /\ Len(world) < (IF lost THEN MaxTick + 1 ELSE MaxTick)
  /\ \E to \in Batches(world) : world' = Step(world, to)
  /\ published' = IF lost THEN published ELSE Len(world')
  /\ phase' = "ticked"
  /\ UNCHANGED <<pending, committed, boundaryVars, forced, roundVars, restarts>>

(* Mutant: a checkpoint waits only for its boundary to be handed over. *)
CapPublished == published

(* commitAcked's limit: the newest delivered boundary, below a lost one. *)
Cap == IF lost /\ acked >= lostTick THEN lostTick - 1 ELSE acked

(* commitAcked: the newest tick of p at or below the cap is committed, or the *)
(* commit fails; it and the older ones are no longer held.                    *)
Ready(p) == Cardinality({i \in 1..Len(p) : p[i] <= Cap})
Held(p) == SubSeq(p, Ready(p) + 1, Len(p))

CommitAcked(p) ==
  \/ UNCHANGED committed
  \/ /\ Ready(p) > 0
     /\ LET t == p[Ready(p)]
        IN  committed' = [tick |-> t, offsets |-> Offsets(SubSeq(world, 1, t))]

(* The tick t is held unless it is already. *)
Hold(p, t) == IF p # <<>> /\ p[Len(p)] >= t THEN p ELSE Append(p, t)

(* The boundary of the tick just applied was published. *)
Published == published = Len(world)

(* Snapshotter.start: the copy is taken on the loop's goroutine. *)
StartRound ==
  /\ round = "none"
  /\ round' = "waiting" /\ copy' = world /\ left' = Partitions

(* Maybe: a round that was asked for is taken at this boundary unless one is *)
(* in flight, and its tick is held for a checkpoint; else one may be due.     *)
(* Skip: none where the boundary was not published.                           *)
MaybeSnapshot(p) ==
  \/ /\ Published /\ forced
     /\ StartRound
     /\ forced' = FALSE
     /\ pending' = Hold(p, Len(world))
  \/ /\ Published /\ ~forced
     /\ StartRound
     /\ UNCHANGED forced
     /\ pending' = p
  \/ /\ ~(Published /\ forced /\ round = "none")
     /\ UNCHANGED <<round, copy, left, forced>>
     /\ pending' = p

(* Mutant: a checkpoint is held whether or not its boundary was published. *)
HoldDueAlways ==
  IF Len(world) % CheckpointEvery = 0 THEN Append(pending, Len(world)) ELSE pending

(* A published boundary is held for a checkpoint every CheckpointEvery ticks. *)
HoldDue ==
  IF Published /\ Len(world) % CheckpointEvery = 0 THEN Append(pending, Len(world)) ELSE pending

(* Mutant: the loop finishes its tick without looking for a loss. *)
TickFinishBlind ==
  /\ phase = "ticked"
  /\ CommitAcked(HoldDue) /\ MaybeSnapshot(Held(HoldDue))
  /\ phase' = "up"
  /\ UNCHANGED <<world, published, boundaryVars, objects, restarts>>

(* tick, second half: checkpoints, the snapshot, and the end on a loss.  The  *)
(* code reads the loss a few lines before the commit; one reported in between *)
(* is one reported after this step, since no acknowledgement follows it.      *)
TickFinish ==
  /\ phase = "ticked"
  /\ CommitAcked(HoldDue) /\ MaybeSnapshot(Held(HoldDue))
  /\ phase' = IF lost THEN "draining" ELSE "up"
  /\ UNCHANGED <<world, published, boundaryVars, objects, restarts>>

(* The process is told to stop; the loop sees it between two ticks. *)
Stop ==
  /\ phase = "up"
  /\ phase' = "draining"
  /\ UNCHANGED <<loopVars, boundaryVars, forced, roundVars, restarts>>

(* What ends with the process. *)
Exit ==
  /\ phase' = "down"
  /\ world' = <<>> /\ published' = 0 /\ pending' = <<>>
  /\ acked' = 0 /\ lostTick' = 0
  /\ forced' = FALSE
  /\ round' = "none" /\ copy' = <<>> /\ left' = {}
  /\ UNCHANGED <<base, topic, objects, restarts>>

(* drainAs: the round in flight ends first, the publisher is flushed (within a *)
(* bound, so not always), and what was delivered is checkpointed.              *)
Drained ==
  /\ phase = "draining"
  /\ round = "none"
  /\ CommitAcked(IF published > 0 THEN Hold(pending, published) ELSE pending)
  /\ Exit

(* The process dies, a drain outlasts its timeout, or the loop returns on a *)
(* record source it cannot read, which it does without draining.            *)
Crash ==
  /\ phase \in {"up", "ticked", "draining"}
  /\ UNCHANGED committed
  /\ Exit

--------------------------------------------------------------------------------
(* What becomes of a boundary, as BoundaryLog has it. *)
Deliver ==
  /\ Len(topic) < published
  /\ topic' = Append(topic, SubSeq(world, 1, Len(topic) + 1))
  /\ UNCHANGED <<phase, loopVars, lostTick, base, forced, roundVars, restarts>>
  /\ Log!Deliver

(* The ticks of this process whose boundary was not reported delivered. *)
Outstanding == (Max({acked, base}) + 1)..published

(* BoundaryAcked and OnBoundaryAcked. *)
BoundaryAcked ==
  /\ \E n \in Outstanding : acked' = n
  /\ UNCHANGED <<phase, loopVars, lostTick, base, topic, forced, roundVars, restarts>>
  /\ Log!Ack

(* BoundaryLost and OnBoundaryLost: a loss is declared once. *)
BoundaryLost ==
  /\ ~lost
  /\ \E n \in Outstanding : lostTick' = n
  /\ UNCHANGED <<phase, loopVars, base, topic, forced, roundVars, restarts>>
  /\ Log!Lose

--------------------------------------------------------------------------------
(* The round's goroutine.  Its steps go on while the loop ticks and drains. *)
roundUnchanged == <<phase, loopVars, boundaryVars, forced, restarts>>

(* Mutant: the round writes without waiting for its boundary. *)
RoundProceedsUnawaited ==
  /\ round = "waiting"
  /\ round' = "writing"
  /\ UNCHANGED <<copy, left, objects, roundUnchanged>>

(* awaitBoundary: a loss at or below the round's tick is looked at first. *)
RoundProceeds ==
  /\ round = "waiting"
  /\ ~(lost /\ lostTick <= Len(copy))
  /\ acked >= Len(copy)
  /\ round' = "writing"
  /\ UNCHANGED <<copy, left, objects, roundUnchanged>>

EndRound == round' = "none" /\ copy' = <<>> /\ left' = {}

(* Its boundary is lost, or snapshot.upload_timeout passes first. *)
RoundAbandoned ==
  /\ round = "waiting"
  /\ EndRound
  /\ UNCHANGED <<objects, roundUnchanged>>

(* Snapshot.Key: Zone, tick and the offset of the Zone's own Partition. *)
Key(o) == <<o.zone, Len(o.world), Offsets(o.world)[o.zone]>>

(* put: the Zones in order; an object of the same key is replaced. *)
PutObject ==
  /\ round = "writing" /\ left # {}
  /\ LET o == [zone |-> Min(left), world |-> copy]
     IN  objects' = {x \in objects : Key(x) # Key(o)} \cup {o}
  /\ left' = left \ {Min(left)}
  /\ UNCHANGED <<round, copy, roundUnchanged>>

(* The encoding or the upload of one Zone fails: the next is tried. *)
PutFails ==
  /\ round = "writing" /\ left # {}
  /\ left' = left \ {Min(left)}
  /\ UNCHANGED <<round, copy, objects, roundUnchanged>>

RoundEnds ==
  /\ round = "writing" /\ left = {}
  /\ EndRound
  /\ UNCHANGED <<objects, roundUnchanged>>

(* Force and CancelForce: pre-stop asks for a round, and gives up on it. *)
ForceRound ==
  /\ phase \in {"up", "ticked"} /\ ~forced
  /\ forced' = TRUE
  /\ UNCHANGED <<phase, loopVars, boundaryVars, roundVars, restarts>>

CancelForce ==
  /\ phase \in {"up", "ticked", "draining"} /\ forced
  /\ forced' = FALSE
  /\ UNCHANGED <<phase, loopVars, boundaryVars, roundVars, restarts>>

--------------------------------------------------------------------------------
(* verify: one object for every Zone, all of one cut. *)
At(t) == {o \in objects : Len(o.world) = t}

Complete(t) ==
  /\ \A p \in Partitions : Cardinality({o \in At(t) : o.zone = p}) = 1
  /\ \A o1, o2 \in At(t) : Offsets(o1.world) = Offsets(o2.world)

(* NewestComplete; 0: no round is complete and replay starts at offset zero. *)
SelectRound == Max({0} \cup {t \in 1..MaxTick : Complete(t)})

Before(i) == IF i = 1 THEN <<>> ELSE topic[i - 1]

(* ReplayEach: the records up to the boundary's offsets are applied and the *)
(* hash must be the recorded one.                                           *)
Reproduces(i) == Step(Before(i), Offsets(topic[i])) = topic[i]

(* roundBoundary and RestoreEngine: the round's tick has a boundary, and the *)
(* restored World has its hash.                                              *)
Restores(t) == t <= Len(topic) /\ \A o \in At(t) : o.world = topic[t]

RecoversFrom(t) ==
  /\ t > 0 => Restores(t)
  /\ \A i \in (t + 1)..Len(topic) : Reproduces(i)

RecoverTo(w) ==
  /\ phase' = "up"
  /\ world' = w
  /\ base' = Len(w)
  /\ UNCHANGED <<published, pending, committed, acked, lostTick, topic, forced, roundVars>>

(* Mutant: the process starts at the round it restored, without replaying. *)
RecoverAtRound ==
  /\ phase = "down" /\ restarts < MaxRestarts
  /\ restarts' = restarts + 1
  /\ SelectRound > 0 /\ Restores(SelectRound)
  /\ RecoverTo(topic[SelectRound])

(* Recover, and the process's start from the Engine it returns. *)
Recover ==
  /\ phase = "down" /\ restarts < MaxRestarts
  /\ restarts' = restarts + 1
  /\ RecoversFrom(SelectRound)
  /\ RecoverTo(IF topic = <<>> THEN <<>> ELSE topic[Len(topic)])

(* A round or a boundary that is not reproduced: no World is started. *)
RecoverRefuses ==
  /\ phase = "down" /\ restarts < MaxRestarts
  /\ restarts' = restarts + 1
  /\ ~RecoversFrom(SelectRound)
  /\ phase' = "refused"
  /\ UNCHANGED <<loopVars, boundaryVars, forced, roundVars>>

Next ==
  \/ TickStep \/ TickFinish \/ Stop \/ Drained \/ Crash
  \/ Deliver \/ BoundaryAcked \/ BoundaryLost
  \/ RoundProceeds \/ RoundAbandoned \/ PutObject \/ PutFails \/ RoundEnds
  \/ ForceRound \/ CancelForce
  \/ Recover \/ RecoverRefuses

Spec == Init /\ [][Next]_vars

(* The loop's goroutine runs on; a round has a deadline. *)
FairSpec ==
  /\ Spec
  /\ WF_vars(TickStep) /\ WF_vars(TickFinish) /\ WF_vars(Drained)
  /\ WF_vars(RoundProceeds \/ RoundAbandoned)
  /\ WF_vars(PutObject \/ PutFails) /\ WF_vars(RoundEnds)

--------------------------------------------------------------------------------
TickOf == [offsets : [Partitions -> 0..MaxRecords], faulted : SUBSET Partitions]

(* Every variable stays in its range: Loop's and Snapshotter's fields, the *)
(* topic, the store and the committed checkpoint.                          *)
TypeOK ==
  /\ phase \in Phases /\ round \in Rounds
  /\ world \in Seq(TickOf) /\ copy \in Seq(TickOf)
  /\ \A i \in 1..Len(topic) : topic[i] \in Seq(TickOf) /\ Len(topic[i]) = i
  /\ published \in 0..MaxTick /\ acked \in 0..MaxTick
  /\ lostTick \in 0..MaxTick /\ base \in 0..MaxTick
  /\ \A i \in 1..Len(pending) : pending[i] \in (base + 1)..published
  /\ forced \in BOOLEAN
  /\ left \subseteq Partitions
  /\ \A o \in objects : o.zone \in Partitions /\ o.world \in Seq(TickOf)
  /\ restarts \in 0..MaxRestarts

(* commitAcked commits only the offsets of a boundary that is on the topic: a *)
(* checkpoint never claims a record no recorded boundary applied.             *)
CheckpointDelivered ==
  /\ committed.tick <= Len(topic)
  /\ committed.offsets = IF committed.tick = 0 THEN Start ELSE Offsets(topic[committed.tick])

(* No commit of loop.go, by this process or the next, takes a checkpoint back *)
(* to an earlier tick or offset.                                              *)
CheckpointNeverBack ==
  [][ /\ committed'.tick >= committed.tick
      /\ \A p \in Partitions : committed'.offsets[p] >= committed.offsets[p] ]_vars

(* Every object in the store is of a World whose boundary the topic holds, so *)
(* recovery can verify it: the round waited for its acknowledgement.          *)
RoundsVerify ==
  \A o \in objects : Len(o.world) <= Len(topic) /\ o.world = topic[Len(o.world)]

(* The boundaries are one history, over restarts and losses too: each one's *)
(* World is the one before it, one tick further.                            *)
OneTimeline ==
  \A i \in 1..Len(topic) : SubSeq(topic[i], 1, i - 1) = Before(i)

(* Recovery only ever refuses when a tick past the newest complete round    *)
(* faulted a Zone: no crash, loss or half-written round alone stops a start. *)
RefusedOnlyAfterFault ==
  phase = "refused" =>
    \E i \in (SelectRound + 1)..Len(topic) : Faulted(topic[i]) # Faulted(Before(i))

(* A process can always start from what the last one left (recover.go): every *)
(* stored round is of a recorded tick, the recorded ticks are one history, and *)
(* only a tick that faulted a Zone stops a start.                              *)
Recovers == RoundsVerify /\ OneTimeline /\ RefusedOnlyAfterFault

(* After BoundaryLost the loop drains and the process ends. *)
LostStops == lost ~> phase = "down"

(* What sim/state.go says of a faulted Zone: the same records panic at the *)
(* same point on replay, so recovery reproduces the recorded hashes.        *)
ReplayReproduces == phase # "refused"

================================================================================
