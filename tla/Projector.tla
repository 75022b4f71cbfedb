------------------------------- MODULE Projector --------------------------------
(******************************************************************************)
(* The state projector (server/projector): a replica of the World that writes *)
(* every aggregate of a Zone to a compacted topic, so that the topic holds    *)
(* what the World is.  It starts from a snapshot round or from nothing,       *)
(* replays the log's ticks, produces what each verified tick touched, and     *)
(* commits a checkpoint after the records are durable.  It may die anywhere,  *)
(* a round newer than its checkpoint may be waiting when it comes back, and   *)
(* an operator may ask for a rebuild.                                         *)
(*                                                                            *)
(* One Zone, its Rooms and some Characters.  A record's body is what the code *)
(* computes from the state (occupants, counts); ticks, offsets and encodings  *)
(* are left out, so two records of a key are the same when their bodies are.  *)
(* The log keeps every boundary: a replica it no longer reaches only refuses. *)
(******************************************************************************)
EXTENDS Integers, Sequences, FiniteSets

CONSTANTS
  Chars, Rooms,       \* the Zone's Characters and the Rooms content may give it
  Fallback,           \* the Room a swap never removes
  MaxTicks,           \* bound: ticks of the World
  BatchTicks,         \* the most ticks replayed before a produce
  MaxProjectorFaults  \* bound: deaths, divergences and rebuilds

ASSUME ProjectorAssumption ==
  /\ IsFiniteSet(Chars) /\ IsFiniteSet(Rooms) /\ Fallback \in Rooms
  /\ {MaxTicks, BatchTicks, MaxProjectorFaults} \subseteq Nat

VARIABLES
  hist,       \* the World after each tick: [st, touched, swap], newest last
  snapRound,  \* the newest complete snapshot round's tick, 0 if none
  state,      \* andara.state.v1: the live keys and their bodies
  cp,         \* the group's checkpoint: [committed, tick, diverged]
  stage,      \* "down", "idle", or what the records in out are for: "dump", "batch"
  at,         \* the replica's tick
  silent,     \* nothing is produced through this tick
  projected,    \* the Characters whose key was last written
  rendered,   \* the Rooms of the topology last rendered
  out,        \* of each tick to produce, the records that have not landed: keys to bodies
  diverges,   \* the batch ended at a tick whose hash did not verify
  high,       \* the newest tick any record on the topic may be of
  projectorFaults

projectorVars == <<hist, snapRound, state, cp, stage, at, silent, projected, rendered, out,
                   diverges, high, projectorFaults>>

-------------------------------------------------------------------------------
(* The World. *)

(* sim.EmptyWorld: no Zone until the first swap. *)
Empty == [rooms |-> {}, room |-> <<>>, dormant |-> {}, faulted |-> FALSE]

World(t) == IF t = 0 THEN Empty ELSE hist[t].st

Now == World(Len(hist))

Here(st) == DOMAIN st.room

Ticks(st, touched, swap) ==
  /\ Len(hist) < MaxTicks
  /\ hist' = Append(hist, [st |-> st, touched |-> touched, swap |-> swap])
  /\ UNCHANGED <<snapRound, state, cp, stage, at, silent, projected, rendered, out, diverges,
                 high, projectorFaults>>

(* Touched: the Zone, the Rooms and the Characters the tick's Events name. *)
Touches(S, c) == {<<"zone", 0>>} \cup {<<"room", r>> : r \in S} \cup {<<"char", c>>}

Enters(c, r) ==
  /\ c \notin Here(Now) /\ r \in Now.rooms
  /\ Ticks([Now EXCEPT !.room = [d \in Here(Now) \cup {c} |-> IF d = c THEN r ELSE @[d]]],
           Touches({r}, c), FALSE)

Leaves(c) ==
  /\ c \in Here(Now)
  /\ Ticks([Now EXCEPT !.room = [d \in Here(Now) \ {c} |-> @[d]], !.dormant = @ \ {c}],
           Touches({Now.room[c]}, c), FALSE)

MovesTo(c, r) ==
  /\ c \in Here(Now) \ Now.dormant /\ r \in Now.rooms \ {Now.room[c]}
  /\ Ticks([Now EXCEPT !.room[c] = r], Touches({Now.room[c], r}, c), FALSE)

(* CharacterDespawned: the body is left in the Room, dormant. *)
Despawns(c) ==
  /\ c \in Here(Now) \ Now.dormant
  /\ Ticks([Now EXCEPT !.dormant = @ \cup {c}], Touches({Now.room[c]}, c), FALSE)

(* A ContentSwap: a Character in a Room the new content lacks is moved to the fallback. *)
Swaps(S) ==
  /\ Fallback \in S /\ S # Now.rooms
  /\ Ticks([Now EXCEPT !.rooms = S,
              !.room = [c \in Here(Now) |-> IF @[c] \in S THEN @[c] ELSE Fallback]],
           {}, TRUE)

(* ZoneFaulted touches the whole Zone. *)
Faults ==
  /\ ~Now.faulted /\ Now.rooms # {}
  /\ Ticks([Now EXCEPT !.faulted = TRUE], {<<"all", 0>>}, FALSE)

Rounds ==
  /\ snapRound # Len(hist) /\ snapRound' = Len(hist)
  /\ UNCHANGED <<hist, state, cp, stage, at, silent, projected, rendered, out, diverges, high,
                 projectorFaults>>

-------------------------------------------------------------------------------
(* Rendering. *)

Gone == <<>>

(* The keys a state has, and the body of each. *)
Keys(st) ==
  IF st.rooms = {} THEN {}
  ELSE {<<"zone", 0>>} \cup {<<"room", r>> : r \in st.rooms} \cup {<<"char", c>> : c \in Here(st)}

Body(st, k) ==
  CASE k[1] = "zone" -> <<Cardinality(Here(st)), Cardinality(st.rooms), st.faulted>>
    [] k[1] = "room" -> <<{c \in Here(st) \ st.dormant : st.room[c] = k[2]}>>
    [] k[1] = "char" -> <<st.room[k[2]], k[2] \in st.dormant>>

(* Dump: a record of every aggregate. *)
Dump(st) == [k \in Keys(st) |-> Body(st, k)]

(* The records of f, and those of g of other keys. *)
Over(f, g) == [k \in DOMAIN f \cup DOMAIN g |-> IF k \in DOMAIN f THEN f[k] ELSE g[k]]

(* A tombstone for each of the keys. *)
Tombstones(S) == [k \in S |-> Gone]

(* sweep and tomb: the emitted Characters that are no longer in the Zone. *)
Swept(st, was) == Tombstones({<<"char", c>> : c \in was \ Here(st)})

(* removedRooms: what the last rendered topology had and this one lacks. *)
RemovedRooms(st, had) == Tombstones({<<"room", r>> : r \in had \ st.rooms})

(* Render: the whole Zone after a swap or a fault, else what the Events touched. *)
Render(t, was, had) ==
  LET st == World(t)
      whole == hist[t].swap \/ <<"all", 0>> \in hist[t].touched
  IN IF whole
     THEN Over(Dump(st), Over(IF hist[t].swap THEN RemovedRooms(st, had) ELSE <<>>, Swept(st, was)))
     ELSE Over([k \in hist[t].touched \cap Keys(st) |-> Body(st, k)], Swept(st, was))

(* Replay: each verified tick's records, rendered after what the one before left. *)
Rendered(S) ==
  [t \in S |-> IF t = at + 1 THEN Render(t, projected, rendered)
               ELSE Render(t, Here(World(t - 1)), World(t - 1).rooms)]

(* TopicKeys: the keys live on the topic. *)
ReadKeys == DOMAIN state

(* Reconcile: a tombstone for every key on the topic the state does not have. *)
ProjectorReconcile(st) == Tombstones(ReadKeys \ Keys(st))

-------------------------------------------------------------------------------
(* The process. *)

NoCheckpoint == [committed |-> FALSE, tick |-> 0, diverged |-> FALSE]

ProjectorInit ==
  /\ hist = <<>> /\ snapRound = 0 /\ state = <<>> /\ cp = NoCheckpoint /\ stage = "down"
  /\ at = 0 /\ silent = 0 /\ projected = {} /\ rendered = {} /\ out = <<>>
  /\ diverges = FALSE /\ high = 0 /\ projectorFaults = 0

Newer(t, u) == IF t > u THEN t ELSE u

CanFail == projectorFaults < MaxProjectorFaults /\ projectorFaults' = projectorFaults + 1

(* Run starts over a checkpoint whenever there is one. *)
CoveredAlways(c, t) == c.committed

(* Behind a committed checkpoint the topic already holds everything through it. *)
Covered(c, t) == c.committed /\ c.tick >= t

(* Committer.Last, or Wipe for a rebuild: an unresolved divergence ends the start. *)
ReadCheckpoint(rebuild) == IF rebuild THEN NoCheckpoint ELSE cp

(* bootstrapEngine: the newest complete round, or from nothing. *)
BootEngine(fromZero) == IF fromZero THEN 0 ELSE snapRound

(* Run up to its loop: the checkpoint read, or wiped for a rebuild; the replica made from *)
(* a round or from nothing; a dump and a reconcile unless the checkpoint covers it. *)
Boot(rebuild, fromZero) ==
  /\ stage = "down" /\ hist # <<>>
  /\ rebuild \/ ~cp.diverged
  /\ IF rebuild THEN CanFail ELSE UNCHANGED projectorFaults
  /\ LET c == ReadCheckpoint(rebuild)
         t == BootEngine(fromZero)
     IN /\ cp' = c /\ at' = t
        /\ projected' = Here(World(t)) /\ rendered' = World(t).rooms
        /\ IF Covered(c, t)
           THEN /\ silent' = c.tick /\ stage' = "idle" /\ UNCHANGED <<out, high>>
           ELSE /\ silent' = 0 /\ stage' = "dump"
                /\ out' = [u \in {t} |-> Over(Dump(World(t)), ProjectorReconcile(World(t)))]
                /\ high' = Newer(high, t)
  /\ diverges' = FALSE /\ UNCHANGED <<hist, snapRound, state>>

(* step, its replay: n ticks verified, the next one not if bad; each rendered, and kept to *)
(* produce unless the topic already has it. *)
Replay(n, bad) ==
  /\ stage = "idle" /\ at + n + (IF bad THEN 1 ELSE 0) <= Len(hist)
  /\ n + (IF bad THEN 1 ELSE 0) \in 1..BatchTicks
  /\ IF bad THEN CanFail ELSE UNCHANGED projectorFaults
  /\ LET loud == {t \in at + 1 .. at + n : t > silent}
     IN /\ out' = Rendered(loud)
        /\ stage' = IF loud # {} THEN "batch" ELSE IF bad THEN "halting" ELSE "idle"
        /\ high' = IF loud # {} THEN Newer(high, at + n) ELSE high
        /\ projected' = Here(World(at + n)) /\ rendered' = World(at + n).rooms
  /\ at' = at + n /\ diverges' = bad
  /\ UNCHANGED <<hist, snapRound, state, cp, silent>>

(* The topic after one more record: a tombstone takes its key away. *)
Landed(k, body) ==
  IF body = Gone THEN [j \in DOMAIN state \ {k} |-> state[j]]
  ELSE [j \in DOMAIN state \cup {k} |-> IF j = k THEN body ELSE state[j]]

(* Produce: the records land one by one, of a tick before those of the next. *)
BatchLands ==
  /\ stage \in {"dump", "batch"}
  /\ \E t \in DOMAIN out : \E k \in DOMAIN out[t] :
       /\ \A u \in DOMAIN out : u < t => DOMAIN out[u] = {}
       /\ state' = Landed(k, out[t][k])
       /\ out' = [out EXCEPT ![t] = [j \in DOMAIN @ \ {k} |-> @[j]]]
  /\ UNCHANGED <<hist, snapRound, cp, stage, at, silent, projected, rendered, diverges, high,
                 projectorFaults>>

(* Commit, made as soon as the records are handed to the producer. *)
CommitReadyEarly == stage \in {"dump", "batch"}

(* A checkpoint is committed only once the records before it are durable. *)
CommitReady == stage \in {"dump", "batch"} /\ \A t \in DOMAIN out : DOMAIN out[t] = {}

(* After a dump and a reconcile the topic is the replica's state, and no newer. *)
DumpDone == stage = "dump"

CommitCheckpoint ==
  /\ CommitReady
  /\ cp' = [committed |-> TRUE, tick |-> at, diverged |-> FALSE]
  /\ stage' = (IF diverges THEN "halting" ELSE "idle") /\ out' = <<>>
  /\ high' = IF DumpDone THEN at ELSE high
  /\ UNCHANGED <<hist, snapRound, state, at, silent, projected, rendered, diverges,
                 projectorFaults>>

(* A divergence is recorded in the checkpoint, and the process ends. *)
Halts ==
  /\ stage = "halting"
  /\ cp' = [committed |-> TRUE, tick |-> at, diverged |-> TRUE]
  /\ stage' = "down" /\ diverges' = FALSE /\ out' = <<>>
  /\ UNCHANGED <<hist, snapRound, state, at, silent, projected, rendered, high, projectorFaults>>

(* The process ends: killed, stopped, or by a produce or a commit that fails. *)
ProjectorDies ==
  /\ stage # "down" /\ CanFail /\ stage' = "down" /\ out' = <<>> /\ diverges' = FALSE
  /\ UNCHANGED <<hist, snapRound, state, cp, at, silent, projected, rendered, high>>

ProjectorNext ==
  \/ \E c \in Chars :
       \/ Leaves(c) \/ Despawns(c)
       \/ \E r \in Rooms : Enters(c, r) \/ MovesTo(c, r)
  \/ \E S \in SUBSET Rooms : Swaps(S)
  \/ Faults \/ Rounds
  \/ \E rebuild, fromZero \in BOOLEAN : Boot(rebuild, fromZero)
  \/ \E n \in 0..BatchTicks, bad \in BOOLEAN : Replay(n, bad)
  \/ BatchLands \/ CommitCheckpoint \/ Halts \/ ProjectorDies

ProjectorSpec == ProjectorInit /\ [][ProjectorNext]_projectorVars

-------------------------------------------------------------------------------
(* Properties. *)

ProjectorTypeOK ==
  /\ Len(hist) <= MaxTicks /\ snapRound \in 0..Len(hist)
  /\ cp.committed \in BOOLEAN /\ cp.diverged \in BOOLEAN /\ cp.tick \in 0..Len(hist)
  /\ stage \in {"down", "idle", "dump", "batch", "halting"}
  /\ at \in 0..MaxTicks /\ silent \in 0..MaxTicks /\ high \in 0..MaxTicks
  /\ projected \subseteq Chars /\ rendered \subseteq Rooms
  /\ diverges \in BOOLEAN /\ projectorFaults \in 0..MaxProjectorFaults

(* The topic holds exactly what the replica is, no key missing and none left behind,     *)
(* whenever the projector has committed through the newest tick it ever wrote of:        *)
(* through deaths between the records of a batch, starts from a round newer than the     *)
(* checkpoint, silent replays and rebuilds (Run, Render, Reconcile).                     *)
TopicIsWorld ==
  stage = "idle" /\ at >= silent /\ at >= high => state = Dump(World(at))
===============================================================================
