-------------------------------- MODULE Handoff --------------------------------
(******************************************************************************)
(* A Character in the World: the body the Zones hold, the cross-Zone handoff  *)
(* that carries it (AW-SRV-028), and the Commands that change it (server/sim: *)
(* verbs.go, handoff.go, character.go, linkdead.go, purge.go).                *)
(*                                                                            *)
(* Zones never call each other.  A Zone applies the Commands of its own log   *)
(* in order and produces Commands to other Zones' logs; nothing orders two    *)
(* logs.  Every map of a ZoneState is keyed by Entity ID and no handler reads *)
(* the entry of another Entity, so one Character is modelled.                 *)
(*                                                                            *)
(* A step applies one record.  A tick is any number of them, so every         *)
(* batching, and every order of Zones within a tick, is covered.  What a tick *)
(* produces goes out after it, whether or not its boundary is ever delivered. *)
(* A crash goes back to the newest delivered boundary: `durable` is the state *)
(* at that boundary and `since` what was applied after it, which the log      *)
(* still holds and the next process applies again.                            *)
(******************************************************************************)
EXTENDS Integers, Sequences, FiniteSets

CONSTANTS
  NumZones,     \* the World's Zones are 1..NumZones, in Zone ID order
  MaxCommands,  \* bound: Commands the Gateway logs
  MaxCrashes,   \* bound: how often the process dies and recovers
  MaxLosses,    \* bound: produced Commands that never reach a log
  MaxCopies,    \* bound: undecided records of one handoff for which a retry is made
  Swaps         \* whether content that closes the Exits may go live

ASSUME HandoffAssumption ==
  /\ NumZones \in Nat \ {0} /\ MaxCommands \in Nat /\ MaxCrashes \in Nat
  /\ MaxLosses \in Nat /\ MaxCopies \in Nat /\ Swaps \in BOOLEAN

Zones == 1..NumZones
SpawnZone == 1

(* What a Zone's Entities map holds for the Character. *)
Presences == {"absent", "present", "linkdead", "dormant"}

VARIABLES
  presence,  \* ZoneState.Entities: the body in each Zone, and how it stands
  seq,       \* EntityState.HandoffSeq of that body
  transit,   \* ZoneState.Transit: the record's handoff sequence; 0: none
  target,    \* TransitRecord.To; the Zone itself where there is no record
  placed,    \* ZoneState.Placed: the mark; 0: none
  sealed,    \* the content in effect has no Exit between Zones
  spawned,   \* history: a Bind created the body
  purged,    \* history: a Purge removed the body
  durable,   \* all of the above at the newest delivered boundary
  since,     \* the records each Zone applied since that boundary
  log,       \* external: each Zone's part of the commands topic, not yet applied
  known,     \* Zones the roster and the routing table may have for the Character
  deleted,   \* the roster holds the Character as deleted
  commands, losses, crashes

state == <<presence, seq, transit, target, placed, sealed, spawned, purged>>
counters == <<commands, losses, crashes>>
vars == <<state, durable, since, log, known, deleted, counters>>

Command(k, n, z) == [kind |-> k, seq |-> n, zone |-> z]

(* The Commands of a log: `zone` is the origin of an Arrive, the target of a *)
(* move, and for a Bind the Zone its spawn_room_id is in (0 when the Bind     *)
(* carries none).                                                             *)
Arrive(n, from) == Command("arrive", n, from)
HandoffAck(n) == Command("ack", n, 0)
Move(to) == Command("move", 0, to)
Goto(to) == Command("goto", 0, to)
Bind(spawn) == Command("bind", 0, spawn)
Unbind == Command("unbind", 0, 0)
MarkLinkdead == Command("mark", 0, 0)
Purge == Command("purge", 0, 0)

Snapshot == [presence |-> presence, seq |-> seq, transit |-> transit, target |-> target,
             placed |-> placed, sealed |-> sealed, spawned |-> spawned, purged |-> purged]

Init ==
  /\ presence = [z \in Zones |-> "absent"]
  /\ seq = [z \in Zones |-> 0]
  /\ transit = [z \in Zones |-> 0]
  /\ target = [z \in Zones |-> z]
  /\ placed = [z \in Zones |-> 0]
  /\ sealed = FALSE /\ spawned = FALSE /\ purged = FALSE
  /\ durable = Snapshot
  /\ since = [z \in Zones |-> <<>>]
  /\ log = [z \in Zones |-> <<>>]
  /\ known = {SpawnZone}
  /\ deleted = FALSE
  /\ commands = 0 /\ losses = 0 /\ crashes = 0

--------------------------------------------------------------------------------
(* Producing: a Command reaches the log, or the producer loses it.  `rest` is *)
(* the log without the record being applied.                                  *)
Rest(z) == [log EXCEPT ![z] = Tail(@)]

Produce(rest, z, c) ==
  \/ log' = [rest EXCEPT ![z] = Append(@, c)] /\ UNCHANGED losses
  \/ losses < MaxLosses /\ losses' = losses + 1 /\ log' = rest

ProduceNothing(z) == log' = Rest(z) /\ UNCHANGED losses

(* A rejected Command, or one with nothing to do, is consumed like any other. *)
Nothing(z) ==
  /\ UNCHANGED <<presence, seq, transit, target, placed, spawned, purged, known>>
  /\ ProduceNothing(z)

InZone(z) == presence[z] # "absent"
InTransit(z) == transit[z] # 0
Elsewhere(z) == {y \in Zones \ {z} : InZone(y)}

(* locate: the actor is in this Zone, driven by a Session, and not between. *)
CanAct(z) == ~InTransit(z) /\ presence[z] \in {"present", "linkdead"}

(* depart: the body leaves the Zone's Entities for its Transit, one handoff *)
(* sequence further, and its Arrive is produced.                            *)
Depart(z, to) ==
  /\ presence' = [presence EXCEPT ![z] = "absent"]
  /\ seq' = [seq EXCEPT ![z] = 0]
  /\ transit' = [transit EXCEPT ![z] = seq[z] + 1]
  /\ target' = [target EXCEPT ![z] = to]
  /\ Produce(Rest(z), to, Arrive(seq[z] + 1, z))
  /\ UNCHANGED <<placed, spawned, purged, known>>

(* applyMove and applyGoto: a linkdead body does not move, a move needs an *)
(* Exit, a goto only needs its target to exist.  Within the Zone only the   *)
(* Room changes, so moves between Zones are the ones modelled.              *)
ApplyMove(z, c) ==
  /\ c.kind \in {"move", "goto"}
  /\ \/ /\ CanAct(z) /\ presence[z] = "present"
        /\ c.kind = "goto" \/ ~sealed
        /\ Depart(z, c.zone)
     \/ /\ ~CanAct(z) \/ presence[z] = "linkdead" \/ (c.kind = "move" /\ sealed)
        /\ Nothing(z)

(* Mutant: the record is zeroed where it should be deleted. *)
DropTransitZeroes(z) ==
  /\ transit' = [transit EXCEPT ![z] = 0]
  /\ target' = [target EXCEPT ![z] = 0]

(* dropTransit *)
DropTransit(z) ==
  /\ transit' = [transit EXCEPT ![z] = 0]
  /\ target' = [target EXCEPT ![z] = z]

(* Mutant: only a sequence below the mark counts as decided. *)
DecidedBelow(z, n) == n < placed[z]

(* validateArrive's case 2: a sequence at or below the mark was decided. *)
Decided(z, n) == n <= placed[z]

(* validateArrive's entity_present: above the mark, and the Zone holds the *)
(* Entity, or sent it on at this sequence or a later one.                  *)
EntityPresent(z, n) ==
  /\ ~Decided(z, n)
  /\ InZone(z) \/ transit[z] >= n

(* Mutant: a retry or a stale Arrive is dropped without an ack. *)
ApplyArriveSilent(z, c) ==
  /\ c.kind = "arrive"
  /\ \/ Decided(z, c.seq) /\ Nothing(z)
     \/ EntityPresent(z, c.seq) /\ Nothing(z)
     \/ /\ ~Decided(z, c.seq) /\ ~EntityPresent(z, c.seq)
        /\ DropTransit(z)
        /\ presence' = [presence EXCEPT ![z] = "present"]
        /\ seq' = [seq EXCEPT ![z] = c.seq]
        /\ placed' = [placed EXCEPT ![z] = c.seq]
        /\ known' = known \cup {z}
        /\ Produce(Rest(z), c.zone, HandoffAck(c.seq))
        /\ UNCHANGED <<spawned, purged>>

(* Mutant: the Zone keeps its own record of the older handoff when the body *)
(* comes back and is placed.                                                *)
ApplyArriveKeeps(z, c) ==
  /\ c.kind = "arrive"
  /\ \/ /\ Decided(z, c.seq)
        /\ Produce(Rest(z), c.zone, HandoffAck(c.seq))
        /\ UNCHANGED <<presence, seq, transit, target, placed, spawned, purged, known>>
     \/ EntityPresent(z, c.seq) /\ Nothing(z)
     \/ /\ ~Decided(z, c.seq) /\ ~EntityPresent(z, c.seq)
        /\ presence' = [presence EXCEPT ![z] = "present"]
        /\ seq' = [seq EXCEPT ![z] = c.seq]
        /\ placed' = [placed EXCEPT ![z] = c.seq]
        /\ known' = known \cup {z}
        /\ Produce(Rest(z), c.zone, HandoffAck(c.seq))
        /\ UNCHANGED <<transit, target, spawned, purged>>

(* applyArrive: a retry or a stale Arrive is acked and nothing else; a new  *)
(* handoff drops the Zone's own record of an older one (the implicit ack),  *)
(* is placed, marked and acked.                                             *)
ApplyArrive(z, c) ==
  /\ c.kind = "arrive"
  /\ \/ /\ Decided(z, c.seq)
        /\ Produce(Rest(z), c.zone, HandoffAck(c.seq))
        /\ UNCHANGED <<presence, seq, transit, target, placed, spawned, purged, known>>
     \/ EntityPresent(z, c.seq) /\ Nothing(z)
     \/ /\ ~Decided(z, c.seq) /\ ~EntityPresent(z, c.seq)
        /\ DropTransit(z)
        /\ presence' = [presence EXCEPT ![z] = "present"]
        /\ seq' = [seq EXCEPT ![z] = c.seq]
        /\ placed' = [placed EXCEPT ![z] = c.seq]
        /\ known' = known \cup {z}
        /\ Produce(Rest(z), c.zone, HandoffAck(c.seq))
        /\ UNCHANGED <<spawned, purged>>

(* Mutant: an ack is matched by Entity alone. *)
ApplyAckByEntity(z, c) ==
  /\ c.kind = "ack"
  /\ \/ /\ InTransit(z)
        /\ DropTransit(z)
        /\ ProduceNothing(z)
        /\ UNCHANGED <<presence, seq, placed, spawned, purged, known>>
     \/ ~InTransit(z) /\ Nothing(z)

(* applyHandoffAck: the record it names, by sequence too, or nothing. *)
ApplyAck(z, c) ==
  /\ c.kind = "ack"
  /\ \/ /\ InTransit(z) /\ transit[z] = c.seq
        /\ DropTransit(z)
        /\ ProduceNothing(z)
        /\ UNCHANGED <<presence, seq, placed, spawned, purged, known>>
     \/ ~(InTransit(z) /\ transit[z] = c.seq) /\ Nothing(z)

(* Mutant: a body between Zones is not looked for. *)
UnseenInZones == \A y \in Zones : ~InZone(y) /\ placed[y] = 0

(* applyBindCharacter's search: no Zone holds the Character, has it in its *)
(* Transit or has a mark of it.                                            *)
Unseen == \A y \in Zones : ~InZone(y) /\ ~InTransit(y) /\ placed[y] = 0

(* applyBindCharacter: a body here is taken (woken, reconnected, or where it *)
(* stands); one present elsewhere is only announced; one asleep elsewhere    *)
(* gets the Bind re-routed, without a spawn Room; between Zones, or marked    *)
(* anywhere, is refused; else a new body.  Go ranges over a map, so with two  *)
(* bodies elsewhere either may be found first.                                *)
ApplyBind(z, c) ==
  /\ c.kind = "bind"
  /\ \/ /\ InZone(z)
        /\ presence' = [presence EXCEPT ![z] = "present"]
        /\ ProduceNothing(z)
        /\ UNCHANGED <<seq, transit, target, placed, spawned, purged, known>>
     \/ /\ ~InZone(z)
        /\ \E y \in Elsewhere(z) :
             \/ presence[y] = "present" /\ Nothing(z)
             \/ /\ presence[y] \in {"dormant", "linkdead"}
                /\ Produce(Rest(z), y, Bind(0))
                /\ UNCHANGED <<presence, seq, transit, target, placed, spawned, purged, known>>
     \/ /\ Unseen /\ c.zone = z
        /\ presence' = [presence EXCEPT ![z] = "present"]
        /\ spawned' = TRUE
        /\ ProduceNothing(z)
        /\ UNCHANGED <<seq, transit, target, placed, purged, known>>
     \/ /\ \A y \in Zones : ~InZone(y)
        /\ ~Unseen \/ c.zone # z
        /\ Nothing(z)

(* applyUnbindCharacter: a present or linkdead body goes dormant. *)
ApplyUnbind(z, c) ==
  /\ c.kind = "unbind"
  /\ \/ /\ CanAct(z)
        /\ presence' = [presence EXCEPT ![z] = "dormant"]
        /\ ProduceNothing(z)
        /\ UNCHANGED <<seq, transit, target, placed, spawned, purged, known>>
     \/ ~CanAct(z) /\ Nothing(z)

(* applyMarkLinkdead *)
ApplyMark(z, c) ==
  /\ c.kind = "mark"
  /\ \/ /\ CanAct(z) /\ presence[z] = "present"
        /\ presence' = [presence EXCEPT ![z] = "linkdead"]
        /\ ProduceNothing(z)
        /\ UNCHANGED <<seq, transit, target, placed, spawned, purged, known>>
     \/ ~(CanAct(z) /\ presence[z] = "present") /\ Nothing(z)

(* Mutant: the mark is removed with the body. *)
ApplyPurgeUnmarks(z, c) ==
  /\ c.kind = "purge"
  /\ \/ /\ InZone(z)
        /\ presence' = [presence EXCEPT ![z] = "absent"]
        /\ seq' = [seq EXCEPT ![z] = 0]
        /\ placed' = [placed EXCEPT ![z] = 0]
        /\ purged' = TRUE
        /\ ProduceNothing(z)
        /\ UNCHANGED <<transit, target, spawned, known>>
     \/ /\ ~InZone(z)
        /\ \E y \in Elsewhere(z) : (\A x \in Elsewhere(z) : y <= x) /\ Produce(Rest(z), y, Purge)
        /\ UNCHANGED <<presence, seq, transit, target, placed, spawned, purged, known>>
     \/ ~InZone(z) /\ Elsewhere(z) = {} /\ Nothing(z)

(* applyPurgeCharacter: the body here is removed; in another Zone the first *)
(* by Zone ID gets the Command; between Zones it is refused.                *)
ApplyPurge(z, c) ==
  /\ c.kind = "purge"
  /\ \/ /\ InZone(z)
        /\ presence' = [presence EXCEPT ![z] = "absent"]
        /\ seq' = [seq EXCEPT ![z] = 0]
        /\ purged' = TRUE
        /\ ProduceNothing(z)
        /\ UNCHANGED <<transit, target, placed, spawned, known>>
     \/ /\ ~InZone(z)
        /\ \E y \in Elsewhere(z) : (\A x \in Elsewhere(z) : y <= x) /\ Produce(Rest(z), y, Purge)
        /\ UNCHANGED <<presence, seq, transit, target, placed, spawned, purged, known>>
     \/ ~InZone(z) /\ Elsewhere(z) = {} /\ Nothing(z)

(* Step applies the next record of a Zone's log.  Nothing reads `since` after *)
(* the last crash, so it is not kept then.                                    *)
Apply(z) ==
  /\ log[z] # <<>>
  /\ since' = IF crashes < MaxCrashes THEN [since EXCEPT ![z] = Append(@, Head(log[z]))] ELSE since
  /\ LET c == Head(log[z])
     IN  \/ ApplyMove(z, c) \/ ApplyArrive(z, c) \/ ApplyAck(z, c) \/ ApplyBind(z, c)
         \/ ApplyUnbind(z, c) \/ ApplyMark(z, c) \/ ApplyPurge(z, c)
  /\ UNCHANGED <<sealed, durable, deleted, commands, crashes>>

(* expireLinkdead: the grace of a linkdead body ends on some tick. *)
ExpireLinkdead(z) ==
  /\ presence[z] = "linkdead"
  /\ presence' = [presence EXCEPT ![z] = "dormant"]
  /\ UNCHANGED <<seq, transit, target, placed, sealed, spawned, purged, durable, since, log, known, deleted, counters>>

(* A ContentSwap record takes effect at the end of some tick. *)
Swap ==
  /\ Swaps /\ ~sealed
  /\ sealed' = TRUE
  /\ UNCHANGED <<presence, seq, transit, target, placed, spawned, purged, durable, since, log, known, deleted, counters>>

(* DueHandoffs: the same Arrive again, on a backoff nothing else can see.  The *)
(* bound MaxCopies stands for that backoff.                                    *)
Copies(z) ==
  Cardinality({i \in 1..Len(log[target[z]]) : log[target[z]][i] = Arrive(transit[z], z)})
  + Cardinality({i \in 1..Len(log[z]) : log[z][i] = HandoffAck(transit[z])})

Retry(z) ==
  /\ InTransit(z)
  /\ Copies(z) < MaxCopies
  /\ Produce(log, target[z], Arrive(transit[z], z))
  /\ UNCHANGED <<state, durable, since, known, deleted, commands, crashes>>

(* The tick's boundary is delivered, so a recovery starts no earlier. *)
BoundaryDelivered ==
  /\ crashes < MaxCrashes
  /\ durable' = Snapshot
  /\ since' = [z \in Zones |-> <<>>]
  /\ UNCHANGED <<state, log, known, deleted, counters>>

(* A goto differs from a move only where a swap may close the Exits. *)
Travels(z) ==
  {Move(to) : to \in Zones \ {z}} \cup (IF Swaps THEN {Goto(to) : to \in Zones \ {z}} ELSE {})

(* The Gateway logs a Command for a Session that plays the Character, to the *)
(* Zone its routing has, which may be stale; a Bind names the roster's Zone, *)
(* with the roster's Room there.  A deleted Character is not selected.       *)
Gateway(z) ==
  /\ commands < MaxCommands
  /\ ~deleted /\ z \in known
  /\ \E c \in {Bind(z), Unbind, MarkLinkdead} \cup Travels(z) :
       log' = [log EXCEPT ![z] = Append(@, c)]
  /\ commands' = commands + 1
  /\ UNCHANGED <<state, durable, since, known, deleted, losses, crashes>>

(* DeleteCharacter, then the retention sweep's PurgeCharacter, to the roster's *)
(* Zone; a crash before it is recorded repeats it.                             *)
Sweep(z) ==
  /\ commands < MaxCommands
  /\ z \in known
  /\ deleted' = TRUE
  /\ log' = [log EXCEPT ![z] = Append(@, Purge)]
  /\ commands' = commands + 1
  /\ UNCHANGED <<state, durable, since, known, losses, crashes>>

(* Mutant: the marks are no part of what a recovery restores. *)
CrashForgetsMarks ==
  /\ crashes < MaxCrashes
  /\ crashes' = crashes + 1
  /\ presence' = durable.presence /\ seq' = durable.seq
  /\ transit' = durable.transit /\ target' = durable.target
  /\ placed' = [z \in Zones |-> 0]
  /\ sealed' = durable.sealed /\ spawned' = durable.spawned /\ purged' = durable.purged
  /\ log' = [z \in Zones |-> since[z] \o log[z]]
  /\ since' = [z \in Zones |-> <<>>]
  /\ UNCHANGED <<durable, known, deleted, commands, losses>>

(* The process dies and recovers to the newest delivered boundary; then the *)
(* roster marks the bodies left present (MarkOrphans, best effort).         *)
Crash ==
  /\ crashes < MaxCrashes
  /\ crashes' = crashes + 1
  /\ presence' = durable.presence /\ seq' = durable.seq
  /\ transit' = durable.transit /\ target' = durable.target
  /\ placed' = durable.placed
  /\ sealed' = durable.sealed /\ spawned' = durable.spawned /\ purged' = durable.purged
  /\ \E marked \in SUBSET {z \in Zones : durable.presence[z] = "present"} :
       log' = [z \in Zones |-> since[z] \o log[z] \o (IF z \in marked THEN <<MarkLinkdead>> ELSE <<>>)]
  /\ since' = [z \in Zones |-> <<>>]
  /\ UNCHANGED <<durable, known, deleted, commands, losses>>

Next ==
  \/ \E z \in Zones : Apply(z) \/ ExpireLinkdead(z) \/ Retry(z) \/ Gateway(z) \/ Sweep(z)
  \/ Swap \/ BoundaryDelivered \/ Crash

Spec == Init /\ [][Next]_vars

(* The loop ticks, so a logged record is applied and a record in transit comes *)
(* due again (the schedule is earliest due first).  Nothing forces a Session   *)
(* to send a Command, content to be swapped or the process to die.             *)
FairSpec == Spec /\ \A z \in Zones : WF_vars(Apply(z)) /\ WF_vars(Retry(z))

--------------------------------------------------------------------------------
Kinds == {"arrive", "ack", "move", "goto", "bind", "unbind", "mark", "purge"}
Commands ==
  {c \in [kind : Kinds, seq : Nat, zone : Zones \cup {0}] :
     c.kind \in {"arrive", "move", "goto"} => c.zone \in Zones}

(* The types of a ZoneState's maps and of the logs (sim/state.go). *)
TypeOK ==
  /\ presence \in [Zones -> Presences]
  /\ seq \in [Zones -> Nat] /\ transit \in [Zones -> Nat] /\ placed \in [Zones -> Nat]
  /\ target \in [Zones -> Zones]
  /\ sealed \in BOOLEAN /\ spawned \in BOOLEAN /\ purged \in BOOLEAN /\ deleted \in BOOLEAN
  /\ log \in [Zones -> Seq(Commands)] /\ since \in [Zones -> Seq(Commands)]
  /\ known \subseteq Zones
  /\ commands \in Nat /\ losses \in Nat /\ crashes \in Nat

(* The Character has one body: no Command can act on it in two Zones, however *)
(* retries, late acks and stale Arrives are interleaved.  With a crash this    *)
(* is what glossary.md's "a crash anywhere leaves the Entity in exactly one    *)
(* authoritative place" says.                                                  *)
OneBody == \A y, z \in Zones : InZone(y) /\ InZone(z) => y = z

(* A body once created is never lost (depart, applyHandoffAck): unless a Purge *)
(* removed it, a Zone holds it, or holds a record whose Arrive the target has  *)
(* yet to decide, so that a retry places it.                                   *)
NeverLost ==
  spawned /\ ~purged =>
    \/ \E z \in Zones : InZone(z)
    \/ \E z \in Zones : InTransit(z) /\ ~Decided(target[z], transit[z])

(* A purged Character stays gone (applyPurgeCharacter keeps the marks): no *)
(* late Arrive, retry or Bind brings its body back.                        *)
StaysPurged ==
  purged => \A z \in Zones : ~InZone(z) /\ (InTransit(z) => Decided(target[z], transit[z]))

(* A Character that was ever bound and not purged is in exactly one place      *)
(* (depart, applyArrive, applyHandoffAck, applyPurgeCharacter): one body, or   *)
(* one record that a retry will place; purged, it is in none.                  *)
InOnePlace == OneBody /\ NeverLost /\ StaysPurged

(* The newest handoff is where the body is (validateArrive's marks): no record *)
(* in transit is newer than the body, so every record left is only waiting for *)
(* its ack.                                                                    *)
BodyIsNewest ==
  \A y, z \in Zones : InZone(z) /\ InTransit(y) => transit[y] <= seq[z]

(* A Zone holds a Character in its Entities or in its Transit, never both:     *)
(* locate would answer "you are between places" for a body that stands there,  *)
(* and a later departure would overwrite the record.                           *)
HereOrBetween == \A z \in Zones : ~(InZone(z) /\ InTransit(z))

(* What a Zone holds agrees with its mark (markPlaced, depart), through any    *)
(* crash: a body stands at the handoff the Zone last decided and a record in   *)
(* transit is the one after it, so every retry of an Arrive that was placed is *)
(* recognised whichever Zone state a recovery came back to.                    *)
HeldAtMark ==
  \A z \in Zones :
    /\ InZone(z) => seq[z] = placed[z]
    /\ InTransit(z) => transit[z] = placed[z] + 1

(* validateArrive never meets entity_present: verbs.go says of it "It can't    *)
(* happen with sequences that only grow, so it is logged at error".            *)
NeverEntityPresent ==
  \A z \in Zones : log[z] # <<>> =>
    LET c == Head(log[z]) IN c.kind = "arrive" => ~EntityPresent(z, c.seq)

(* Marks and sequences decide which Arrive is the newest (validateArrive): no  *)
(* older one is ever taken for it, and a Zone is never asked to place a body   *)
(* it holds.                                                                   *)
NewestWins == BodyIsNewest /\ NeverEntityPresent

(* A Bind makes a new body only for a Character that has none: character.go's *)
(* "Never bound: a new body at the spawn Room."                               *)
Spawns(z) == presence[z] = "absent" /\ presence'[z] = "present" /\ seq'[z] = 0 /\ crashes' = crashes

SpawnsOnce == [][\A z \in Zones : Spawns(z) => ~spawned]_vars

(* A crash loses no body: it can still be found in a Zone, in a record whose *)
(* Arrive is to be decided, or in an Arrive the log holds for a Zone that    *)
(* will place it.  applyArrive's comment says "an arrival is never bounced   *)
(* and never lost", and glossary.md that "a crash anywhere leaves the Entity *)
(* in exactly one authoritative place".                                      *)
Undecided(z) == \E i \in 1..Len(log[z]) : log[z][i].kind = "arrive" /\ ~Decided(z, log[z][i].seq)

Recoverable ==
  spawned /\ ~purged =>
    \E z \in Zones :
      \/ InZone(z)
      \/ InTransit(z) /\ ~Decided(target[z], transit[z])
      \/ Undecided(z)

(* No Character stays between Zones: a transit record is acked, or a newer *)
(* handoff supersedes it, though Arrives and acks are lost (the retries of *)
(* DueHandoffs, and applyArrive acking what it decided before).            *)
HandoffSettles == \A z \in Zones : InTransit(z) ~> ~InTransit(z)

================================================================================
