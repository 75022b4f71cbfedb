----------------------------- MODULE HandoffProofs -----------------------------
(******************************************************************************)
(* What holds of a Zone's own maps through any number of Zones, Commands,     *)
(* losses, retries, swaps and crashes; and, without a crash, of the Character *)
(* across all of them: it is in exactly one place.                            *)
(******************************************************************************)
EXTENDS Handoff, TLAPS

(* The parts of a World's state that one Zone's handlers keep in step: what is *)
(* held, at which sequence, against the Zone's mark.                           *)
Kept(pr, sq, tr, pl) ==
  \A z \in Zones :
    /\ pr[z] = "absent" => sq[z] = 0
    /\ pr[z] # "absent" => tr[z] = 0 /\ sq[z] = pl[z]
    /\ tr[z] # 0 => tr[z] = pl[z] + 1

(* A recovery brings back an older state, so that one is kept in step too. *)
HandoffInv ==
  /\ Kept(presence, seq, transit, placed)
  /\ Kept(durable.presence, durable.seq, durable.transit, durable.placed)

(* The types of the state a recovery goes back to. *)
DurableOK ==
  durable \in [presence : [Zones -> Presences], seq : [Zones -> Nat], transit : [Zones -> Nat],
               target : [Zones -> Zones], placed : [Zones -> Nat],
               sealed : BOOLEAN, spawned : BOOLEAN, purged : BOOLEAN]

Types == TypeOK /\ DurableOK

--------------------------------------------------------------------------------
(* Every Command the model puts on a log is one. *)
LEMMA CommandTypes ==
  ASSUME NEW n \in Nat, NEW z \in Zones
  PROVE  /\ Arrive(n, z) \in Commands /\ HandoffAck(n) \in Commands
         /\ Move(z) \in Commands /\ Goto(z) \in Commands
         /\ Bind(z) \in Commands /\ Bind(0) \in Commands
         /\ Unbind \in Commands /\ MarkLinkdead \in Commands /\ Purge \in Commands
BY DEF Arrive, HandoffAck, Move, Goto, Bind, Unbind, MarkLinkdead, Purge, Command, Commands, Kinds

(* Producing a Command to a Zone keeps the logs' type. *)
LEMMA ProduceType ==
  ASSUME NEW rest \in [Zones -> Seq(Commands)], NEW z \in Zones, NEW c \in Commands,
         losses \in Nat, Produce(rest, z, c)
  PROVE  log' \in [Zones -> Seq(Commands)] /\ losses' \in Nat
<1>1. [rest EXCEPT ![z] = Append(@, c)] \in [Zones -> Seq(Commands)]
  OBVIOUS
<1>2. losses + 1 \in Nat
  OBVIOUS
<1>3. CASE log' = [rest EXCEPT ![z] = Append(@, c)] /\ UNCHANGED losses
  BY <1>1, <1>3, Zenon
<1>4. CASE losses' = losses + 1 /\ log' = rest
  BY <1>2, <1>4, Zenon
<1> QED BY <1>3, <1>4, Zenon DEF Produce

(* The log a record is taken from. *)
LEMMA RestType ==
  ASSUME log \in [Zones -> Seq(Commands)], NEW z \in Zones, log[z] # <<>>
  PROVE  Rest(z) \in [Zones -> Seq(Commands)] /\ Head(log[z]) \in Commands
<1>1. log[z] \in Seq(Commands)
  OBVIOUS
<1>2. Tail(log[z]) \in Seq(Commands) /\ Head(log[z]) \in Commands
  BY <1>1
<1> QED BY <1>2 DEF Rest

(* Applying one record changes the Zone maps within their types. *)
LEMMA ApplyTypes ==
  ASSUME TypeOK, NEW z \in Zones, Apply(z)
  PROVE  TypeOK'
<1> DEFINE c == Head(log[z])
<1>t. /\ presence \in [Zones -> Presences] /\ seq \in [Zones -> Nat] /\ transit \in [Zones -> Nat]
      /\ placed \in [Zones -> Nat] /\ target \in [Zones -> Zones] /\ losses \in Nat
      /\ spawned \in BOOLEAN /\ purged \in BOOLEAN /\ known \subseteq Zones
      /\ log \in [Zones -> Seq(Commands)] /\ since \in [Zones -> Seq(Commands)]
  BY DEF TypeOK
<1>r. Rest(z) \in [Zones -> Seq(Commands)] /\ c \in Commands
  BY <1>t, RestType DEF Apply
<1>c. /\ c.kind \in Kinds /\ c.seq \in Nat /\ c.zone \in Zones \cup {0}
      /\ c.kind \in {"arrive", "move", "goto"} => c.zone \in Zones
  BY <1>r DEF Commands
<1>n. ProduceNothing(z) => log' \in [Zones -> Seq(Commands)] /\ losses' \in Nat
  BY <1>t, <1>r DEF ProduceNothing
<1> DEFINE Maps ==
      /\ presence' \in [Zones -> Presences] /\ seq' \in [Zones -> Nat] /\ transit' \in [Zones -> Nat]
      /\ placed' \in [Zones -> Nat] /\ target' \in [Zones -> Zones] /\ losses' \in Nat
      /\ spawned' \in BOOLEAN /\ purged' \in BOOLEAN /\ known' \subseteq Zones
      /\ log' \in [Zones -> Seq(Commands)]
<1>p. /\ [presence EXCEPT ![z] = "absent"] \in [Zones -> Presences]
      /\ [presence EXCEPT ![z] = "present"] \in [Zones -> Presences]
      /\ [presence EXCEPT ![z] = "linkdead"] \in [Zones -> Presences]
      /\ [presence EXCEPT ![z] = "dormant"] \in [Zones -> Presences]
  BY <1>t DEF Presences
<1>s. /\ [seq EXCEPT ![z] = 0] \in [Zones -> Nat]
      /\ [seq EXCEPT ![z] = c.seq] \in [Zones -> Nat] /\ [placed EXCEPT ![z] = c.seq] \in [Zones -> Nat]
  BY <1>t, <1>c
<1>d. DropTransit(z) => transit' \in [Zones -> Nat] /\ target' \in [Zones -> Zones]
  BY <1>t DEF DropTransit
<1>x. Nothing(z) => Maps
  BY <1>t, <1>n DEF Nothing
<1> HIDE DEF c
<1>1. ApplyMove(z, c) => Maps
  <2> SUFFICES ASSUME ApplyMove(z, c), ~Nothing(z) PROVE Maps
    BY <1>x
  <2>1. Depart(z, c.zone) /\ c.zone \in Zones
    BY <1>c DEF ApplyMove
  <2>2. seq[z] + 1 \in Nat
    BY <1>t
  <2>3. log' \in [Zones -> Seq(Commands)] /\ losses' \in Nat
    BY <2>1, <2>2, <1>r, <1>t, ProduceType, CommandTypes DEF Depart
  <2> QED BY <2>1, <2>2, <2>3, <1>t, <1>p, <1>s DEF Depart
<1>2. ApplyArrive(z, c) => Maps
  <2> SUFFICES ASSUME ApplyArrive(z, c), ~Nothing(z) PROVE Maps
    BY <1>x
  <2>1. Produce(Rest(z), c.zone, HandoffAck(c.seq)) /\ c.zone \in Zones
    BY <1>c DEF ApplyArrive
  <2>2. log' \in [Zones -> Seq(Commands)] /\ losses' \in Nat
    BY <2>1, <1>c, <1>r, <1>t, ProduceType, CommandTypes
  <2>3. CASE Decided(z, c.seq)
    <3>1. UNCHANGED <<presence, seq, transit, target, placed, spawned, purged, known>>
      BY <2>3 DEF ApplyArrive, EntityPresent
    <3> QED BY <3>1, <2>2, <1>t
  <2>4. CASE ~Decided(z, c.seq)
    <3>1. /\ presence' = [presence EXCEPT ![z] = "present"] /\ DropTransit(z)
          /\ seq' = [seq EXCEPT ![z] = c.seq] /\ placed' = [placed EXCEPT ![z] = c.seq]
          /\ known' = known \cup {z} /\ UNCHANGED <<spawned, purged>>
      BY <2>4 DEF ApplyArrive
    <3>2. known' \subseteq Zones
      BY <3>1, <1>t
    <3> QED BY <3>1, <3>2, <2>2, <1>t, <1>p, <1>s, <1>d
  <2> QED BY <2>3, <2>4
<1>3. ApplyAck(z, c) => Maps
  BY <1>x, <1>n, <1>d, <1>t DEF ApplyAck
<1>4. ApplyBind(z, c) => Maps
  <2> SUFFICES ASSUME ApplyBind(z, c), ~Nothing(z) PROVE Maps
    BY <1>x
  <2>1. CASE ProduceNothing(z)
    BY <2>1, <1>n, <1>t, <1>p, <1>s DEF ApplyBind, Nothing
  <2>2. CASE \E y \in Elsewhere(z) : /\ Produce(Rest(z), y, Bind(0))
                                     /\ UNCHANGED <<presence, seq, transit, target, placed, spawned, purged, known>>
    <3> PICK y \in Zones : /\ Produce(Rest(z), y, Bind(0))
                           /\ UNCHANGED <<presence, seq, transit, target, placed, spawned, purged, known>>
      BY <2>2 DEF Elsewhere
    <3>1. log' \in [Zones -> Seq(Commands)] /\ losses' \in Nat
      BY <1>r, <1>t, ProduceType, CommandTypes
    <3> QED BY <3>1, <1>t
  <2> QED BY <2>1, <2>2 DEF ApplyBind
<1>5. ApplyUnbind(z, c) => Maps
  BY <1>x, <1>n, <1>t, <1>p, <1>s DEF ApplyUnbind
<1>6. ApplyMark(z, c) => Maps
  BY <1>x, <1>n, <1>t, <1>p, <1>s DEF ApplyMark
<1>7. ApplyPurge(z, c) => Maps
  <2> SUFFICES ASSUME ApplyPurge(z, c), ~Nothing(z) PROVE Maps
    BY <1>x
  <2>1. CASE InZone(z)
    BY <2>1, <1>n, <1>t, <1>p, <1>s DEF ApplyPurge
  <2>2. CASE ~InZone(z)
    <3>1. PICK y \in Zones :
            /\ Produce(Rest(z), y, Purge)
            /\ UNCHANGED <<presence, seq, transit, target, placed, spawned, purged, known>>
      BY <2>2 DEF ApplyPurge, Elsewhere
    <3>2. log' \in [Zones -> Seq(Commands)] /\ losses' \in Nat
      BY <3>1, <1>r, <1>t, ProduceType, CommandTypes
    <3> QED BY <3>1, <3>2, <1>t
  <2> QED BY <2>1, <2>2
<1>8. Maps
  BY <1>1, <1>2, <1>3, <1>4, <1>5, <1>6, <1>7 DEF Apply, c
<1>9. since' \in [Zones -> Seq(Commands)]
  BY <1>t, <1>r DEF Apply, c
<1>10. UNCHANGED <<sealed, durable, deleted, commands, crashes>>
  BY DEF Apply
<1> QED BY <1>8, <1>9, <1>10 DEF TypeOK

(* Every step keeps the types. *)
LEMMA TypeStep == Types /\ [Next]_vars => Types'
<1> SUFFICES ASSUME TypeOK, DurableOK, [Next]_vars PROVE TypeOK' /\ DurableOK'
  BY DEF Types
<1>t. /\ presence \in [Zones -> Presences] /\ seq \in [Zones -> Nat] /\ transit \in [Zones -> Nat]
      /\ placed \in [Zones -> Nat] /\ target \in [Zones -> Zones] /\ losses \in Nat
      /\ sealed \in BOOLEAN /\ spawned \in BOOLEAN /\ purged \in BOOLEAN /\ deleted \in BOOLEAN
      /\ known \subseteq Zones /\ commands \in Nat /\ crashes \in Nat
      /\ log \in [Zones -> Seq(Commands)] /\ since \in [Zones -> Seq(Commands)]
  BY DEF TypeOK
<1>1. ASSUME NEW z \in Zones, Apply(z) PROVE TypeOK' /\ DurableOK'
  <2>1. durable' = durable
    BY <1>1 DEF Apply
  <2> QED BY <1>1, <2>1, ApplyTypes DEF DurableOK
<1>2. ASSUME NEW z \in Zones, ExpireLinkdead(z) PROVE TypeOK' /\ DurableOK'
  <2>1. [presence EXCEPT ![z] = "dormant"] \in [Zones -> Presences]
    BY <1>t DEF Presences
  <2> QED BY <1>2, <1>t, <2>1 DEF ExpireLinkdead, TypeOK, DurableOK, counters
<1>3. ASSUME NEW z \in Zones, Retry(z) PROVE TypeOK' /\ DurableOK'
  <2>1. target[z] \in Zones /\ transit[z] \in Nat
    BY <1>t
  <2>2. log' \in [Zones -> Seq(Commands)] /\ losses' \in Nat
    BY <1>3, <2>1, <1>t, ProduceType, CommandTypes DEF Retry
  <2> QED BY <1>3, <1>t, <2>2 DEF Retry, state, TypeOK, DurableOK
<1>4. ASSUME NEW z \in Zones, Gateway(z) PROVE TypeOK' /\ DurableOK'
  <2>1. Travels(z) \subseteq Commands
    <3>1. \A y \in Zones : Move(y) \in Commands /\ Goto(y) \in Commands
      BY CommandTypes
    <3> QED BY <3>1 DEF Travels
  <2>2. Bind(z) \in Commands /\ Unbind \in Commands /\ MarkLinkdead \in Commands
    BY CommandTypes
  <2>3. PICK c \in Commands : log' = [log EXCEPT ![z] = Append(@, c)]
    BY <1>4, <2>1, <2>2 DEF Gateway
  <2>4. log' \in [Zones -> Seq(Commands)]
    BY <2>3, <1>t
  <2>5. /\ UNCHANGED <<presence, seq, transit, target, placed, sealed, spawned, purged>>
        /\ UNCHANGED <<durable, since, known, deleted, losses, crashes>> /\ commands' = commands + 1
    BY <1>4 DEF Gateway, state
  <2>6. DurableOK' /\ commands' \in Nat
    <3>1. DurableOK'
      BY <2>5, Zenon DEF DurableOK
    <3> QED BY <1>t, <2>5, <3>1
  <2>7. TypeOK'
    BY <1>t, <2>4, <2>5, <2>6, Zenon DEF TypeOK
  <2> QED BY <2>6, <2>7
<1>5. ASSUME NEW z \in Zones, Sweep(z) PROVE TypeOK' /\ DurableOK'
  <2>1. Purge \in Commands
    BY CommandTypes
  <2>2. log' \in [Zones -> Seq(Commands)]
    BY <1>5, <2>1, <1>t DEF Sweep
  <2>3. /\ UNCHANGED <<presence, seq, transit, target, placed, sealed, spawned, purged>>
        /\ UNCHANGED <<durable, since, known, losses, crashes>>
        /\ commands' = commands + 1 /\ deleted' = TRUE
    BY <1>5 DEF Sweep, state
  <2>4. DurableOK' /\ commands' \in Nat /\ deleted' \in BOOLEAN
    <3>1. DurableOK'
      BY <2>3, Zenon DEF DurableOK
    <3> QED BY <1>t, <2>3, <3>1
  <2>5. TypeOK'
    BY <1>t, <2>2, <2>3, <2>4, Zenon DEF TypeOK
  <2> QED BY <2>4, <2>5
<1>6. CASE Swap
  BY <1>6, <1>t DEF Swap, TypeOK, DurableOK, counters
<1>7. CASE BoundaryDelivered
  <2>1. since' \in [Zones -> Seq(Commands)] /\ DurableOK'
    BY <1>7, <1>t DEF BoundaryDelivered, Snapshot, DurableOK
  <2> QED BY <1>7, <1>t, <2>1 DEF BoundaryDelivered, state, counters, TypeOK
<1>8. CASE Crash
  <2>1. log' \in [Zones -> Seq(Commands)]
    <3>1. PICK marked : log' = [z \in Zones |-> since[z] \o log[z] \o (IF z \in marked THEN <<MarkLinkdead>> ELSE <<>>)]
      BY <1>8 DEF Crash
    <3>2. MarkLinkdead \in Commands
      BY DEF MarkLinkdead, Command, Commands, Kinds
    <3>3. \A z \in Zones : since[z] \o log[z] \o (IF z \in marked THEN <<MarkLinkdead>> ELSE <<>>) \in Seq(Commands)
      BY <3>2, <1>t
    <3> QED BY <3>1, <3>3
  <2>2. since' \in [Zones -> Seq(Commands)]
    BY <1>8 DEF Crash
  <2>3. DurableOK'
    BY <1>8 DEF Crash, DurableOK
  <2>4. /\ presence' \in [Zones -> Presences] /\ seq' \in [Zones -> Nat] /\ transit' \in [Zones -> Nat]
        /\ placed' \in [Zones -> Nat] /\ target' \in [Zones -> Zones]
        /\ sealed' \in BOOLEAN /\ spawned' \in BOOLEAN /\ purged' \in BOOLEAN
    BY <1>8 DEF Crash, DurableOK
  <2>5. deleted' \in BOOLEAN /\ known' \subseteq Zones /\ commands' \in Nat /\ losses' \in Nat /\ crashes' \in Nat
    BY <1>8, <1>t DEF Crash
  <2> QED BY <2>1, <2>2, <2>3, <2>4, <2>5 DEF TypeOK
<1>9. CASE UNCHANGED vars
  BY <1>9 DEF vars, state, counters, TypeOK, DurableOK
<1> QED BY <1>1, <1>2, <1>3, <1>4, <1>5, <1>6, <1>7, <1>8, <1>9 DEF Next

--------------------------------------------------------------------------------
(* One record keeps a Zone's maps in step. *)
LEMMA ApplyKept ==
  ASSUME TypeOK, Kept(presence, seq, transit, placed), NEW z \in Zones, Apply(z)
  PROVE  Kept(presence, seq, transit, placed)'
<1> DEFINE c == Head(log[z])
<1>t. /\ presence \in [Zones -> Presences] /\ seq \in [Zones -> Nat] /\ transit \in [Zones -> Nat]
      /\ placed \in [Zones -> Nat]
  BY DEF TypeOK
<1>k. \A y \in Zones : /\ presence[y] = "absent" => seq[y] = 0
                       /\ presence[y] # "absent" => transit[y] = 0 /\ seq[y] = placed[y]
                       /\ transit[y] # 0 => transit[y] = placed[y] + 1
  BY DEF Kept
<1> DEFINE Good == Kept(presence', seq', transit', placed')
<1>x. Nothing(z) => Good
  BY <1>k DEF Nothing, Kept
<1>u. UNCHANGED <<presence, seq, transit, placed>> => Good
  BY <1>k DEF Kept
<1> HIDE DEF c
<1>1. ApplyMove(z, c) => Good
  <2> SUFFICES ASSUME Depart(z, c.zone), CanAct(z) PROVE Good
    BY <1>x DEF ApplyMove
  <2>1. presence[z] # "absent"
    BY DEF CanAct
  <2> QED BY <1>k, <1>t, <2>1 DEF Depart, Kept
<1>2. ApplyArrive(z, c) => Good
  <2> SUFFICES ASSUME ApplyArrive(z, c), ~Nothing(z), ~UNCHANGED <<presence, seq, transit, placed>> PROVE Good
    BY <1>x, <1>u
  <2>1. /\ presence' = [presence EXCEPT ![z] = "present"]
        /\ seq' = [seq EXCEPT ![z] = c.seq] /\ placed' = [placed EXCEPT ![z] = c.seq]
        /\ transit' = [transit EXCEPT ![z] = 0]
    BY DEF ApplyArrive, DropTransit
  <2> QED BY <2>1, <1>k, <1>t DEF Kept
<1>3. ApplyAck(z, c) => Good
  <2> SUFFICES ASSUME transit' = [transit EXCEPT ![z] = 0], UNCHANGED <<presence, seq, placed>> PROVE Good
    BY <1>x DEF ApplyAck, DropTransit
  <2> QED BY <1>k, <1>t DEF Kept
<1>4. ApplyBind(z, c) => Good
  <2> SUFFICES ASSUME ApplyBind(z, c), ~Nothing(z), ~UNCHANGED <<presence, seq, transit, placed>> PROVE Good
    BY <1>x, <1>u
  <2>1. /\ presence' = [presence EXCEPT ![z] = "present"]
        /\ UNCHANGED <<seq, transit, placed>>
        /\ InZone(z) \/ Unseen
    BY DEF ApplyBind
  <2>2. CASE InZone(z)
    BY <2>1, <2>2, <1>k, <1>t DEF Kept, InZone
  <2>3. CASE Unseen
    BY <2>1, <2>3, <1>k, <1>t DEF Kept, Unseen, InZone, InTransit
  <2> QED BY <2>1, <2>2, <2>3
<1>5. ApplyUnbind(z, c) => Good
  <2> SUFFICES ASSUME CanAct(z), presence' = [presence EXCEPT ![z] = "dormant"], UNCHANGED <<seq, transit, placed>>
               PROVE  Good
    BY <1>x DEF ApplyUnbind
  <2> QED BY <1>k, <1>t DEF Kept, CanAct
<1>6. ApplyMark(z, c) => Good
  <2> SUFFICES ASSUME CanAct(z), presence' = [presence EXCEPT ![z] = "linkdead"], UNCHANGED <<seq, transit, placed>>
               PROVE  Good
    BY <1>x DEF ApplyMark
  <2> QED BY <1>k, <1>t DEF Kept, CanAct
<1>7. ApplyPurge(z, c) => Good
  <2> SUFFICES ASSUME InZone(z), presence' = [presence EXCEPT ![z] = "absent"], seq' = [seq EXCEPT ![z] = 0],
                      UNCHANGED <<transit, placed>>
               PROVE  Good
    BY <1>x, <1>u DEF ApplyPurge
  <2> QED BY <1>k, <1>t DEF Kept, InZone
<1> QED BY <1>1, <1>2, <1>3, <1>4, <1>5, <1>6, <1>7 DEF Apply, c

(* Every step keeps them in step, a recovery to an older state included. *)
LEMMA HandoffStep == Types /\ HandoffInv /\ [Next]_vars => HandoffInv'
<1> SUFFICES ASSUME TypeOK, HandoffInv, [Next]_vars PROVE HandoffInv'
  BY DEF Types
<1>u. ASSUME UNCHANGED <<presence, seq, transit, placed, durable>> PROVE HandoffInv'
  BY <1>u DEF HandoffInv, Kept
<1>1. ASSUME NEW z \in Zones, Apply(z) PROVE HandoffInv'
  <2>1. durable' = durable
    BY <1>1 DEF Apply
  <2>2. Kept(presence, seq, transit, placed)'
    BY <1>1, ApplyKept DEF HandoffInv
  <2> QED BY <2>1, <2>2 DEF HandoffInv, Kept
<1>2. ASSUME NEW z \in Zones, ExpireLinkdead(z) PROVE HandoffInv'
  <2>1. presence \in [Zones -> Presences]
    BY DEF TypeOK
  <2> QED BY <1>2, <2>1 DEF ExpireLinkdead, HandoffInv, Kept
<1>3. ASSUME NEW z \in Zones, Retry(z) \/ Gateway(z) \/ Sweep(z) PROVE HandoffInv'
  BY <1>3, <1>u DEF Retry, Gateway, Sweep, state
<1>4. CASE Swap
  BY <1>4, <1>u DEF Swap
<1>5. CASE BoundaryDelivered
  <2>1. UNCHANGED <<presence, seq, transit, placed>>
    BY <1>5 DEF BoundaryDelivered, state
  <2>2. /\ durable'.presence = presence /\ durable'.seq = seq
        /\ durable'.transit = transit /\ durable'.placed = placed
    BY <1>5 DEF BoundaryDelivered, Snapshot
  <2> QED BY <2>1, <2>2 DEF HandoffInv, Kept
<1>6. CASE Crash
  BY <1>6 DEF Crash, HandoffInv, Kept
<1>7. CASE UNCHANGED vars
  BY <1>7, <1>u DEF vars, state
<1> QED BY <1>1, <1>2, <1>3, <1>4, <1>5, <1>6, <1>7 DEF Next

LEMMA HandoffInit == Init => Types /\ HandoffInv
<1> SUFFICES ASSUME Init PROVE Types /\ HandoffInv
  OBVIOUS
<1>1. SpawnZone \in Zones
  BY HandoffAssumption DEF SpawnZone, Zones
<1>2. TypeOK
  <2>1. [z \in Zones |-> <<>>] \in [Zones -> Seq(Commands)]
    OBVIOUS
  <2>2. log \in [Zones -> Seq(Commands)] /\ since \in [Zones -> Seq(Commands)]
    BY <2>1 DEF Init
  <2>3. /\ presence \in [Zones -> Presences] /\ target \in [Zones -> Zones]
        /\ seq \in [Zones -> Nat] /\ transit \in [Zones -> Nat] /\ placed \in [Zones -> Nat]
    BY DEF Init, Presences
  <2>4. /\ sealed \in BOOLEAN /\ spawned \in BOOLEAN /\ purged \in BOOLEAN /\ deleted \in BOOLEAN
        /\ known \subseteq Zones /\ commands \in Nat /\ losses \in Nat /\ crashes \in Nat
    BY <1>1 DEF Init
  <2> QED BY <2>2, <2>3, <2>4 DEF TypeOK
<1>3. DurableOK
  BY <1>2 DEF Init, TypeOK, DurableOK, Snapshot
<1>4. HandoffInv
  BY DEF Init, HandoffInv, Kept, Snapshot
<1> QED BY <1>2, <1>3, <1>4 DEF Types

--------------------------------------------------------------------------------
(* The types, and that a Zone's Entities, Transit and Placed maps stay in step, *)
(* for every number of Zones, crashes, losses and retries.                      *)
THEOREM HandoffInvariant == Spec => [](TypeOK /\ HandoffInv)
<1>1. Types /\ HandoffInv /\ [Next]_vars => Types' /\ HandoffInv'
  BY TypeStep, HandoffStep
<1>2. Types => TypeOK
  BY DEF Types
<1> QED BY <1>1, <1>2, HandoffInit, PTL DEF Spec

(* A body stands at its Zone's mark and a record in transit is the one after *)
(* it: validateArrive recognises every Arrive it decided before, whatever    *)
(* state a recovery came back to.                                            *)
THEOREM HeldIsAtMark == Spec => []HeldAtMark
<1>1. HandoffInv => HeldAtMark
  BY DEF HandoffInv, Kept, HeldAtMark, InZone, InTransit
<1> QED BY <1>1, HandoffInvariant, PTL

(* A Zone never holds a Character in its Entities and in its Transit at once. *)
THEOREM NeverHereAndBetween == Spec => []HereOrBetween
<1>1. HandoffInv => HereOrBetween
  BY DEF HandoffInv, Kept, HereOrBetween, InZone, InTransit
<1> QED BY <1>1, HandoffInvariant, PTL

--------------------------------------------------------------------------------
(* Without a crash the Character is in exactly one place.  The invariant says *)
(* where the newest handoff is, and that every record of a log agrees.        *)

(* z holds the handoff that is still to be placed. *)
Pending(z) == InTransit(z) /\ ~Decided(target[z], transit[z])

(* The body, or the handoff to be placed, is the only one and the newest.  A  *)
(* Character is nowhere before its first Bind and after its Purge.            *)
PlaceInv ==
  /\ OneBody /\ NeverLost
  /\ \A z \in Zones : InTransit(z) => target[z] # z
  /\ \A z \in Zones : InZone(z) =>
       /\ spawned /\ ~purged
       /\ \A y \in Zones : ~Pending(y) /\ transit[y] <= seq[z] /\ placed[y] <= seq[z]
  /\ \A z \in Zones : Pending(z) =>
       /\ spawned /\ ~purged
       /\ \A y \in Zones : placed[y] < transit[z] /\ (y # z => transit[y] < transit[z])
  /\ ~spawned => ~purged /\ \A z \in Zones : transit[z] = 0 /\ placed[z] = 0

(* A Bind that may create the body: it names the spawn Room of its own Zone. *)
Spawning(c, z) == c.kind = "bind" /\ c.zone = z

(* An Arrive was decided before, or is of the handoff to be placed; an ack is *)
(* of an older handoff than that one; only the Gateway's Binds can spawn, and *)
(* only deleted Characters are purged.                                        *)
RecordOK(z, c) ==
  /\ c.kind = "arrive" =>
       /\ c.seq > 0
       /\ Decided(z, c.seq) \/ \E y \in Zones : Pending(y) /\ target[y] = z /\ transit[y] = c.seq
  /\ c.kind = "ack" =>
       /\ spawned
       /\ \A y \in Zones : /\ Pending(y) => c.seq < transit[y]
                           /\ InZone(y) => c.seq <= seq[y]
  /\ c.kind \in {"move", "goto"} => c.zone # z
  /\ c.kind = "bind" => c.zone = 0 \/ (c.zone = z /\ z \in known)
  /\ c.kind = "purge" => deleted

Elements(s) == {s[i] : i \in 1..Len(s)}
Logged(z) == Elements(log[z])

RecordsInv == \A z \in Zones : \A c \in Logged(z) : RecordOK(z, c)

(* No Bind that may spawn follows a Purge in its log. *)
PurgeLast(s, z) ==
  \A i, j \in 1..Len(s) : i < j /\ s[i].kind = "purge" => ~Spawning(s[j], z)

Unmarked == \A z \in Zones : placed[z] = 0

(* A body that was never handed over stands where the first Bind put it, and   *)
(* once it is purged there is no Bind left that could create another.          *)
SpawnInv ==
  /\ \A z \in known : z = SpawnZone \/ placed[z] # 0
  /\ \A z \in Zones : InZone(z) /\ placed[z] = 0 => z = SpawnZone
  /\ \A z \in Zones : PurgeLast(log[z], z)
  /\ purged => deleted
  /\ purged /\ Unmarked => \A z \in Zones : \A c \in Logged(z) : ~Spawning(c, z)

OnePlaceInv == PlaceInv /\ RecordsInv /\ SpawnInv

(* What a step did to the logs: records were applied, and c may have been     *)
(* produced to the log of Zone to.                                            *)
Sends(to, c) ==
  /\ \A y \in Zones : \A x \in Elements(log'[y]) : x \in Logged(y) \/ (y = to /\ x = c)
  /\ \A y \in Zones : PurgeLast(log'[y], y)

--------------------------------------------------------------------------------
(* Logs, as sequences. *)

LEMMA AppendElements ==
  ASSUME NEW s \in Seq(Commands), NEW c \in Commands
  PROVE  Elements(Append(s, c)) = Elements(s) \cup {c}
<1>1. ASSUME NEW x \in Elements(Append(s, c)) PROVE x \in Elements(s) \cup {c}
  BY <1>1 DEF Elements
<1>2. ASSUME NEW x \in Elements(s) PROVE x \in Elements(Append(s, c))
  BY <1>2 DEF Elements
<1>3. c \in Elements(Append(s, c))
  <2>1. Len(Append(s, c)) \in 1..Len(Append(s, c)) /\ Append(s, c)[Len(Append(s, c))] = c
    OBVIOUS
  <2> QED BY <2>1 DEF Elements
<1> QED BY <1>1, <1>2, <1>3

LEMMA TailElements ==
  ASSUME NEW s \in Seq(Commands), s # <<>>
  PROVE  Elements(Tail(s)) \subseteq Elements(s) /\ Head(s) \in Elements(s)
<1>1. Head(s) = s[1] /\ 1 \in 1..Len(s)
  OBVIOUS
<1>2. \A i \in 1..Len(Tail(s)) : Tail(s)[i] = s[i + 1] /\ i + 1 \in 1..Len(s)
  OBVIOUS
<1> QED BY <1>1, <1>2 DEF Elements

LEMMA AppendPurgeLast ==
  ASSUME NEW s \in Seq(Commands), NEW c \in Commands, NEW z, PurgeLast(s, z),
         Spawning(c, z) => \A x \in Elements(s) : x.kind # "purge"
  PROVE  PurgeLast(Append(s, c), z)
<1> SUFFICES ASSUME NEW i \in 1..Len(Append(s, c)), NEW j \in 1..Len(Append(s, c)),
                    i < j, Append(s, c)[i].kind = "purge"
             PROVE  ~Spawning(Append(s, c)[j], z)
  BY DEF PurgeLast
<1>1. i \in 1..Len(s) /\ Append(s, c)[i] = s[i]
  OBVIOUS
<1>2. CASE j \in 1..Len(s)
  <2>1. Append(s, c)[j] = s[j]
    BY <1>2
  <2> QED BY <1>1, <1>2, <2>1 DEF PurgeLast
<1>3. CASE j \notin 1..Len(s)
  <2>1. Append(s, c)[j] = c
    BY <1>3
  <2>2. s[i] \in Elements(s) /\ s[i].kind = "purge"
    BY <1>1 DEF Elements
  <2> QED BY <2>1, <2>2
<1> QED BY <1>2, <1>3

LEMMA TailPurgeLast ==
  ASSUME NEW s \in Seq(Commands), s # <<>>, NEW z, PurgeLast(s, z)
  PROVE  /\ PurgeLast(Tail(s), z)
         /\ Head(s).kind = "purge" => \A x \in Elements(Tail(s)) : ~Spawning(x, z)
<1>1. Head(s) = s[1] /\ 1 \in 1..Len(s) /\ Len(s) \in Nat
  OBVIOUS
<1>2. \A i \in 1..Len(Tail(s)) : Tail(s)[i] = s[i + 1] /\ i + 1 \in 1..Len(s) /\ 1 < i + 1
  OBVIOUS
<1>3. ASSUME NEW i \in 1..Len(Tail(s)), NEW j \in 1..Len(Tail(s)), i < j, Tail(s)[i].kind = "purge"
      PROVE  ~Spawning(Tail(s)[j], z)
  <2>1. i + 1 \in 1..Len(s) /\ j + 1 \in 1..Len(s) /\ i + 1 < j + 1
    BY <1>2, <1>3
  <2> QED BY <2>1, <1>2, <1>3 DEF PurgeLast
<1>4. ASSUME Head(s).kind = "purge", NEW x \in Elements(Tail(s)) PROVE ~Spawning(x, z)
  <2>1. PICK i \in 1..Len(Tail(s)) : x = Tail(s)[i]
    BY DEF Elements
  <2> QED BY <2>1, <1>1, <1>2, <1>4 DEF PurgeLast
<1> QED BY <1>3, <1>4 DEF PurgeLast

(* The log without the record being applied. *)
LEMMA RestLogs ==
  ASSUME TypeOK, SpawnInv, NEW z \in Zones, log[z] # <<>>
  PROVE  /\ Rest(z) \in [Zones -> Seq(Commands)]
         /\ \A y \in Zones : Elements(Rest(z)[y]) \subseteq Logged(y) /\ PurgeLast(Rest(z)[y], y)
         /\ Head(log[z]) \in Logged(z)
         /\ Head(log[z]).kind = "purge" => \A x \in Elements(Rest(z)[z]) : ~Spawning(x, z)
<1>1. log \in [Zones -> Seq(Commands)] /\ log[z] \in Seq(Commands)
  BY DEF TypeOK
<1>2. /\ Tail(log[z]) \in Seq(Commands) /\ Elements(Tail(log[z])) \subseteq Elements(log[z])
      /\ Head(log[z]) \in Elements(log[z])
  BY <1>1, TailElements
<1>3. PurgeLast(log[z], z)
  BY DEF SpawnInv
<1>4. /\ PurgeLast(Tail(log[z]), z)
      /\ Head(log[z]).kind = "purge" => \A x \in Elements(Tail(log[z])) : ~Spawning(x, z)
  BY <1>1, <1>3, TailPurgeLast
<1>5. Rest(z)[z] = Tail(log[z]) /\ \A y \in Zones : y # z => Rest(z)[y] = log[y]
  BY <1>1 DEF Rest
<1>6. Rest(z) \in [Zones -> Seq(Commands)]
  BY <1>1, <1>2 DEF Rest
<1>7. \A y \in Zones : Elements(Rest(z)[y]) \subseteq Logged(y)
  BY <1>2, <1>5 DEF Logged
<1>8. \A y \in Zones : PurgeLast(Rest(z)[y], y)
  BY <1>4, <1>5 DEF SpawnInv
<1> QED BY <1>2, <1>4, <1>5, <1>6, <1>7, <1>8 DEF Logged

(* What Produce does, lost or not. *)
LEMMA ProduceSends ==
  ASSUME NEW rest \in [Zones -> Seq(Commands)], NEW to \in Zones, NEW c \in Commands,
         \A y \in Zones : Elements(rest[y]) \subseteq Logged(y) /\ PurgeLast(rest[y], y),
         Spawning(c, to) => \A x \in Elements(rest[to]) : x.kind # "purge",
         \/ log' = [rest EXCEPT ![to] = Append(@, c)]
         \/ log' = rest
  PROVE  Sends(to, c)
<1>1. CASE log' = rest
  BY <1>1 DEF Sends
<1>2. CASE log' = [rest EXCEPT ![to] = Append(@, c)]
  <2>1. log'[to] = Append(rest[to], c) /\ \A y \in Zones : y # to => log'[y] = rest[y]
    BY <1>2
  <2>2. rest[to] \in Seq(Commands)
    OBVIOUS
  <2>3. Elements(log'[to]) = Elements(rest[to]) \cup {c}
    BY <2>1, <2>2, AppendElements
  <2>4. PurgeLast(rest[to], to)
    OBVIOUS
  <2>5. PurgeLast(log'[to], to)
    BY <2>1, <2>2, <2>4, AppendPurgeLast
  <2> QED BY <2>1, <2>3, <2>5 DEF Sends
<1> QED BY <1>1, <1>2

--------------------------------------------------------------------------------
(* What each kind of step does to the place of the Character. *)

PlaceTypes ==
  /\ \A z \in Zones : Logged(z) \subseteq Commands
  /\ presence \in [Zones -> Presences] /\ target \in [Zones -> Zones]
  /\ seq \in [Zones -> Nat] /\ transit \in [Zones -> Nat] /\ placed \in [Zones -> Nat]

LEMMA TypesOfPlace == TypeOK => PlaceTypes
BY DEF TypeOK, PlaceTypes, Logged, Elements

(* The records of the next state are right when those of this one stay right  *)
(* and the one that was produced is.                                          *)
LEMMA RecordsStep ==
  ASSUME NEW to \in Zones, NEW c, Sends(to, c), RecordOK(to, c)',
         \A z \in Zones : \A x \in Logged(z) : RecordOK(z, x)'
  PROVE  RecordsInv'
<1> SUFFICES ASSUME NEW z \in Zones, NEW x \in Elements(log'[z]) PROVE RecordOK(z, x)'
  BY DEF RecordsInv, Logged
<1>1. x \in Logged(z) \/ (z = to /\ x = c)
  BY DEF Sends
<1> QED BY <1>1

(* No body is created, moved or removed: it may be woken, marked or put to     *)
(* sleep where it stands, and a Command that is right about the place is       *)
(* produced.                                                                   *)
LEMMA StayStep ==
  ASSUME PlaceTypes, OnePlaceInv,
         UNCHANGED <<seq, transit, target, placed, spawned, purged, known>>,
         \A z \in Zones : presence'[z] = "absent" <=> presence[z] = "absent",
         deleted => deleted',
         NEW to \in Zones, NEW c, Sends(to, c),
         \/ c \in Logged(to)
         \/ c.kind = "purge" /\ deleted'
         \/ RecordOK(to, c) /\ (purged => ~Spawning(c, to))
  PROVE  OnePlaceInv'
<1>1. \A z \in Zones : InZone(z)' <=> InZone(z)
  BY DEF InZone
<1>2. \A z \in Zones : (InTransit(z)' <=> InTransit(z)) /\ (Pending(z)' <=> Pending(z))
  BY DEF InTransit, Pending, Decided
<1>3. PlaceInv'
  <2>1. OneBody' /\ NeverLost'
    BY <1>1, <1>2 DEF OnePlaceInv, PlaceInv, OneBody, NeverLost, Pending
  <2> QED BY <1>1, <1>2, <2>1 DEF OnePlaceInv, PlaceInv
<1>4. ASSUME NEW z \in Zones, NEW x, RecordOK(z, x) PROVE RecordOK(z, x)'
  BY <1>1, <1>2, <1>4 DEF RecordOK, Decided
<1>5. RecordsInv'
  <2>1. \A z \in Zones : \A x \in Logged(z) : RecordOK(z, x)'
    BY <1>4 DEF OnePlaceInv, RecordsInv
  <2>2. c.kind = "purge" /\ deleted' => RecordOK(to, c)'
    BY DEF RecordOK
  <2> QED BY <2>1, <2>2, <1>4, RecordsStep
<1>6. SpawnInv'
  <2>1. \A z \in Zones : PurgeLast(log'[z], z)
    BY DEF Sends
  <2>2. ASSUME purged, Unmarked, NEW z \in Zones, NEW x \in Elements(log'[z]) PROVE ~Spawning(x, z)
    <3>1. x \in Logged(z) \/ (z = to /\ x = c)
      BY DEF Sends
    <3> QED BY <3>1, <2>2 DEF OnePlaceInv, SpawnInv, Spawning
  <2>3. Unmarked' <=> Unmarked
    BY DEF Unmarked
  <2> QED BY <1>1, <2>1, <2>2, <2>3 DEF OnePlaceInv, SpawnInv, Logged
<1> QED BY <1>3, <1>5, <1>6 DEF OnePlaceInv

(* depart: the body becomes the handoff to be placed, newer than any mark. *)
LEMMA DepartStep ==
  ASSUME PlaceTypes, Kept(presence, seq, transit, placed), OnePlaceInv,
         NEW z \in Zones, NEW to \in Zones, to # z, InZone(z),
         presence' = [presence EXCEPT ![z] = "absent"],
         seq' = [seq EXCEPT ![z] = 0],
         transit' = [transit EXCEPT ![z] = seq[z] + 1],
         target' = [target EXCEPT ![z] = to],
         UNCHANGED <<placed, spawned, purged, known, deleted>>,
         NEW c, c = Arrive(seq[z] + 1, z), Sends(to, c)
  PROVE  OnePlaceInv'
<1>n. /\ \A y \in Zones : seq[y] \in Nat /\ transit[y] \in Nat /\ placed[y] \in Nat /\ target[y] \in Zones
      /\ seq[z] + 1 \in Nat /\ seq[z] + 1 > 0
  BY DEF PlaceTypes
<1>b. /\ spawned /\ ~purged
      /\ \A y \in Zones : ~Pending(y) /\ transit[y] <= seq[z] /\ placed[y] <= seq[z]
      /\ \A y \in Zones : InZone(y) => y = z
  BY DEF OnePlaceInv, PlaceInv, OneBody
<1>1. /\ presence'[z] = "absent" /\ transit'[z] = seq[z] + 1 /\ target'[z] = to
      /\ \A y \in Zones : y # z => presence'[y] = presence[y] /\ transit'[y] = transit[y] /\ target'[y] = target[y]
  BY DEF PlaceTypes
<1>2. \A y \in Zones : ~InZone(y)'
  BY <1>1, <1>b DEF InZone
<1>3. Pending(z)' /\ \A y \in Zones : Pending(y)' => y = z
  <2>1. Pending(z)'
    BY <1>1, <1>b, <1>n DEF Pending, InTransit, Decided
  <2>2. ASSUME NEW y \in Zones, y # z PROVE ~Pending(y)'
    BY <2>2, <1>1, <1>b DEF Pending, InTransit, Decided
  <2> QED BY <2>1, <2>2
<1>4. PlaceInv'
  <2>1. OneBody' /\ NeverLost'
    BY <1>2, <1>3 DEF OneBody, NeverLost, Pending
  <2>2. \A y \in Zones : InTransit(y)' => target'[y] # y
    BY <1>1 DEF InTransit, OnePlaceInv, PlaceInv
  <2>3. \A y \in Zones : placed'[y] < transit'[z] /\ (y # z => transit'[y] < transit'[z])
    BY <1>1, <1>b, <1>n
  <2> QED BY <1>2, <1>3, <1>b, <2>1, <2>2, <2>3 DEF PlaceInv
<1>5. ASSUME NEW y \in Zones, NEW x \in Commands, RecordOK(y, x) PROVE RecordOK(y, x)'
  <2>1. x.kind = "arrive" => x.seq > 0 /\ x.seq <= placed[y]
    BY <1>5, <1>b DEF RecordOK, Decided
  <2>2. x.kind = "ack" => x.seq <= seq[z]
    BY <1>5 DEF RecordOK
  <2>3. x.kind = "ack" => spawned /\ \A p \in Zones : Pending(p)' => x.seq < transit'[p]
    <3>1. x.seq \in Nat
      BY DEF Commands
    <3> QED BY <2>2, <3>1, <1>1, <1>3, <1>b, <1>n
  <2> QED BY <1>5, <1>2, <2>1, <2>3 DEF RecordOK, Decided
<1>6. RecordOK(to, c)'
  <2>1. c.kind = "arrive" /\ c.seq = seq[z] + 1
    BY DEF Arrive, Command
  <2> QED BY <2>1, <1>1, <1>3, <1>n DEF RecordOK
<1>7. RecordsInv'
  <2>1. \A y \in Zones : \A x \in Logged(y) : RecordOK(y, x)'
    BY <1>5 DEF OnePlaceInv, RecordsInv, PlaceTypes
  <2> QED BY <2>1, <1>6, RecordsStep
<1>8. SpawnInv'
  BY <1>2, <1>b DEF Sends, OnePlaceInv, SpawnInv
<1> QED BY <1>4, <1>7, <1>8 DEF OnePlaceInv

(* applyArrive, of a sequence above the mark: it is of the handoff to be      *)
(* placed, and the body stands here from now on.                              *)
LEMMA PlaceStep ==
  ASSUME PlaceTypes, Kept(presence, seq, transit, placed), OnePlaceInv,
         NEW z \in Zones, NEW n \in Nat, NEW from \in Zones, ~Decided(z, n),
         NEW p \in Zones, Pending(p), target[p] = z, transit[p] = n,
         presence' = [presence EXCEPT ![z] = "present"],
         seq' = [seq EXCEPT ![z] = n], placed' = [placed EXCEPT ![z] = n],
         transit' = [transit EXCEPT ![z] = 0], target' = [target EXCEPT ![z] = z],
         known' = known \cup {z},
         UNCHANGED <<spawned, purged, deleted>>,
         NEW c, c = HandoffAck(n), Sends(from, c)
  PROVE  OnePlaceInv'
<1>n. /\ \A y \in Zones : seq[y] \in Nat /\ transit[y] \in Nat /\ placed[y] \in Nat /\ target[y] \in Zones
      /\ n > 0
  BY DEF PlaceTypes, Pending, InTransit
<1>b. /\ spawned /\ ~purged
      /\ \A y \in Zones : placed[y] < n /\ (y # p => transit[y] < n)
      /\ \A y \in Zones : ~InZone(y)
      /\ \A y \in Zones : InTransit(y) => target[y] # y
  BY DEF OnePlaceInv, PlaceInv
<1>c. /\ p # z
      /\ \A y \in Zones : Pending(y) => y = p
  <2>1. p # z
    BY <1>b DEF Pending
  <2>2. ASSUME NEW y \in Zones, Pending(y), y # p PROVE FALSE
    <3>1. transit[p] < transit[y] /\ transit[y] < transit[p]
      BY <2>2 DEF OnePlaceInv, PlaceInv
    <3> QED BY <3>1, <1>n
  <2> QED BY <2>1, <2>2
<1>1. /\ presence'[z] = "present" /\ transit'[z] = 0 /\ seq'[z] = n /\ placed'[z] = n
      /\ \A y \in Zones : y # z => /\ presence'[y] = presence[y] /\ transit'[y] = transit[y]
                                   /\ target'[y] = target[y] /\ placed'[y] = placed[y]
  BY DEF PlaceTypes
<1>2. InZone(z)' /\ \A y \in Zones : InZone(y)' => y = z
  BY <1>1, <1>b DEF InZone
<1>m. \A y \in Zones : placed[y] <= placed'[y] /\ placed'[y] \in Nat /\ placed'[y] <= n /\ transit'[y] <= n
  BY <1>1, <1>b, <1>n
<1>3. \A y \in Zones : ~Pending(y)'
  <2> SUFFICES ASSUME NEW y \in Zones, Pending(y)' PROVE FALSE
    OBVIOUS
  <2>1. y # z /\ InTransit(y) /\ target'[y] = target[y] /\ transit'[y] = transit[y]
    BY <1>1 DEF Pending, InTransit
  <2>2. CASE y = p
    BY <2>1, <2>2, <1>1, <1>n DEF Pending, Decided
  <2>3. CASE y # p
    <3>1. transit[y] <= placed[target[y]]
      BY <2>1, <2>3, <1>c DEF Pending, Decided
    <3>2. transit[y] <= placed'[target[y]]
      BY <3>1, <1>m, <1>n
    <3> QED BY <2>1, <3>2 DEF Pending, Decided
  <2> QED BY <2>2, <2>3
<1>4. PlaceInv'
  <2>1. OneBody' /\ NeverLost'
    BY <1>2 DEF OneBody, NeverLost
  <2>2. \A y \in Zones : InTransit(y)' => target'[y] # y
    BY <1>1, <1>b DEF InTransit
  <2> QED BY <1>2, <1>3, <1>b, <1>1, <1>m, <2>1, <2>2 DEF PlaceInv
<1>5. ASSUME NEW y \in Zones, NEW x \in Commands, RecordOK(y, x) PROVE RecordOK(y, x)'
  <2>0. x.seq \in Nat
    BY DEF Commands
  <2>1. x.kind = "arrive" => x.seq > 0 /\ x.seq <= placed'[y]
    <3> SUFFICES ASSUME x.kind = "arrive" PROVE x.seq > 0 /\ x.seq <= placed'[y]
      OBVIOUS
    <3>1. CASE Decided(y, x.seq)
      BY <3>1, <1>5, <1>m, <1>n, <2>0 DEF Decided, RecordOK
    <3>2. CASE ~Decided(y, x.seq)
      <4>1. y = z /\ x.seq = n
        BY <3>2, <1>5, <1>c DEF RecordOK
      <4> QED BY <4>1, <1>1, <1>n
    <3> QED BY <3>1, <3>2
  <2>2. x.kind = "ack" => x.seq < n
    BY <1>5 DEF RecordOK
  <2>3. x.kind = "ack" => \A q \in Zones : InZone(q)' => x.seq <= seq'[q]
    BY <2>0, <2>2, <1>1, <1>2
  <2>4. x.kind \in {"move", "goto"} => x.zone # y
    BY <1>5 DEF RecordOK
  <2>5. x.kind = "bind" => x.zone = 0 \/ (x.zone = y /\ y \in known')
    BY <1>5 DEF RecordOK
  <2>6. x.kind = "purge" => deleted'
    BY <1>5 DEF RecordOK
  <2> QED BY <1>3, <1>b, <2>1, <2>3, <2>4, <2>5, <2>6 DEF RecordOK, Decided
<1>6. RecordOK(from, c)'
  <2>1. c.kind = "ack" /\ c.seq = n
    BY DEF HandoffAck, Command
  <2> QED BY <2>1, <1>1, <1>2, <1>3, <1>b DEF RecordOK
<1>7. RecordsInv'
  <2>1. \A y \in Zones : \A x \in Logged(y) : RecordOK(y, x)'
    BY <1>5 DEF OnePlaceInv, RecordsInv, PlaceTypes
  <2> QED BY <2>1, <1>6, RecordsStep
<1>8. SpawnInv'
  <2>1. \A y \in known' : y = SpawnZone \/ placed'[y] # 0
    <3>1. \A y \in known : y # z => y = SpawnZone \/ placed'[y] # 0
      BY DEF OnePlaceInv, SpawnInv, PlaceTypes
    <3> QED BY <3>1, <1>1, <1>n
  <2> QED BY <1>2, <1>b, <1>1, <1>n, <2>1 DEF Sends, OnePlaceInv, SpawnInv
<1> QED BY <1>4, <1>7, <1>8 DEF OnePlaceInv

(* applyHandoffAck: the record it drops is one whose Arrive was decided. *)
LEMMA AckStep ==
  ASSUME PlaceTypes, OnePlaceInv, NEW z \in Zones, ~Pending(z),
         transit' = [transit EXCEPT ![z] = 0], target' = [target EXCEPT ![z] = z],
         UNCHANGED <<presence, seq, placed, spawned, purged, known, deleted>>,
         NEW to \in Zones, NEW c \in Logged(to), Sends(to, c)
  PROVE  OnePlaceInv'
<1>n. \A y \in Zones : seq[y] \in Nat /\ transit[y] \in Nat /\ placed[y] \in Nat /\ target[y] \in Zones
  BY DEF PlaceTypes
<1>1. /\ transit'[z] = 0
      /\ \A y \in Zones : y # z => transit'[y] = transit[y] /\ target'[y] = target[y]
  BY DEF PlaceTypes
<1>2. \A y \in Zones : (InZone(y)' <=> InZone(y)) /\ (Pending(y)' <=> Pending(y))
  BY <1>1 DEF InZone, Pending, InTransit, Decided
<1>3. \A y \in Zones : transit'[y] <= transit[y] /\ (InTransit(y)' => InTransit(y) /\ y # z)
  BY <1>1, <1>n DEF InTransit
<1>4. PlaceInv'
  <2>1. OneBody' /\ NeverLost'
    BY <1>2 DEF OnePlaceInv, PlaceInv, OneBody, NeverLost, Pending
  <2>2. \A y \in Zones : InTransit(y)' => target'[y] # y
    BY <1>1, <1>3 DEF OnePlaceInv, PlaceInv
  <2>3. \A x, y \in Zones : InZone(x) => transit'[y] <= seq[x]
    BY <1>1, <1>n DEF OnePlaceInv, PlaceInv
  <2>4. \A x, y \in Zones : Pending(x) => x # z /\ (y # x => transit'[y] < transit[x])
    <3> SUFFICES ASSUME NEW x \in Zones, NEW y \in Zones, Pending(x), y # x
                 PROVE  transit'[y] < transit[x]
      OBVIOUS
    <3>1. transit[y] < transit[x]
      BY DEF OnePlaceInv, PlaceInv
    <3> QED BY <3>1, <1>3, <1>n, <1>1
  <2> QED BY <1>1, <1>2, <2>1, <2>2, <2>3, <2>4 DEF OnePlaceInv, PlaceInv
<1>5. ASSUME NEW y \in Zones, NEW x, RecordOK(y, x) PROVE RecordOK(y, x)'
  <2>1. \A q \in Zones : Pending(q) => transit'[q] = transit[q] /\ target'[q] = target[q]
    BY <1>1
  <2> QED BY <1>2, <1>5, <2>1 DEF RecordOK, Decided
<1>6. RecordsInv'
  <2>1. \A y \in Zones : \A x \in Logged(y) : RecordOK(y, x)'
    BY <1>5 DEF OnePlaceInv, RecordsInv
  <2> QED BY <2>1, RecordsStep
<1>7. SpawnInv'
  <2>1. \A y \in Zones : \A x \in Elements(log'[y]) : x \in Logged(y)
    BY DEF Sends
  <2>2. Unmarked' <=> Unmarked
    BY DEF Unmarked
  <2> QED BY <1>2, <2>1, <2>2 DEF Sends, OnePlaceInv, SpawnInv, Logged
<1> QED BY <1>4, <1>6, <1>7 DEF OnePlaceInv

(* applyPurgeCharacter: it was the only body, and nothing is to be placed. *)
LEMMA PurgeStep ==
  ASSUME PlaceTypes, Kept(presence, seq, transit, placed), OnePlaceInv,
         NEW z \in Zones, InZone(z), deleted,
         presence' = [presence EXCEPT ![z] = "absent"], seq' = [seq EXCEPT ![z] = 0],
         purged' = TRUE, UNCHANGED <<transit, target, placed, spawned, known, deleted>>,
         \A x \in Elements(log'[z]) : ~Spawning(x, z),
         NEW to \in Zones, NEW c \in Logged(to), Sends(to, c)
  PROVE  OnePlaceInv'
<1>n. \A y \in Zones : seq[y] \in Nat /\ transit[y] \in Nat /\ placed[y] \in Nat /\ target[y] \in Zones
  BY DEF PlaceTypes
<1>b. /\ spawned /\ \A y \in Zones : ~Pending(y) /\ (InZone(y) => y = z)
  BY DEF OnePlaceInv, PlaceInv, OneBody
<1>1. \A y \in Zones : ~InZone(y)'
  BY <1>b DEF InZone, PlaceTypes
<1>2. \A y \in Zones : ~Pending(y)' /\ (InTransit(y)' <=> InTransit(y))
  BY <1>b DEF Pending, InTransit, Decided
<1>3. PlaceInv'
  <2>1. OneBody' /\ NeverLost'
    BY <1>1 DEF OneBody, NeverLost
  <2> QED BY <1>1, <1>2, <1>b, <2>1 DEF OnePlaceInv, PlaceInv
<1>4. ASSUME NEW y \in Zones, NEW x, RecordOK(y, x) PROVE RecordOK(y, x)'
  BY <1>1, <1>2, <1>b, <1>4 DEF RecordOK, Decided
<1>5. RecordsInv'
  <2>1. \A y \in Zones : \A x \in Logged(y) : RecordOK(y, x)'
    BY <1>4 DEF OnePlaceInv, RecordsInv
  <2> QED BY <2>1, RecordsStep
<1>6. SpawnInv'
  <2>1. \A y \in Zones : \A x \in Elements(log'[y]) : x \in Logged(y)
    BY DEF Sends
  <2>2. ASSUME Unmarked', NEW y \in Zones, NEW x \in Elements(log'[y]) PROVE ~Spawning(x, y)
    <3>1. z = SpawnZone /\ known \subseteq {SpawnZone} \cup {q \in known : q \notin Zones}
      BY <2>2 DEF Unmarked, OnePlaceInv, SpawnInv
    <3>2. CASE y = z
      BY <3>2
    <3>3. CASE y # z
      <4>1. RecordOK(y, x)
        BY <2>1 DEF OnePlaceInv, RecordsInv
      <4>2. Spawning(x, y) => y \in known
        <5>1. y # 0
          BY DEF Zones
        <5> QED BY <4>1, <5>1 DEF RecordOK, Spawning
      <4> QED BY <3>1, <3>3, <4>2
    <3> QED BY <3>2, <3>3
  <2> QED BY <1>1, <2>2 DEF Sends, OnePlaceInv, SpawnInv, Logged
<1> QED BY <1>3, <1>5, <1>6 DEF OnePlaceInv

(* applyBindCharacter makes a body only for a Character that never had one. *)
LEMMA UnseenUnspawned ==
  ASSUME OnePlaceInv, Unseen, NEW z \in Zones, NEW c \in Logged(z), Spawning(c, z)
  PROVE  ~spawned /\ z = SpawnZone
<1>1. \A y \in Zones : ~InZone(y) /\ ~InTransit(y) /\ placed[y] = 0
  BY DEF Unseen
<1>2. ~purged
  BY <1>1 DEF OnePlaceInv, SpawnInv, Unmarked
<1>3. ~spawned
  BY <1>1, <1>2 DEF OnePlaceInv, PlaceInv, NeverLost
<1>4. z \in known
  <2>1. z # 0
    BY DEF Zones
  <2> QED BY <2>1 DEF OnePlaceInv, RecordsInv, RecordOK, Spawning
<1> QED BY <1>1, <1>3, <1>4 DEF OnePlaceInv, SpawnInv

LEMMA SpawnStep ==
  ASSUME PlaceTypes, Kept(presence, seq, transit, placed), OnePlaceInv,
         Unseen, NEW z \in Zones, NEW b \in Logged(z), Spawning(b, z),
         presence' = [presence EXCEPT ![z] = "present"], spawned' = TRUE,
         UNCHANGED <<seq, transit, target, placed, purged, known, deleted>>,
         NEW to \in Zones, NEW c \in Logged(to), Sends(to, c)
  PROVE  OnePlaceInv'
<1>n. \A y \in Zones : seq[y] \in Nat /\ transit[y] \in Nat /\ placed[y] \in Nat /\ target[y] \in Zones
  BY DEF PlaceTypes
<1>u. ~spawned /\ z = SpawnZone
  BY UnseenUnspawned
<1>b. ~purged /\ \A y \in Zones : ~InZone(y) /\ transit[y] = 0 /\ placed[y] = 0
  BY <1>u DEF OnePlaceInv, PlaceInv, Unseen
<1>1. InZone(z)' /\ \A y \in Zones : InZone(y)' => y = z
  BY <1>b DEF InZone, PlaceTypes
<1>2. \A y \in Zones : ~Pending(y)' /\ ~InTransit(y)'
  BY <1>b DEF Pending, InTransit
<1>3. PlaceInv'
  <2>1. OneBody' /\ NeverLost'
    BY <1>1 DEF OneBody, NeverLost
  <2> QED BY <1>1, <1>2, <1>b, <1>n, <2>1 DEF PlaceInv
<1>4. ASSUME NEW y \in Zones, NEW x \in Commands, RecordOK(y, x) PROVE RecordOK(y, x)'
  <2>1. x.kind # "arrive"
    <3> SUFFICES ASSUME x.kind = "arrive" PROVE FALSE
      OBVIOUS
    <3>1. x.seq > 0 /\ x.seq \in Nat /\ ~Decided(y, x.seq)
      BY <1>4, <1>b DEF RecordOK, Commands, Decided
    <3> QED BY <3>1, <1>4, <1>b DEF RecordOK, Pending, InTransit
  <2>2. x.kind # "ack"
    BY <1>4, <1>u DEF RecordOK
  <2> QED BY <1>2, <1>4, <2>1, <2>2 DEF RecordOK
<1>5. RecordsInv'
  <2>1. \A y \in Zones : \A x \in Logged(y) : RecordOK(y, x)'
    BY <1>4 DEF OnePlaceInv, RecordsInv, PlaceTypes
  <2> QED BY <2>1, RecordsStep
<1>6. SpawnInv'
  BY <1>1, <1>b, <1>u DEF Sends, OnePlaceInv, SpawnInv
<1> QED BY <1>3, <1>5, <1>6 DEF OnePlaceInv

--------------------------------------------------------------------------------
(* Applying one record. *)
LEMMA ApplyOnePlace ==
  ASSUME TypeOK, Kept(presence, seq, transit, placed), OnePlaceInv, NEW z \in Zones, Apply(z)
  PROVE  OnePlaceInv'
<1> DEFINE c == Head(log[z])
<1>t. /\ presence \in [Zones -> Presences] /\ seq \in [Zones -> Nat] /\ transit \in [Zones -> Nat]
      /\ placed \in [Zones -> Nat] /\ target \in [Zones -> Zones]
  BY DEF TypeOK
<1>l. log[z] # <<>> /\ deleted' = deleted
  BY DEF Apply
<1>p. PlaceTypes /\ SpawnInv
  BY TypesOfPlace DEF OnePlaceInv
<1>r. /\ Rest(z) \in [Zones -> Seq(Commands)]
      /\ \A y \in Zones : Elements(Rest(z)[y]) \subseteq Logged(y) /\ PurgeLast(Rest(z)[y], y)
      /\ c \in Logged(z)
      /\ c.kind = "purge" => \A x \in Elements(Rest(z)[z]) : ~Spawning(x, z)
  BY <1>l, <1>p, RestLogs
<1> HIDE DEF c
<1>c. /\ c \in Commands /\ c.seq \in Nat /\ RecordOK(z, c)
      /\ c.kind \in {"arrive", "move", "goto"} => c.zone \in Zones
  <2>1. c \in Commands
    BY <1>r, <1>p DEF PlaceTypes
  <2>2. RecordOK(z, c)
    BY <1>r DEF OnePlaceInv, RecordsInv
  <2> QED BY <2>1, <2>2 DEF Commands
<1>s. ASSUME NEW to \in Zones, NEW d \in Commands, Produce(Rest(z), to, d), ~Spawning(d, to)
      PROVE  Sends(to, d)
  BY <1>r, <1>s, ProduceSends DEF Produce
<1>n. ASSUME ProduceNothing(z) PROVE Sends(z, c) /\ log' = Rest(z)
  BY <1>n, <1>r DEF ProduceNothing, Sends
<1>x. ASSUME Nothing(z) PROVE OnePlaceInv'
  <2>1. Sends(z, c)
    BY <1>n, <1>x DEF Nothing
  <2> QED BY <1>x, <1>p, <1>r, <1>l, <2>1, StayStep DEF Nothing
<1>w. ASSUME ProduceNothing(z), NEW s \in Presences \ {"absent"}, InZone(z),
             presence' = [presence EXCEPT ![z] = s],
             UNCHANGED <<seq, transit, target, placed, spawned, purged, known>>
      PROVE  OnePlaceInv'
  <2>1. \A y \in Zones : presence'[y] = "absent" <=> presence[y] = "absent"
    BY <1>w, <1>t DEF InZone
  <2> QED BY <1>w, <1>n, <1>p, <1>r, <1>l, <2>1, StayStep
<1>1. ASSUME ApplyMove(z, c) PROVE OnePlaceInv'
  <2> SUFFICES ASSUME CanAct(z), Depart(z, c.zone) PROVE OnePlaceInv'
    BY <1>1, <1>x DEF ApplyMove
  <2>1. c.zone \in Zones /\ c.zone # z /\ InZone(z)
    BY <1>1, <1>c DEF ApplyMove, RecordOK, CanAct, InZone
  <2>2. seq[z] + 1 \in Nat
    BY <1>t
  <2>3. Arrive(seq[z] + 1, z) \in Commands /\ ~Spawning(Arrive(seq[z] + 1, z), c.zone)
    BY <2>2, CommandTypes DEF Arrive, Command, Spawning
  <2>4. Sends(c.zone, Arrive(seq[z] + 1, z))
    BY <2>1, <2>3, <1>s DEF Depart
  <2> QED BY <2>1, <2>4, <1>p, <1>l, DepartStep DEF Depart
<1>2. ASSUME ApplyArrive(z, c) PROVE OnePlaceInv'
  <2>1. c.kind = "arrive" /\ c.zone \in Zones /\ c.seq > 0
    BY <1>2, <1>c DEF ApplyArrive, RecordOK
  <2>2. HandoffAck(c.seq) \in Commands /\ ~Spawning(HandoffAck(c.seq), c.zone)
    BY <1>c, CommandTypes DEF HandoffAck, Command, Spawning
  <2>3. CASE Decided(z, c.seq) /\ ~Nothing(z)
    <3>1. /\ Produce(Rest(z), c.zone, HandoffAck(c.seq))
          /\ UNCHANGED <<presence, seq, transit, target, placed, spawned, purged, known>>
      BY <1>2, <2>3 DEF ApplyArrive, EntityPresent
    <3>2. RecordOK(c.zone, HandoffAck(c.seq))
      <4>1. c.seq <= placed[z] /\ placed[z] \in Nat /\ \A y \in Zones : seq[y] \in Nat /\ transit[y] \in Nat
        BY <2>3, <1>t DEF Decided
      <4>2. spawned
        BY <4>1, <2>1, <1>c DEF OnePlaceInv, PlaceInv
      <4>3. ASSUME NEW y \in Zones PROVE /\ Pending(y) => c.seq < transit[y]
                                         /\ InZone(y) => c.seq <= seq[y]
        <5>1. /\ Pending(y) => placed[z] < transit[y]
              /\ InZone(y) => placed[z] <= seq[y]
          BY DEF OnePlaceInv, PlaceInv
        <5> QED BY <5>1, <4>1, <1>c
      <4> QED BY <4>2, <4>3 DEF RecordOK, HandoffAck, Command
    <3>3. Sends(c.zone, HandoffAck(c.seq))
      BY <3>1, <2>1, <2>2, <1>s
    <3> QED BY <3>1, <3>2, <3>3, <2>1, <2>2, <1>p, <1>l, StayStep
  <2>4. CASE ~Decided(z, c.seq) /\ ~Nothing(z)
    <3>1. /\ presence' = [presence EXCEPT ![z] = "present"]
          /\ seq' = [seq EXCEPT ![z] = c.seq] /\ placed' = [placed EXCEPT ![z] = c.seq]
          /\ transit' = [transit EXCEPT ![z] = 0] /\ target' = [target EXCEPT ![z] = z]
          /\ known' = known \cup {z} /\ UNCHANGED <<spawned, purged>>
          /\ Produce(Rest(z), c.zone, HandoffAck(c.seq))
      BY <1>2, <2>4 DEF ApplyArrive, DropTransit
    <3>2. PICK p \in Zones : Pending(p) /\ target[p] = z /\ transit[p] = c.seq
      BY <2>1, <2>4, <1>c DEF RecordOK
    <3>3. Sends(c.zone, HandoffAck(c.seq))
      BY <3>1, <2>1, <2>2, <1>s
    <3> QED BY <3>1, <3>2, <3>3, <2>1, <2>4, <1>c, <1>p, <1>l, PlaceStep
  <2> QED BY <1>x, <2>3, <2>4
<1>3. ASSUME ApplyAck(z, c) PROVE OnePlaceInv'
  <2> SUFFICES ASSUME InTransit(z), transit[z] = c.seq, DropTransit(z), ProduceNothing(z),
                      UNCHANGED <<presence, seq, placed, spawned, purged, known>>
               PROVE  OnePlaceInv'
    BY <1>3, <1>x DEF ApplyAck
  <2>1. ~Pending(z)
    BY <1>3, <1>c DEF ApplyAck, RecordOK
  <2> QED BY <2>1, <1>n, <1>p, <1>r, <1>l, AckStep DEF DropTransit
<1>4. ASSUME ApplyBind(z, c) PROVE OnePlaceInv'
  <2>1. CASE InZone(z)
    <3>1. "present" \in Presences \ {"absent"}
      BY DEF Presences
    <3> QED BY <1>4, <2>1, <3>1, <1>w, <1>x DEF ApplyBind, Unseen, Elsewhere
  <2>2. CASE ~InZone(z) /\ \E y \in Elsewhere(z) :
               /\ Produce(Rest(z), y, Bind(0))
               /\ UNCHANGED <<presence, seq, transit, target, placed, spawned, purged, known>>
    <3>1. PICK y \in Zones :
               /\ Produce(Rest(z), y, Bind(0))
               /\ UNCHANGED <<presence, seq, transit, target, placed, spawned, purged, known>>
      BY <2>2 DEF Elsewhere
    <3>2. Bind(0) \in Commands /\ ~Spawning(Bind(0), y) /\ RecordOK(y, Bind(0))
      <4>1. y # 0
        BY DEF Zones
      <4> QED BY <4>1, CommandTypes DEF Bind, Command, Spawning, RecordOK
    <3> QED BY <3>1, <3>2, <1>s, <1>p, <1>l, StayStep
  <2>3. CASE Unseen /\ c.zone = z /\ presence' = [presence EXCEPT ![z] = "present"] /\ spawned' = TRUE
             /\ ProduceNothing(z) /\ UNCHANGED <<seq, transit, target, placed, purged, known>>
    <3>1. Spawning(c, z)
      BY <1>4, <2>3 DEF ApplyBind, Spawning
    <3> QED BY <2>3, <3>1, <1>n, <1>p, <1>r, <1>l, SpawnStep
  <2> QED BY <1>4, <1>x, <2>1, <2>2, <2>3 DEF ApplyBind
<1>5. ASSUME ApplyUnbind(z, c) PROVE OnePlaceInv'
  <2>1. "dormant" \in Presences \ {"absent"} /\ (CanAct(z) => InZone(z))
    BY DEF Presences, CanAct, InZone
  <2> QED BY <1>5, <1>w, <1>x, <2>1 DEF ApplyUnbind
<1>6. ASSUME ApplyMark(z, c) PROVE OnePlaceInv'
  <2>1. "linkdead" \in Presences \ {"absent"} /\ (CanAct(z) => InZone(z))
    BY DEF Presences, CanAct, InZone
  <2> QED BY <1>6, <1>w, <1>x, <2>1 DEF ApplyMark
<1>7. ASSUME ApplyPurge(z, c) PROVE OnePlaceInv'
  <2>0. c.kind = "purge" /\ deleted
    BY <1>7, <1>c DEF ApplyPurge, RecordOK
  <2>1. CASE InZone(z)
    <3>1. /\ presence' = [presence EXCEPT ![z] = "absent"] /\ seq' = [seq EXCEPT ![z] = 0]
          /\ purged' = TRUE /\ ProduceNothing(z)
          /\ UNCHANGED <<transit, target, placed, spawned, known>>
      BY <1>7, <2>1 DEF ApplyPurge
    <3>2. Sends(z, c) /\ \A x \in Elements(log'[z]) : ~Spawning(x, z)
      BY <3>1, <2>0, <1>n, <1>r
    <3> QED BY <3>1, <3>2, <2>0, <2>1, <1>p, <1>r, <1>l, PurgeStep
  <2>2. CASE ~InZone(z) /\ ~Nothing(z)
    <3>1. PICK y \in Zones :
               /\ Produce(Rest(z), y, Purge)
               /\ UNCHANGED <<presence, seq, transit, target, placed, spawned, purged, known>>
      BY <1>7, <2>2 DEF ApplyPurge, Elsewhere
    <3>2. Purge \in Commands /\ ~Spawning(Purge, y) /\ Purge.kind = "purge"
      BY CommandTypes DEF Purge, Command, Spawning
    <3>3. Sends(y, Purge)
      BY <3>1, <3>2, <1>s
    <3> QED BY <3>1, <3>2, <3>3, <2>0, <1>p, <1>l, StayStep
  <2> QED BY <1>x, <2>1, <2>2
<1> QED BY <1>1, <1>2, <1>3, <1>4, <1>5, <1>6, <1>7 DEF Apply, c

(* Every step of a process that does not crash. *)
LEMMA OnePlaceStep ==
  ASSUME MaxCrashes = 0, TypeOK, Kept(presence, seq, transit, placed), OnePlaceInv, [Next]_vars
  PROVE  OnePlaceInv'
<1>t. /\ presence \in [Zones -> Presences] /\ target \in [Zones -> Zones] /\ transit \in [Zones -> Nat]
      /\ log \in [Zones -> Seq(Commands)] /\ crashes \in Nat
  BY DEF TypeOK
<1>p. PlaceTypes /\ \A y \in Zones : PurgeLast(log[y], y)
  BY TypesOfPlace DEF OnePlaceInv, SpawnInv
<1>s. ASSUME NEW to \in Zones, NEW d \in Commands,
             log' = log \/ log' = [log EXCEPT ![to] = Append(@, d)],
             Spawning(d, to) => ~deleted
      PROVE  Sends(to, d)
  <2>1. Spawning(d, to) => \A x \in Elements(log[to]) : x.kind # "purge"
    BY <1>s DEF OnePlaceInv, RecordsInv, RecordOK, Logged
  <2>2. \A y \in Zones : Elements(log[y]) \subseteq Logged(y) /\ PurgeLast(log[y], y)
    BY <1>p DEF Logged
  <2> QED BY <1>s, <1>t, <2>1, <2>2, ProduceSends
<1>1. ASSUME NEW z \in Zones, Apply(z) PROVE OnePlaceInv'
  BY <1>1, ApplyOnePlace
<1>2. ASSUME NEW z \in Zones, ExpireLinkdead(z) PROVE OnePlaceInv'
  <2>1. /\ UNCHANGED <<seq, transit, target, placed, spawned, purged, known, deleted, log>>
        /\ \A y \in Zones : presence'[y] = "absent" <=> presence[y] = "absent"
    BY <1>2, <1>t DEF ExpireLinkdead
  <2>2. Unbind \in Commands /\ ~Spawning(Unbind, z) /\ RecordOK(z, Unbind)
    BY CommandTypes DEF Unbind, Command, Spawning, RecordOK
  <2> QED BY <2>1, <2>2, <1>s, <1>p, StayStep
<1>3. ASSUME NEW z \in Zones, Retry(z) PROVE OnePlaceInv'
  <2> DEFINE d == Arrive(transit[z], z)
             to == target[z]
  <2>1. to \in Zones /\ transit[z] \in Nat /\ transit[z] > 0
    BY <1>3, <1>t DEF Retry, InTransit
  <2>2. d \in Commands /\ ~Spawning(d, to)
    BY <2>1, CommandTypes DEF Arrive, Command, Spawning
  <2>3. RecordOK(to, d)
    BY <1>3, <2>1 DEF Retry, RecordOK, Arrive, Command, Pending
  <2>4. /\ UNCHANGED <<presence, seq, transit, target, placed, spawned, purged, known, deleted>>
        /\ log' = log \/ log' = [log EXCEPT ![to] = Append(@, d)]
    BY <1>3 DEF Retry, Produce, state
  <2> HIDE DEF d, to
  <2>5. Sends(to, d)
    BY <2>1, <2>2, <2>4, <1>s
  <2> QED BY <2>1, <2>2, <2>3, <2>4, <2>5, <1>p, StayStep
<1>4. ASSUME NEW z \in Zones, Gateway(z) PROVE OnePlaceInv'
  <2>1. PICK d \in {Bind(z), Unbind, MarkLinkdead} \cup Travels(z) : log' = [log EXCEPT ![z] = Append(@, d)]
    BY <1>4 DEF Gateway
  <2>2. /\ UNCHANGED <<presence, seq, transit, target, placed, spawned, purged, known, deleted>>
        /\ ~deleted /\ z \in known
    BY <1>4 DEF Gateway, state
  <2>3. d \in Commands /\ RecordOK(z, d)
    <3>1. CASE d \in {Bind(z), Unbind, MarkLinkdead}
      <4>1. Bind(z) \in Commands /\ Unbind \in Commands /\ MarkLinkdead \in Commands
        BY CommandTypes
      <4>2. RecordOK(z, Bind(z)) /\ RecordOK(z, Unbind) /\ RecordOK(z, MarkLinkdead)
        BY <2>2 DEF Bind, Unbind, MarkLinkdead, Command, RecordOK
      <4> QED BY <3>1, <4>1, <4>2
    <3>2. CASE d \in Travels(z)
      <4>1. PICK to \in Zones \ {z} : d = Move(to) \/ d = Goto(to)
        BY <3>2 DEF Travels
      <4>2. Move(to) \in Commands /\ Goto(to) \in Commands
        BY CommandTypes
      <4>3. RecordOK(z, Move(to)) /\ RecordOK(z, Goto(to))
        BY DEF Move, Goto, Command, RecordOK
      <4> QED BY <4>1, <4>2, <4>3
    <3> QED BY <2>1, <3>1, <3>2
  <2>4. ~purged
    BY <2>2 DEF OnePlaceInv, SpawnInv
  <2>5. Sends(z, d)
    BY <2>1, <2>2, <2>3, <1>s
  <2> QED BY <2>2, <2>3, <2>4, <2>5, <1>p, StayStep
<1>5. ASSUME NEW z \in Zones, Sweep(z) PROVE OnePlaceInv'
  <2>1. /\ UNCHANGED <<presence, seq, transit, target, placed, spawned, purged, known>>
        /\ deleted' /\ log' = [log EXCEPT ![z] = Append(@, Purge)]
    BY <1>5 DEF Sweep, state
  <2>2. Purge \in Commands /\ ~Spawning(Purge, z) /\ Purge.kind = "purge"
    BY CommandTypes DEF Purge, Command, Spawning
  <2>3. Sends(z, Purge)
    BY <2>1, <2>2, <1>s
  <2> QED BY <2>1, <2>2, <2>3, <1>p, StayStep
<1>6. CASE Swap \/ UNCHANGED vars
  <2>1. UNCHANGED <<presence, seq, transit, target, placed, spawned, purged, known, deleted, log>>
    BY <1>6 DEF Swap, vars, state
  <2>2. PICK z : z \in Zones
    BY HandoffAssumption DEF Zones
  <2>3. Unbind \in Commands /\ ~Spawning(Unbind, z) /\ RecordOK(z, Unbind)
    BY <2>2, CommandTypes DEF Unbind, Command, Spawning, RecordOK
  <2> QED BY <2>1, <2>2, <2>3, <1>s, <1>p, StayStep
<1>7. ~BoundaryDelivered /\ ~Crash
  <2>1. ~(crashes < MaxCrashes)
    BY <1>t
  <2> QED BY <2>1 DEF BoundaryDelivered, Crash
<1> QED BY <1>1, <1>2, <1>3, <1>4, <1>5, <1>6, <1>7 DEF Next

LEMMA OnePlaceInit == Init => OnePlaceInv
<1> SUFFICES ASSUME Init PROVE OnePlaceInv
  OBVIOUS
<1>1. /\ \A z \in Zones : /\ presence[z] = "absent" /\ seq[z] = 0 /\ transit[z] = 0 /\ placed[z] = 0
                          /\ log[z] = <<>>
      /\ spawned = FALSE /\ purged = FALSE /\ known = {SpawnZone}
  BY DEF Init
<1>2. \A z \in Zones : ~InZone(z) /\ ~InTransit(z) /\ ~Pending(z)
  BY <1>1 DEF InZone, InTransit, Pending
<1>3. PlaceInv
  BY <1>1, <1>2 DEF PlaceInv, OneBody, NeverLost
<1>4. \A z \in Zones : Logged(z) = {} /\ PurgeLast(log[z], z)
  BY <1>1 DEF Logged, Elements, PurgeLast
<1>5. RecordsInv
  BY <1>4 DEF RecordsInv
<1>6. SpawnInv
  BY <1>1, <1>2, <1>4 DEF SpawnInv
<1> QED BY <1>3, <1>5, <1>6 DEF OnePlaceInv

--------------------------------------------------------------------------------
(* Where the newest handoff is, and that every logged record agrees, for every *)
(* number of Zones, Commands, losses and retries, when the process does not    *)
(* crash.                                                                      *)
THEOREM OnePlaceInvariant == MaxCrashes = 0 /\ Spec => []OnePlaceInv
<1> SUFFICES ASSUME MaxCrashes = 0 PROVE Spec => []OnePlaceInv
  OBVIOUS
<1>1. TypeOK /\ HandoffInv /\ OnePlaceInv /\ [Next]_vars => OnePlaceInv'
  BY OnePlaceStep DEF HandoffInv
<1> QED BY <1>1, OnePlaceInit, HandoffInvariant, PTL DEF Spec

(* A Character that was ever bound and not purged is in exactly one place, and *)
(* a purged one in none, however Arrives, acks and retries are lost, repeated  *)
(* and reordered (depart, applyArrive, applyHandoffAck, applyPurgeCharacter).  *)
THEOREM AlwaysInOnePlace == MaxCrashes = 0 /\ Spec => []InOnePlace
<1>1. OnePlaceInv => InOnePlace
  BY DEF OnePlaceInv, PlaceInv, InOnePlace, StaysPurged, Pending
<1> QED BY <1>1, OnePlaceInvariant, PTL

(* validateArrive never takes an older Arrive for the newest, and never meets  *)
(* the entity_present it logs at error.                                        *)
THEOREM NewestAlwaysWins == MaxCrashes = 0 /\ Spec => []NewestWins
<1>1. TypeOK /\ OnePlaceInv => NewestWins
  <2> SUFFICES ASSUME TypeOK, OnePlaceInv PROVE NewestWins
    OBVIOUS
  <2>1. BodyIsNewest
    BY DEF OnePlaceInv, PlaceInv, BodyIsNewest
  <2>2. NeverEntityPresent
    <3> SUFFICES ASSUME NEW z \in Zones, log[z] # <<>>, Head(log[z]).kind = "arrive",
                        EntityPresent(z, Head(log[z]).seq)
                 PROVE  FALSE
      BY DEF NeverEntityPresent
    <3> DEFINE c == Head(log[z])
    <3>1. c \in Logged(z) /\ c \in Commands /\ \A y \in Zones : transit[y] \in Nat
      <4>1. log[z] \in Seq(Commands)
        BY DEF TypeOK
      <4>2. c \in Logged(z)
        BY <4>1, TailElements DEF Logged
      <4> QED BY <4>2, TypesOfPlace DEF PlaceTypes
    <3> HIDE DEF c
    <3>2. ~Decided(z, c.seq) /\ (InZone(z) \/ transit[z] >= c.seq) /\ c.kind = "arrive"
      BY DEF EntityPresent, c
    <3>3. PICK p \in Zones : Pending(p) /\ target[p] = z /\ transit[p] = c.seq
      BY <3>1, <3>2 DEF OnePlaceInv, RecordsInv, RecordOK
    <3>4. p # z
      BY <3>3 DEF OnePlaceInv, PlaceInv, Pending
    <3>5. ~InZone(z) /\ transit[z] < transit[p]
      BY <3>3, <3>4 DEF OnePlaceInv, PlaceInv
    <3> QED BY <3>1, <3>2, <3>3, <3>5
  <2> QED BY <2>1, <2>2 DEF NewestWins
<1> QED BY <1>1, OnePlaceInvariant, HandoffInvariant, PTL

(* applyBindCharacter creates a body only for a Character that never had one. *)
THEOREM BodySpawnsOnce == MaxCrashes = 0 /\ Spec => SpawnsOnce
<1> SUFFICES ASSUME MaxCrashes = 0 PROVE Spec => SpawnsOnce
  OBVIOUS
<1>1. ASSUME TypeOK, OnePlaceInv, Next PROVE \A z \in Zones : Spawns(z) => ~spawned
  <2> SUFFICES ASSUME NEW z \in Zones, Spawns(z) PROVE ~spawned
    OBVIOUS
  <2>t. /\ presence \in [Zones -> Presences] /\ crashes \in Nat
        /\ log \in [Zones -> Seq(Commands)] /\ seq \in [Zones -> Nat]
    BY <1>1 DEF TypeOK
  <2>s. presence[z] = "absent" /\ presence'[z] = "present" /\ seq'[z] = 0
    BY DEF Spawns
  <2>1. ASSUME NEW y \in Zones, Apply(y) PROVE ~spawned
    <3> DEFINE c == Head(log[y])
    <3>1. c \in Logged(y) /\ c \in Commands /\ RecordOK(y, c)
      <4>1. log[y] \in Seq(Commands) /\ log[y] # <<>>
        BY <2>1, <2>t DEF Apply
      <4>2. c \in Logged(y)
        BY <4>1, TailElements DEF Logged
      <4> QED BY <4>2, <1>1, TypesOfPlace DEF PlaceTypes, OnePlaceInv, RecordsInv
    <3> HIDE DEF c
    <3>2. ~ApplyMove(y, c) /\ ~ApplyAck(y, c) /\ ~ApplyUnbind(y, c) /\ ~ApplyMark(y, c) /\ ~ApplyPurge(y, c)
      BY <2>s, <2>t DEF ApplyMove, Depart, ApplyAck, ApplyUnbind, ApplyMark, ApplyPurge, Nothing
    <3>3. ~ApplyArrive(y, c)
      <4> SUFFICES ASSUME ApplyArrive(y, c) PROVE FALSE
        OBVIOUS
      <4>1. presence' = [presence EXCEPT ![y] = "present"] /\ seq' = [seq EXCEPT ![y] = c.seq]
        BY <2>s DEF ApplyArrive, Nothing
      <4>2. z = y
        BY <4>1, <2>s, <2>t
      <4>3. c.seq > 0
        BY <3>1 DEF ApplyArrive, RecordOK
      <4> QED BY <4>1, <4>2, <4>3, <2>s, <2>t
    <3>4. ASSUME ApplyBind(y, c) PROVE ~spawned
      <4>1. presence' = [presence EXCEPT ![y] = "present"] /\ c.kind = "bind"
        BY <3>4, <2>s DEF ApplyBind, Nothing
      <4>2. z = y
        BY <4>1, <2>s, <2>t
      <4>3. Unseen /\ c.zone = y
        BY <3>4, <4>2, <2>s DEF ApplyBind, Nothing, InZone
      <4>4. Spawning(c, y)
        BY <4>1, <4>3 DEF Spawning
      <4> QED BY <1>1, <3>1, <4>3, <4>4, UnseenUnspawned
    <3> QED BY <2>1, <3>2, <3>3, <3>4 DEF Apply, c
  <2>2. ASSUME NEW y \in Zones, ExpireLinkdead(y) PROVE FALSE
    BY <2>2, <2>s, <2>t DEF ExpireLinkdead
  <2>3. ASSUME NEW y \in Zones, Retry(y) \/ Gateway(y) \/ Sweep(y) PROVE FALSE
    BY <2>3, <2>s DEF Retry, Gateway, Sweep, state
  <2>4. ~Swap /\ ~BoundaryDelivered /\ ~Crash
    <3>1. ~(crashes < MaxCrashes)
      BY <2>t
    <3>2. presence' # presence
      BY <2>s
    <3> QED BY <3>1, <3>2 DEF Swap, BoundaryDelivered, Crash
  <2> QED BY <1>1, <2>1, <2>2, <2>3, <2>4 DEF Next
<1>2. TypeOK /\ OnePlaceInv /\ [Next]_vars => [\A z \in Zones : Spawns(z) => ~spawned]_vars
  BY <1>1
<1> QED BY <1>2, OnePlaceInvariant, HandoffInvariant, PTL DEF Spec, SpawnsOnce
================================================================================
