------------------------------ MODULE Worlds ------------------------------
(***************************************************************************)
(* Zones, from a Builder's pack to the World in effect.  Three programs    *)
(* judge the same Zones: the compiler, a pack alone (content/lang/zone.go); *)
(* the publish gate, the pack among the packs in effect, reporting only    *)
(* what its Builder can mend (server/content/gate.go); and the loader, the *)
(* pack among the packs in effect and the move it makes                    *)
(* (server/content/loader.go).  The last two build with sim.BuildWorld.    *)
(*                                                                         *)
(* A Zone definition is [id, fallback, rooms], its rooms a sequence of     *)
(* [id, exits], its exits a sequence of [dir, zone, room] where zone ""    *)
(* is the Zone itself.  A finding is its code and where it points; titles, *)
(* text, components (see Templates) and positions are left out.            *)
(***************************************************************************)
EXTENDS Naturals, Sequences, FiniteSets, SequencesExt, TLC

CONSTANTS ContentPacks,   \* the packs followed, in load order
          PackZones,      \* the versions a pack may have: sequences of Zone definitions
          SpawnRoom,      \* character.spawn_room, <<zone, room>>
          StrictOrphans   \* content.strict_orphans

VARIABLES servedVersions,   \* each pack's version in effect, or <<>>
          builtWorld,     \* the World built from them
          judged     \* the last candidate brought to the gate, and its report

worldsVars == <<servedVersions, builtWorld, judged>>

NoWorld == [z \in {} |-> {}]
Warnings == {"missing_reverse_exit"} \cup (IF StrictOrphans THEN {} ELSE {"orphan_room"})

ReverseOf(dir) == CASE dir = "n" -> "s" [] dir = "s" -> "n"
Directions == {"n", "s"}

-----------------------------------------------------------------------------
(* sim.BuildWorld.  The inputs are <<pack, definition>>, in order.         *)

\* Of the elements of a sequence that share an id, the first is the one kept.
FirstOfId(ids, i) == \A j \in 1..(i - 1) : ids[j] # ids[i]

InputIds(inputs) == [i \in DOMAIN inputs |-> inputs[i][2].id]
RoomIdsOf(def) == [i \in DOMAIN def.rooms |-> def.rooms[i].id]
ExitDirs(room) == [i \in DOMAIN room.exits |-> room.exits[i].dir]

KeptInputs(inputs) == {i \in DOMAIN inputs : inputs[i][2].id # "" /\ FirstOfId(InputIds(inputs), i)}
KeptRooms(def) == {def.rooms[i] : i \in {j \in DOMAIN def.rooms : FirstOfId(RoomIdsOf(def), j)}}

\* An Exit is kept if its Direction is one, and the first of its Room.
KeptExits(def, room) ==
    {[dir |-> e.dir, zone |-> IF e.zone = "" THEN def.id ELSE e.zone, room |-> e.room] :
        e \in {room.exits[i] : i \in {j \in DOMAIN room.exits :
                  room.exits[j].dir \in Directions /\ FirstOfId(ExitDirs(room), j)}}}

RoomIds(def) == {r.id : r \in KeptRooms(def)}

\* The Zones kept by id, whether the whole builds or not.
Zones(inputs) ==
    [z \in {inputs[i][2].id : i \in KeptInputs(inputs)} |->
        LET def == inputs[CHOOSE i \in KeptInputs(inputs) : inputs[i][2].id = z][2]
        IN [fallback |-> def.fallback,
            rooms |-> [r \in RoomIds(def) |->
                        KeptExits(def, CHOOSE k \in KeptRooms(def) : k.id = r)]]]

Finding(code, in, room, exit) == [code |-> code, pack |-> in[1], zone |-> in[2].id, room |-> room, exit |-> exit]

\* The findings about one definition as it is read.
ReadFindings(inputs, i) ==
    LET in == inputs[i]
        first == inputs[CHOOSE k \in KeptInputs(inputs) : inputs[k][2].id = in[2].id][2]
    IN IF in[2].id = "" THEN {Finding("malformed", in, "", "")}
       ELSE IF i \notin KeptInputs(inputs)
       THEN {Finding("duplicate_zone", in, "", "")}
            \cup {Finding("duplicate_room", in, r, "") : r \in RoomIds(in[2]) \cap RoomIds(first)}
       ELSE {Finding("duplicate_room", in, in[2].rooms[j].id, "") :
                j \in {k \in DOMAIN in[2].rooms : ~FirstOfId(RoomIdsOf(in[2]), k)}}
            \cup (UNION {{Finding("unknown_direction", in, r.id, "") :
                             j \in {k \in DOMAIN r.exits : r.exits[k].dir \notin Directions}} : r \in KeptRooms(in[2])})
            \cup UNION {{Finding("duplicate_direction", in, r.id, r.exits[j].dir) :
                            j \in {k \in DOMAIN r.exits : /\ r.exits[k].dir \in Directions
                                                          /\ ~FirstOfId(ExitDirs(r), k)}} : r \in KeptRooms(in[2])}

\* The Room of a Zone is entered by no Exit of another Room of it.
Orphans(z, zone) ==
    IF Cardinality(DOMAIN zone.rooms) = 1 THEN {}
    ELSE {r \in DOMAIN zone.rooms :
            \A q \in DOMAIN zone.rooms \ {r} : \A e \in zone.rooms[q] : e.zone # z \/ e.room # r}

\* The findings about one kept Zone once every Zone is read.
ResolveFindings(zones, in) ==
    LET z == in[2].id
        zone == zones[z]
        lands(e) == e.zone \in DOMAIN zones /\ e.room \in DOMAIN zones[e.zone].rooms
        back(r, e) == [dir |-> ReverseOf(e.dir), zone |-> z, room |-> r] \in zones[e.zone].rooms[e.room]
    IN (IF zone.fallback \notin DOMAIN zone.rooms THEN {Finding("fallback_missing", in, zone.fallback, "")} ELSE {})
       \cup (UNION {{Finding("unknown_zone", in, r, e.dir) :
                        e \in {x \in zone.rooms[r] : x.zone \notin DOMAIN zones}} : r \in DOMAIN zone.rooms})
       \cup (UNION {{Finding("unknown_room", in, r, e.dir) :
                        e \in {x \in zone.rooms[r] : x.zone \in DOMAIN zones /\ ~lands(x)}} : r \in DOMAIN zone.rooms})
       \cup (UNION {{Finding("missing_reverse_exit", in, r, e.dir) :
                        e \in {x \in zone.rooms[r] : lands(x) /\ ~back(r, x)}} : r \in DOMAIN zone.rooms})
       \cup {Finding("orphan_room", in, r, "") : r \in Orphans(z, zone)}

AllFindings(inputs) ==
    (UNION {ReadFindings(inputs, i) : i \in DOMAIN inputs})
    \cup UNION {ResolveFindings(Zones(inputs), inputs[i]) : i \in KeptInputs(inputs)}

Refusing(findings) == {f \in findings : f.code \notin Warnings}
Advisory(findings) == {f \in findings : f.code \in Warnings}

\* A build that is refused reports only what refuses it.
BuildWorld(inputs) ==
    LET all == AllFindings(inputs)
    IN IF Refusing(all) # {} THEN [errors |-> Refusing(all), warnings |-> {}, zones |-> NoWorld]
       ELSE [errors |-> {}, warnings |-> Advisory(all), zones |-> Zones(inputs)]

-----------------------------------------------------------------------------
(* The compiler, over the Zones of one pack.                               *)

\* Mutant: an Exit of a Room to itself enters it.
WarnOrphansSelf(defs, def) ==
    IF Len(def.rooms) < 2 THEN {}
    ELSE {r.id : r \in {x \in KeptRooms(def) :
            \A q \in KeptRooms(def) : \A i \in DOMAIN q.exits :
               q.exits[i].zone \notin {"", def.id} \/ q.exits[i].room # x.id}}

\* The Rooms of a Zone no Exit from another of its Rooms leads into.
WarnOrphans(defs, def) ==
    IF Cardinality(KeptRooms(def)) < 2 THEN {}
    ELSE {r.id : r \in {x \in KeptRooms(def) :
            \A q \in KeptRooms(def) \ {x} : \A i \in DOMAIN q.exits :
               q.exits[i].zone \notin {"", def.id} \/ q.exits[i].room # x.id}}

HasRoom(def, room) == \E i \in DOMAIN def.rooms : def.rooms[i].id = room

\* buildExit: the codes of one Exit, the i-th of its Room.
BuildExit(defs, def, room, i) ==
    LET e == room.exits[i]
        target == IF e.zone = "" THEN {def} ELSE {d \in defs : d.id = e.zone}
    IN IF e.dir \notin Directions THEN {"unknown_direction"}
       ELSE IF \E j \in 1..(i - 1) : room.exits[j].dir = e.dir THEN {"duplicate_direction"}
       ELSE IF target = {} THEN {"unknown_zone"}
       ELSE IF \A d \in target : ~HasRoom(d, e.room) THEN {"unknown_room"}
       ELSE {}

\* warnReverse: the target Room, the first of its id, has no Exit back.
WarnReverse(defs, def, room, e) ==
    LET tz == IF e.zone = "" THEN def ELSE CHOOSE d \in defs : d.id = e.zone
        target == CHOOSE r \in KeptRooms(tz) : r.id = e.room
    IN ~\E i \in DOMAIN target.exits :
          /\ target.exits[i].dir = ReverseOf(e.dir)
          /\ (IF target.exits[i].zone = "" THEN tz.id ELSE target.exits[i].zone) = def.id
          /\ target.exits[i].room = room.id

\* The codes that refuse a pack's Zones, and the warnings if there are none.
CompileZones(zones) ==
    LET kept == {zones[i] : i \in {j \in DOMAIN zones : \A k \in 1..(j - 1) : zones[k].id # zones[j].id}}
        codes == UNION {UNION {UNION {BuildExit(kept, d, r, i) : i \in DOMAIN r.exits} : r \in KeptRooms(d)} : d \in kept}
                 \cup (IF Cardinality(kept) < Len(zones) THEN {"duplicate_zone"} ELSE {})
                 \cup (IF \E d \in kept : Cardinality(KeptRooms(d)) < Len(d.rooms) THEN {"duplicate_room"} ELSE {})
                 \cup (IF \E d \in kept : ~HasRoom(d, d.fallback) THEN {"fallback_missing"} ELSE {})
        oneway == UNION {{<<"missing_reverse_exit", d.id, r.id>> :
                            r \in {q \in KeptRooms(d) :
                                    \E i \in DOMAIN q.exits : WarnReverse(kept, d, q, q.exits[i])}} :
                           d \in kept}
        orphans == UNION {{<<"orphan_room", d.id, r>> : r \in WarnOrphans(kept, d)} : d \in kept}
    IN IF codes # {} THEN [codes |-> codes, warnings |-> {}]
       ELSE [codes |-> {}, warnings |-> oneway \cup orphans]

\* content validate: the pack compiled, then the server's own build of it.
ValidatePath(pack, zones) ==
    LET compile == CompileZones(zones)
        built == BuildWorld([i \in DOMAIN zones |-> <<pack, zones[i]>>])
        codes == compile.codes \cup {f.code : f \in built.errors}
    IN IF compile.codes # {} THEN compile
       ELSE [codes |-> codes,
             warnings |-> IF codes # {} THEN {}
                          ELSE compile.warnings \cup {<<f.code, f.zone, f.room>> : f \in built.warnings}]

-----------------------------------------------------------------------------
(* content diff: two published versions of a pack.  Of two definitions of  *)
(* one id the last is the one compared.                                    *)

LastOf(seq, id) == seq[CHOOSE i \in DOMAIN seq : seq[i].id = id /\ \A j \in DOMAIN seq : j > i => seq[j].id # id]
IdsOf(seq) == {seq[i].id : i \in DOMAIN seq}

\* Mutant: an Exit's target is the Room it names, whatever the Zone.
ExitTargetRoom(zone, exit) == <<"", exit.room>>

ExitTarget(zone, exit) == IF exit.zone \in {"", zone} THEN <<"", exit.room>> ELSE <<exit.zone, exit.room>>

ExitsByDir(room) ==
    [d \in {room.exits[i].dir : i \in DOMAIN room.exits} \cap Directions |->
        room.exits[CHOOSE i \in DOMAIN room.exits :
                     room.exits[i].dir = d /\ \A j \in DOMAIN room.exits : j > i => room.exits[j].dir # d]]

DiffRooms(zone, a, b) ==
    {<<"room", zone, r>> : r \in (IdsOf(a) \ IdsOf(b)) \cup (IdsOf(b) \ IdsOf(a))}
    \cup UNION {LET x == ExitsByDir(LastOf(a, r))
                    y == ExitsByDir(LastOf(b, r))
                IN {<<"exit", zone, r, d>> : d \in {e \in DOMAIN x \cup DOMAIN y :
                       e \notin DOMAIN x \/ e \notin DOMAIN y \/ ExitTarget(zone, x[e]) # ExitTarget(zone, y[e])}} :
                r \in IdsOf(a) \cap IdsOf(b)}

DiffSides(a, b) ==
    {<<"zone", z>> : z \in (IdsOf(a) \ IdsOf(b)) \cup (IdsOf(b) \ IdsOf(a))}
    \cup {<<"fallback", z>> : z \in {y \in IdsOf(a) \cap IdsOf(b) : LastOf(a, y).fallback # LastOf(b, y).fallback}}
    \cup UNION {DiffRooms(z, LastOf(a, z).rooms, LastOf(b, z).rooms) : z \in IdsOf(a) \cap IdsOf(b)}

-----------------------------------------------------------------------------
(* The publish gate.                                                       *)

PackOrder == SetToSortSeq(ContentPacks, <)

InputsOf(packs, order) ==
    FlattenSeq([k \in DOMAIN order |->
        [i \in DOMAIN packs[order[k]] |-> <<order[k], packs[order[k]][i]>>]])

Incumbents(pack) == SelectSeq(PackOrder, LAMBDA p : p # pack)

\* newGate: the Zones of the candidate that a pack in effect already declares.
Clash(pack, zones) ==
    {zones[i].id : i \in DOMAIN zones}
    \cap UNION {{servedVersions[p][i].id : i \in DOMAIN servedVersions[p]} : p \in ContentPacks \ {pack}}

\* The dropped Zone declares the Room.
Declares(zones, zone, room) ==
    \E i \in DOMAIN zones : zones[i].id = zone /\ HasRoom(zones[i], room)

\* Mutant: any Exit into a dropped Zone is taken as explained by the clash.
ExplainedByZone(f, zones, clash) ==
    \E i \in DOMAIN zones : zones[i].id = f.zone /\
      \E r \in KeptRooms(zones[i]) : r.id = f.room /\
        \E e \in KeptExits(zones[i], r) : e.dir = f.exit /\ e.zone \in clash

\* An unknown_room that is there only because the candidate's Zone was dropped.
Explained(f, zones, clash) ==
    \E i \in DOMAIN zones : zones[i].id = f.zone /\
      \E r \in KeptRooms(zones[i]) : r.id = f.room /\
        \E e \in KeptExits(zones[i], r) : e.dir = f.exit /\ e.zone \in clash /\ Declares(zones, e.zone, e.room)

\* gate.errors: what of the build's errors is the publisher's to read.
GateErrors(raw, pack, zones) ==
    LET clash == Clash(pack, zones)
        told == {f \in raw : ~(/\ f.pack = pack
                               /\ \/ f.code = "duplicate_room" /\ f.zone \in clash
                                  \/ f.code = "unknown_room" /\ Explained(f, zones, clash))}
    IN IF told = {} THEN raw ELSE told

\* gate.warnings: the publisher's own, and those it newly causes elsewhere.
GateWarnings(raw, pack, refused) ==
    {f \in raw : \/ f.pack = pack
                 \/ ~refused /\ f \notin BuildWorld(InputsOf(servedVersions, PackOrder)).warnings}

HasZones(packs) == \E p \in ContentPacks : packs[p] # <<>>

(* buildGate: the candidate last, so that of two copies of a Zone its own  *)
(* is dropped.  Its guard for a World left with no Zones compares with the *)
(* packs other than the candidate's, which then have none: it never fires. *)
BuildGate(pack, zones) ==
    LET inputs == InputsOf([servedVersions EXCEPT ![pack] = zones], Append(Incumbents(pack), pack))
        built == BuildWorld(inputs)
        errors == GateErrors(built.errors, pack, zones)
    IN IF inputs = <<>> THEN [raw |-> {}, errors |-> {}, warnings |-> {}]
       ELSE [raw |-> built.errors, errors |-> errors,
             warnings |-> GateWarnings(built.warnings, pack, errors # {})]

-----------------------------------------------------------------------------
(* The loader: the whole World the move would make, and the move itself.   *)

ZoneIds(packs) == UNION {{packs[p][i].id : i \in DOMAIN packs[p]} : p \in ContentPacks}

SpawnIn(zones) == SpawnRoom[1] \in DOMAIN zones /\ SpawnRoom[2] \in DOMAIN zones[SpawnRoom[1]].rooms

\* Mutant: the candidate is built without the other packs.
AcceptsAlone(pack, zones) ==
    LET with == [servedVersions EXCEPT ![pack] = zones]
        built == BuildWorld(InputsOf([p \in ContentPacks |-> IF p = pack THEN zones ELSE <<>>], PackOrder))
    IN /\ HasZones(servedVersions) => HasZones(with)
       /\ ZoneIds(servedVersions) \subseteq ZoneIds(with)
       /\ built.errors = {}
       /\ HasZones(with) => SpawnIn(Zones(InputsOf(with, PackOrder)))

\* Loader.build for a pointer move: refused if it would empty the World, take
\* a Zone away, not build, or leave the World without its spawn Room.
AcceptsMove(pack, zones) ==
    LET with == [servedVersions EXCEPT ![pack] = zones]
        built == BuildWorld(InputsOf(with, PackOrder))
    IN /\ HasZones(servedVersions) => HasZones(with)
       /\ ZoneIds(servedVersions) \subseteq ZoneIds(with)
       /\ built.errors = {}
       /\ HasZones(with) => SpawnIn(built.zones)

-----------------------------------------------------------------------------
NotJudged == [pack |-> 0, zones |-> <<>>, raw |-> {}, errors |-> {}, warnings |-> {}]

WorldsInit ==
    /\ servedVersions = [p \in ContentPacks |-> <<>>]
    /\ builtWorld = NoWorld
    /\ judged = NotJudged

\* A publish is brought to the gate, which changes nothing in effect.
CheckPublish ==
    /\ judged = NotJudged
    /\ \E p \in ContentPacks, zones \in PackZones :
        judged' = [pack |-> p, zones |-> zones] @@ BuildGate(p, zones)
    /\ UNCHANGED <<servedVersions, builtWorld>>

\* The Builder reads the report.
PublishAnswered ==
    /\ judged # NotJudged
    /\ judged' = NotJudged
    /\ UNCHANGED <<servedVersions, builtWorld>>

\* A version takes effect.
MovePack ==
    /\ judged = NotJudged
    /\ \E p \in ContentPacks, zones \in PackZones :
         /\ zones # servedVersions[p]
         /\ AcceptsMove(p, zones)
         /\ servedVersions' = [servedVersions EXCEPT ![p] = zones]
    /\ builtWorld' = Zones(InputsOf(servedVersions', PackOrder))
    /\ UNCHANGED judged

WorldsNext == CheckPublish \/ PublishAnswered \/ MovePack

WorldsSpec == WorldsInit /\ [][WorldsNext]_worldsVars

-----------------------------------------------------------------------------
\* What each variable holds.
WorldsTypeOK ==
    /\ \A p \in ContentPacks : servedVersions[p] \in PackZones \cup {<<>>}
    /\ DOMAIN builtWorld = ZoneIds(servedVersions)
    /\ judged.pack \in ContentPacks \cup {0}

(* Packs move one at a time, and an Exit may lead into another pack's Zone. *)
(* However they move, the World in effect is whole: every Exit lands in a   *)
(* Room of it, every Zone's fallback is one of its Rooms, new Characters    *)
(* have a spawn Room.                                                       *)
WorldWhole ==
    /\ \A z \in DOMAIN builtWorld :
         /\ builtWorld[z].fallback \in DOMAIN builtWorld[z].rooms
         /\ \A r \in DOMAIN builtWorld[z].rooms : \A e \in builtWorld[z].rooms[r] :
               e.zone \in DOMAIN builtWorld /\ e.room \in DOMAIN builtWorld[e.zone].rooms
    /\ builtWorld # NoWorld => SpawnIn(builtWorld)

(* The gate tells the publisher less than the build found.  It refuses      *)
(* exactly when the loader's build of the same packs would, and what it     *)
(* keeps back is not the publisher's to mend: it names a Zone whose clash   *)
(* is told, or it would not be found at all with the publisher's copy kept. *)
(* A publish it accepts is told every warning the World newly gains by it.  *)
GateTellsEnough ==
    judged.pack # 0 =>
      LET with == [servedVersions EXCEPT ![judged.pack] = judged.zones]
          ownFirst == InputsOf(with, <<judged.pack>> \o Incumbents(judged.pack))
      IN /\ judged.errors = {} <=> BuildWorld(InputsOf(with, PackOrder)).errors = {}
         /\ \A f \in judged.raw \ judged.errors :
              \/ f.code = "duplicate_room"
                 /\ \E g \in judged.errors : g.code = "duplicate_zone" /\ g.zone = f.zone /\ g.pack = f.pack
              \/ f.code = "unknown_room" /\ f \notin BuildWorld(ownFirst).errors
         /\ judged.errors = {} =>
              BuildWorld(InputsOf(with, PackOrder)).warnings
                \ BuildWorld(InputsOf(servedVersions, PackOrder)).warnings \subseteq judged.warnings

(* The compiler on a Builder's machine and the build on the server agree    *)
(* about a pack alone: the same codes refuse it, except that the build also *)
(* names the Rooms two copies of a Zone share, and the same Rooms are       *)
(* warned about.                                                            *)
CompilerMatchesBuild ==
    judged.pack # 0 /\ "" \notin IdsOf(judged.zones) =>
      LET alone == BuildWorld([i \in DOMAIN judged.zones |-> <<judged.pack, judged.zones[i]>>])
          compiledAs == CompileZones(judged.zones)
          coded == {f.code : f \in alone.errors}
      IN /\ ValidatePath(judged.pack, judged.zones) = compiledAs
         /\ compiledAs.codes \subseteq coded
         /\ coded \ compiledAs.codes \subseteq
              (IF "duplicate_zone" \in compiledAs.codes THEN {"duplicate_room"} ELSE {})
         /\ compiledAs.warnings = {<<f.code, f.zone, f.room>> : f \in alone.warnings}

(* A diff of two versions that each compile is empty exactly when they      *)
(* define the same Zones.                                                   *)
DiffTellsAll ==
    judged.pack # 0 =>
      LET a == servedVersions[judged.pack]
          b == judged.zones
          zonesOf(v) == Zones([i \in DOMAIN v |-> <<judged.pack, v[i]>>])
      IN CompileZones(a).codes \cup CompileZones(b).codes = {} /\ "" \notin IdsOf(a) \cup IdsOf(b) =>
           (DiffSides(a, b) = {} <=> zonesOf(a) = zonesOf(b))
=============================================================================
