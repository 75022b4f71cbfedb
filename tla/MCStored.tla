------------------------------ MODULE MCStored --------------------------------
(***************************************************************************)
(* What is stored and read back: the content registry, its loader, the     *)
(* content language and the World it builds, the readers of the Partitions,*)
(* the projector and the snapshot rounds.  The parts are checked one at a  *)
(* time: a behaviour follows the part it starts with, by that part's own   *)
(* specification, and the others stay as they begin.                       *)
(***************************************************************************)
EXTENDS Content, Genesis, Publish, Templates, Worlds, Projector, Retention,
        BoundaryReader, CommandFeed, LogScan, TLC

VARIABLE part   \* the part a behaviour follows

partVars == <<contentVars, genesisVars, publishVars, templateVars, worldsVars,
              projectorVars, retentionVars, readerVars, feedVars, scanVars>>
vars == <<part, partVars>>

Parts == {"content", "genesis", "publish", "templates", "worlds",
          "projector", "retention", "reader", "feed", "scan"}

-------------------------------------------------------------------------------
(* A store or registry fault takes the place of a third round, or of a pointer move. *)
MCBounded == (storeFaults = 0 \/ begun < 3) /\ registryFaults + pointerMoves <= 1

(* The content directory: a Zone, two of them, and a revision that does not load. *)
MCDirRevs == <<{"z1"}, {"z1", "z2"}, {}>>

(* Packs of one or two Templates over a core of two versions. *)
Decl(n, head, comps, removes) == [name |-> n, head |-> head, comps |-> comps, removes |-> removes]
OfKind(k) == [kind |-> k, of |-> "own", extends |-> ""]
Extending(pack, n) == [kind |-> "", of |-> pack, extends |-> n]
OneComp(c, fields) == [x \in {c} |-> fields]
FieldIs(v) == [x \in {"f"} |-> v]
NoComps == [x \in {} |-> NoFields]

MCCoreSources ==
  << <<Decl("X", OfKind("entity"), OneComp("c", FieldIs(1)), FALSE),
       Decl("Y", Extending("own", "X"), OneComp("d", NoFields), FALSE)>>,
     <<Decl("X", OfKind("entity"), OneComp("c", FieldIs(2)) @@ OneComp("d", NoFields), FALSE),
       Decl("Y", Extending("own", "X"), NoComps, FALSE)>> >>

MCHeads ==
  {OfKind("entity"), OfKind("item"), OfKind(""), [Extending("own", "A") EXCEPT !.kind = "item"]}
  \cup {Extending("own", n) : n \in {"A", "B"}} \cup {Extending("core", n) : n \in {"X", "Y"}}
  \cup {Extending("other", "X")}
MCComps == {NoComps} \cup {OneComp("c", fields) : fields \in {NoFields, FieldIs(1), FieldIs(2)}}
           \cup {OneComp("d", NoFields)}

MCPackSources ==
  {<<Decl("A", h, c, FALSE), Decl(n, g, e, FALSE)>> :
     h \in MCHeads, g \in MCHeads, c \in MCComps, e \in MCComps, n \in {"A", "B"}}
  \cup {<<Decl("A", h, NoComps, TRUE)>> : h \in MCHeads}
  \cup {<<Decl("A", h, c, FALSE)>> :
          h \in MCHeads, c \in {OneComp("c", FieldIs(0)), OneComp("u", NoFields)}}

(* Versions of a pack: no Zone, one or two, with Exits that land and that do not. *)
ExitTo(d, z, r) == [dir |-> d, zone |-> z, room |-> r]
RoomOf(r, exits) == [id |-> r, exits |-> exits]
ZoneOf(z, fallback, rooms) == [id |-> z, fallback |-> fallback, rooms |-> rooms]

MCWays == {<<>>, <<ExitTo("n", "", "q")>>, <<ExitTo("n", "y", "r")>>, <<ExitTo("n", "y", "q")>>,
           <<ExitTo("n", "z", "r")>>}
MCBack == <<ExitTo("s", "z", "r")>>

MCPackZones ==
  {<<>>}
  \cup {<<ZoneOf("z", "r", <<RoomOf("r", w)>>)>> : w \in MCWays}
  \cup {<<ZoneOf("z", "r", <<RoomOf("r", w), RoomOf("q", b)>>)>> :
          w \in MCWays, b \in {<<>>, <<ExitTo("s", "", "r")>>}}
  \cup {<<ZoneOf("y", "r", rooms)>> :
          rooms \in {<<RoomOf("r", <<>>)>>, <<RoomOf("r", <<>>), RoomOf("q", <<>>)>>,
                     <<RoomOf("r", MCBack)>>}}
  \cup {<<ZoneOf("z", "r", <<RoomOf("r", w)>>), zone>> : w \in MCWays,
          zone \in {ZoneOf("y", "r", <<RoomOf("r", <<>>)>>),
                    ZoneOf("y", "r", <<RoomOf("r", MCBack), RoomOf("q", <<>>)>>)}}
  \cup {<<zone>> : zone \in {
          ZoneOf("z", "r", <<RoomOf("r", <<>>), RoomOf("r", <<>>)>>),
          ZoneOf("z", "r", <<RoomOf("r", <<ExitTo("x", "", "r")>>)>>),
          ZoneOf("z", "r", <<RoomOf("r", <<ExitTo("n", "", "r"), ExitTo("n", "", "q")>>)>>),
          ZoneOf("z", "", <<RoomOf("r", <<>>)>>), ZoneOf("", "r", <<RoomOf("r", <<>>)>>),
          ZoneOf("z", "r", <<RoomOf("r", <<>>), RoomOf("q", <<ExitTo("n", "", "q")>>)>>)}}

MCSpawnRoom == <<"z", "r">>

-------------------------------------------------------------------------------
Init ==
  /\ part \in Parts
  /\ ContentInit /\ PublishInit /\ WorldsInit
  /\ ProjectorInit /\ RetentionInit /\ ReaderInit /\ FeedInit /\ ScanInit
  /\ GenesisInit /\ (part = "genesis" \/ dir.rev = 1)
  /\ IF part = "templates" THEN TemplatesInit
     ELSE /\ source = [decls |-> <<>>, core |-> 1] /\ compiled = Uncompiled /\ upload = {}
          /\ coreNow = 1 /\ registry = {}

Next ==
  \/ /\ part = "content" /\ ContentNext
     /\ UNCHANGED part /\ UNCHANGED <<genesisVars, publishVars, templateVars, worldsVars>>
     /\ UNCHANGED <<projectorVars, retentionVars, readerVars, feedVars, scanVars>>
  \/ /\ part = "genesis" /\ GenesisNext
     /\ UNCHANGED part /\ UNCHANGED <<contentVars, publishVars, templateVars, worldsVars>>
     /\ UNCHANGED <<projectorVars, retentionVars, readerVars, feedVars, scanVars>>
  \/ /\ part = "publish" /\ PublishNext
     /\ UNCHANGED part /\ UNCHANGED <<contentVars, genesisVars, templateVars, worldsVars>>
     /\ UNCHANGED <<projectorVars, retentionVars, readerVars, feedVars, scanVars>>
  \/ /\ part = "templates" /\ TemplatesNext
     /\ UNCHANGED part /\ UNCHANGED <<contentVars, genesisVars, publishVars, worldsVars>>
     /\ UNCHANGED <<projectorVars, retentionVars, readerVars, feedVars, scanVars>>
  \/ /\ part = "worlds" /\ WorldsNext
     /\ UNCHANGED part /\ UNCHANGED <<contentVars, genesisVars, publishVars, templateVars>>
     /\ UNCHANGED <<projectorVars, retentionVars, readerVars, feedVars, scanVars>>
  \/ /\ part = "projector" /\ ProjectorNext
     /\ UNCHANGED part /\ UNCHANGED <<contentVars, genesisVars, publishVars, templateVars>>
     /\ UNCHANGED <<worldsVars, retentionVars, readerVars, feedVars, scanVars>>
  \/ /\ part = "retention" /\ RetentionNext
     /\ UNCHANGED part /\ UNCHANGED <<contentVars, genesisVars, publishVars, templateVars>>
     /\ UNCHANGED <<worldsVars, projectorVars, readerVars, feedVars, scanVars>>
  \/ /\ part = "reader" /\ ReaderNext
     /\ UNCHANGED part /\ UNCHANGED <<contentVars, genesisVars, publishVars, templateVars>>
     /\ UNCHANGED <<worldsVars, projectorVars, retentionVars, feedVars, scanVars>>
  \/ /\ part = "feed" /\ FeedNext
     /\ UNCHANGED part /\ UNCHANGED <<contentVars, genesisVars, publishVars, templateVars>>
     /\ UNCHANGED <<worldsVars, projectorVars, retentionVars, readerVars, scanVars>>
  \/ /\ part = "scan" /\ ScanNext
     /\ UNCHANGED part /\ UNCHANGED <<contentVars, genesisVars, publishVars, templateVars>>
     /\ UNCHANGED <<worldsVars, projectorVars, retentionVars, readerVars, feedVars>>

Spec == Init /\ [][Next]_vars

-------------------------------------------------------------------------------
(* The properties, a part at a time; what each conjunct says stands where it  *)
(* is defined.  TopicIsWorld, TagKeepsRound and RecoveryPointStays are        *)
(* checked as they are.                                                       *)

(* Every part's state keeps its type, through faults, restarts and races. *)
StoredTypeOK ==
  CASE part = "content" -> ContentTypeOK
    [] part = "genesis" -> GenesisTypeOK
    [] part = "publish" -> PublishTypeOK
    [] part = "templates" -> TemplatesTypeOK
    [] part = "worlds" -> WorldsTypeOK
    [] part = "projector" -> ProjectorTypeOK
    [] part = "retention" -> RetentionTypeOK
    [] part = "reader" -> ReaderTypeOK
    [] part = "feed" -> FeedTypeOK
    [] part = "scan" -> ScanTypeOK

(* The content loader (server/content) and the first content of a World: what *)
(* is in effect is what was built for it, and the pointers come to be served, *)
(* in a process in which no wait for the World Partition runs out and no      *)
(* ReloadContent runs beside Follow (Undisturbed), the Builder pack's unless  *)
(* an older version went back to the retries beside its newest move           *)
(* (outlived); and a World begins once.                                       *)
ContentSafe ==
  /\ part = "content" => CoherentUndisturbed /\ PointersServed
  /\ part = "genesis" => OneGenesis /\ ServedIsInEffect

(* The registry (server/content, admin/cli): versions are whole, publishes    *)
(* take turns, and nobody approves what they published.                       *)
PublishSafe == part = "publish" => VersionsWhole /\ PublishesInTurn /\ FourEyes

(* The content language (lang, server/sim, server/content): what the compiler *)
(* accepts the server builds, chains keep their ancestors, the World built is *)
(* whole, and the publish gate tells the publisher enough.                    *)
LanguageSafe ==
  /\ part = "templates" => AncestorsKept /\ CompilerAgrees /\ RoundTrips
  /\ part = "worlds" => WorldWhole /\ GateTellsEnough /\ CompilerMatchesBuild /\ DiffTellsAll

(* The readers of the log (server/tickloop, server/recordlog): the boundary   *)
(* reader refuses nothing that is held and skips nothing; the Command feed    *)
(* and a replica apply each Command once and in order; a scan of a compacted  *)
(* topic can always finish, and holds what was newest when it began.          *)
ReadersSafe ==
  /\ part = "reader" => NoFalseGap /\ EndsAtHead /\ NothingSkipped
  /\ part = "feed" => FeedExact /\ ReplicaExact
  /\ part = "scan" => ScanIsCurrent /\ ScanCanFinish
===============================================================================
