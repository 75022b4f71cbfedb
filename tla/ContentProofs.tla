----------------------------- MODULE ContentProofs -----------------------------
(***************************************************************************)
(* What a World is served.  Theorems about the content loader and the      *)
(* genesis of a World, from an inductive invariant of each (ContentInv,    *)
(* GenesisInv); about the Templates in effect, for chains of any length    *)
(* and whatever is sent and however core moves; and about the World that   *)
(* is built, for any packs and versions of them.  The theorems on Spec are *)
(* about MCStored's behaviours, each of which follows one part.            *)
(***************************************************************************)
EXTENDS MCStored, SequenceTheorems, WellFoundedInduction, TLAPS

--------------------------------------------------------------------------------
(* The least of a set of naturals. *)

(* A set of naturals that is not empty has a least element. *)
LEMMA LeastNatural ==
  ASSUME NEW S \in SUBSET Nat, S # {}
  PROVE  \E n \in S : \A x \in S : n <= x
<1> DEFINE R == {r \in Nat \X Nat : r[1] < r[2]}
<1>1. IsWellFoundedOn(R, Nat)
  <2>1. OpToRel(<, Nat) = R
    BY DEF OpToRel
  <2> QED BY <2>1, NatLessThanWellFounded
<1>2. PICK n \in S : \A x \in S : <<x, n>> \notin R
  BY <1>1, WFMin, Zenon
<1>3. \A x \in S : ~(x < n)
  BY <1>2
<1> QED BY <1>3

--------------------------------------------------------------------------------
(* The content loader: the types. *)

(* The version numbers of a pack, 0 for none, when n game versions are out. *)
NumbersOf(n, p) == 0..(IF p = "core" THEN MaxCore ELSE n)
VersionMaps(n) == {f \in [Packs -> Nat] : \A p \in Packs : f[p] \in NumbersOf(n, p)}
Known(n, r) == r.version \in NumbersOf(n, r.pack)

Moves(n) == {m \in [pack : Packs, version : Nat \ {0}] : Known(n, m)}
Tasks(n) == {t \in [pack : Packs, version : Nat, moved : BOOLEAN] : Known(n, t)}
SwapRecords(n) ==
  {s \in [pack : Packs, version : Nat, base : VersionMaps(n), built : VersionMaps(n)] : Known(n, s)}
Outcomes(n) == {o \in [pack : Packs, version : Nat, result : {"applied", "stale"}] : Known(n, o)}
LoadsOver(n) ==
  [stage : {"idle", "built", "applying", "unknown"}, attempt : Nat,
   verdict : {"none", "applied", "stale"}, base : VersionMaps(n)]
LoaderStates(n) == [todo : Seq(Tasks(n)), load : LoadsOver(n)]

(* The variables' types. *)
pubs == Len(pins)
RegistryTypes ==
  /\ pins \in Seq(1..MaxCore) /\ pubs \in Nat /\ cores \subseteq 1..MaxCore
  /\ pointer \in VersionMaps(pubs) /\ activating \subseteq Moves(pubs) /\ moves \in Seq(Moves(pubs))
  /\ used \in [{"moves", "restarts", "failures", "disturbances"} -> Nat] /\ bootCore \in Nat
FollowTypes ==
  /\ mode \in {"boot", "reconcile", "loading", "serve", "follow", "down"}
  /\ serving \in VersionMaps(pubs) /\ refused \in VersionMaps(pubs)
  /\ startRetries \in VersionMaps(pubs) /\ pending \in VersionMaps(pubs) /\ retries \in VersionMaps(pubs)
  /\ held \in NumbersOf(pubs, "game") /\ outlived \in BOOLEAN
EngineTypes ==
  /\ effect \in VersionMaps(pubs) /\ world \in VersionMaps(pubs)
  /\ swaps \in Seq(SwapRecords(pubs)) /\ position \in 0..Len(swaps)
  /\ outcome \in Outcomes(pubs) \cup {NoOutcome}
LoaderTypes == loader \in [Loaders -> LoaderStates(pubs)]
ContentTypes == RegistryTypes /\ FollowTypes /\ EngineTypes /\ LoaderTypes

(* Publishing a version takes no other away. *)
LEMMA NumbersGrow ==
  ASSUME NEW n \in Nat, NEW m \in Nat, n <= m
  PROVE  /\ \A p \in Packs : NumbersOf(n, p) \subseteq NumbersOf(m, p)
         /\ VersionMaps(n) \subseteq VersionMaps(m) /\ Moves(n) \subseteq Moves(m)
         /\ Outcomes(n) \subseteq Outcomes(m) /\ LoaderStates(n) \subseteq LoaderStates(m)
         /\ Seq(Moves(n)) \subseteq Seq(Moves(m)) /\ Seq(SwapRecords(n)) \subseteq Seq(SwapRecords(m))
<1>1. \A p \in Packs : NumbersOf(n, p) \subseteq NumbersOf(m, p)
  BY ContentAssumption DEF NumbersOf
<1>2. VersionMaps(n) \subseteq VersionMaps(m)
  BY <1>1 DEF VersionMaps
<1>3. Moves(n) \subseteq Moves(m) /\ Tasks(n) \subseteq Tasks(m) /\ Outcomes(n) \subseteq Outcomes(m)
  BY <1>1 DEF Moves, Tasks, Outcomes, Known
<1>4. SwapRecords(n) \subseteq SwapRecords(m)
  BY <1>1, <1>2 DEF SwapRecords, Known
<1>5. LoadsOver(n) \subseteq LoadsOver(m)
  BY <1>2 DEF LoadsOver
<1>6. /\ Seq(Moves(n)) \subseteq Seq(Moves(m)) /\ Seq(SwapRecords(n)) \subseteq Seq(SwapRecords(m))
      /\ Seq(Tasks(n)) \subseteq Seq(Tasks(m))
  BY <1>3, <1>4
<1>7. LoaderStates(n) \subseteq LoaderStates(m)
  BY <1>5, <1>6 DEF LoaderStates
<1> QED BY <1>1, <1>2, <1>3, <1>6, <1>7

(* A version map with one version replaced, and the one without any. *)
LEMMA VersionPut ==
  ASSUME NEW n \in Nat, NEW f \in VersionMaps(n), NEW p \in Packs, NEW v \in NumbersOf(n, p)
  PROVE  /\ [f EXCEPT ![p] = v] \in VersionMaps(n) /\ [f EXCEPT ![p] = v][p] = v
         /\ \A q \in Packs : q # p => [f EXCEPT ![p] = v][q] = f[q]
BY ContentAssumption DEF VersionMaps, NumbersOf

(* No version in effect, an idle load and a goroutine at rest have their *)
(* types.                                                                *)
LEMMA NoneMap ==
  ASSUME NEW n \in Nat
  PROVE  /\ NoVersions \in VersionMaps(n) /\ IdleLoad \in LoadsOver(n) /\ NoLoader \in LoaderStates(n)
         /\ 0 \in NumbersOf(n, "game") /\ \A f \in VersionMaps(n), p \in Packs : f[p] \in NumbersOf(n, p)
<1>1. NoVersions \in VersionMaps(n) /\ 0 \in NumbersOf(n, "game")
  BY ContentAssumption DEF VersionMaps, NumbersOf, NoVersions, Packs
<1>2. IdleLoad \in LoadsOver(n)
  BY <1>1 DEF IdleLoad, LoadsOver
<1>3. NoLoader \in LoaderStates(n)
  BY <1>2 DEF NoLoader, LoaderStates
<1> QED BY <1>1, <1>2, <1>3 DEF VersionMaps

(* The tasks of a batch. *)
BatchShape(b, f, m) ==
  /\ \A i \in 1..Len(b) : b[i].version = f[b[i].pack] /\ b[i].version # 0 /\ b[i].moved = m
  /\ \A i \in 1..Len(b) : b[i].pack = "core" => i = 1
  /\ \A p \in Packs : f[p] # 0 => \E i \in 1..Len(b) : b[i].pack = p

(* What batch returns: the versions asked for, the core first. *)
LEMMA BatchIs ==
  ASSUME NEW n \in Nat, NEW f \in VersionMaps(n), NEW m \in BOOLEAN
  PROVE  Batch(f, m) \in Seq(Tasks(n)) /\ BatchShape(Batch(f, m), f, m)
<1> SUFFICES ASSUME NEW b, b = Batch(f, m) PROVE b \in Seq(Tasks(n)) /\ BatchShape(b, f, m)
  OBVIOUS
<1> DEFINE c == Task("core", f["core"], m)
           g == Task("game", f["game"], m)
<1>1. /\ c \in Tasks(n) /\ c.pack = "core" /\ c.version = f["core"] /\ c.moved = m
      /\ g \in Tasks(n) /\ g.pack = "game" /\ g.version = f["game"] /\ g.moved = m
  BY DEF Task, Tasks, Known, VersionMaps, Packs
<1>2. b = (IF f["core"] = 0 THEN <<>> ELSE <<c>>) \o (IF f["game"] = 0 THEN <<>> ELSE <<g>>)
  BY DEF Batch
<1> HIDE DEF c, g
<1>3. CASE f["core"] = 0 /\ f["game"] = 0
  BY <1>2, <1>3 DEF Packs, BatchShape
<1>4. CASE f["core"] # 0 /\ f["game"] = 0
  <2>1. b = <<c>>
    BY <1>2, <1>4
  <2>2. b \in Seq(Tasks(n)) /\ Len(b) = 1 /\ b[1] = c
    BY <1>1, <2>1
  <2> QED BY <1>1, <1>4, <2>2 DEF Packs, BatchShape
<1>5. CASE f["core"] = 0 /\ f["game"] # 0
  <2>1. b = <<g>>
    BY <1>2, <1>5
  <2>2. b \in Seq(Tasks(n)) /\ Len(b) = 1 /\ b[1] = g
    BY <1>1, <2>1
  <2> QED BY <1>1, <1>5, <2>2 DEF Packs, BatchShape
<1>6. CASE f["core"] # 0 /\ f["game"] # 0
  <2>1. b = <<c>> \o <<g>>
    BY <1>2, <1>6
  <2>3. <<c>> \in Seq(Tasks(n)) /\ Len(<<c>>) = 1 /\ <<c>>[1] = c /\ <<g>> \in Seq(Tasks(n)) /\ Len(<<g>>) = 1 /\ <<g>>[1] = g
    BY <1>1
  <2>2. b \in Seq(Tasks(n)) /\ Len(b) = 2 /\ b[1] = c /\ b[2] = g
    BY <2>1, <2>3
  <2> QED BY <1>1, <1>6, <2>2 DEF Packs, BatchShape
<1> QED BY <1>3, <1>4, <1>5, <1>6

(* What a load that returns leaves: the rest of its batch, after the version  *)
(* that a core move releases.                                                 *)
Releases(t, h) == t.moved /\ t.pack = "core" /\ h # 0
AfterShape(a, s, h) ==
  /\ a.load = IdleLoad
  /\ \A i \in 1..Len(a.todo) : \/ \E j \in 2..Len(s) : a.todo[i] = s[j]
                               \/ a.todo[i] = Task("game", h, FALSE) /\ Releases(s[1], h)
  /\ \A j \in 2..Len(s) : \E i \in 1..Len(a.todo) : a.todo[i] = s[j]
  /\ Releases(s[1], h) => \E i \in 1..Len(a.todo) : a.todo[i] = Task("game", h, FALSE)

(* What is left to load once the oldest version of a batch has returned. *)
LEMMA AfterIs ==
  ASSUME NEW n \in Nat, NEW w \in Loaders, loader[w].todo \in Seq(Tasks(n)), loader[w].todo # <<>>,
         NEW h \in NumbersOf(n, "game")
  PROVE  After(w, h) \in LoaderStates(n) /\ AfterShape(After(w, h), loader[w].todo, h)
<1> SUFFICES ASSUME NEW s, s = loader[w].todo, s \in Seq(Tasks(n)), s # <<>>, NEW a, a = After(w, h)
             PROVE  a \in LoaderStates(n) /\ AfterShape(a, s, h)
  OBVIOUS
<1> DEFINE q == Task("game", h, FALSE)
           frees == Releases(s[1], h)
           r == IF frees THEN <<q>> ELSE <<>>
           z == r \o Tail(s)
<1>1. /\ Tail(s) \in Seq(Tasks(n)) /\ Len(Tail(s)) = Len(s) - 1 /\ Len(s) \in Nat /\ Len(s) >= 1
      /\ \A i \in 1..Len(Tail(s)) : Tail(s)[i] = s[i + 1]
  OBVIOUS
<1>2. Loads(w) = s[1]
  BY DEF Loads
<1>3. a = [todo |-> z, load |-> IdleLoad]
  BY <1>2 DEF After, Releases
<1>4. q \in Tasks(n)
  BY DEF Task, Tasks, Known, NumbersOf, Packs
<1> HIDE DEF q, frees
<1>5. /\ r \in Seq(Tasks(n)) /\ Len(r) \in {0, 1}
      /\ Len(r) = 1 => frees /\ r[1] = q
      /\ frees => Len(r) = 1
  BY <1>4
<1>6. IdleLoad \in LoadsOver(n)
  BY NoneMap
<1> HIDE DEF r
<1>7. z \in Seq(Tasks(n)) /\ Len(z) = Len(r) + Len(s) - 1 /\ \A i \in 1..Len(z) :
        z[i] = IF i <= Len(r) THEN r[i] ELSE Tail(s)[i - Len(r)]
  BY <1>1, <1>5
<1> HIDE DEF z
<1>8. a \in LoaderStates(n) /\ a.load = IdleLoad /\ a.todo = z
  BY <1>3, <1>6, <1>7 DEF LoaderStates
<1>9. ASSUME NEW i \in 1..Len(z)
      PROVE  (\E j \in 2..Len(s) : z[i] = s[j]) \/ (z[i] = q /\ frees)
  <2>1. CASE i <= Len(r)
    <3>1. (Len(r) = 0 \/ Len(r) = 1) /\ i \in Int /\ i >= 1
      BY <1>5, <1>7
    <3>3. Len(r) # 0
      BY <2>1, <3>1
    <3>4. Len(r) = 1
      BY <3>1, <3>3
    <3>5. i <= 1
      BY <2>1, <3>4
    <3>6. i = 1
      BY <3>1, <3>5
    <3>2. Len(r) = 1 /\ i = 1
      BY <3>4, <3>6
    <3> QED BY <1>5, <1>7, <3>2
  <2>2. CASE ~(i <= Len(r))
    <3>0. PICK n1, n2, n3 \in Int : n1 = Len(r) /\ n2 = Len(s) /\ n3 = Len(Tail(s))
      <4>1. Len(s) \in Int
        BY <1>1
      <4>2. Len(Tail(s)) \in Int
        BY <1>1
      <4>3. Len(r) \in Int
        BY <1>5
      <4> QED BY <4>1, <4>2, <4>3, Zenon
    <3>2. /\ i \in 1..(n1 + n2 - 1) /\ i \in Int /\ n1 \in {0, 1} /\ n3 = n2 - 1 /\ n2 >= 1 /\ ~(i <= n1)
      BY <1>1, <1>5, <1>7, <2>2, <3>0
    <3>3. i - n1 \in 1..n3 /\ (i - n1) + 1 \in 2..n2
      BY <3>2
    <3>4. z[i] = Tail(s)[i - Len(r)]
      BY <1>7, <2>2
    <3>1. z[i] = Tail(s)[i - Len(r)] /\ i - Len(r) \in 1..Len(Tail(s)) /\ (i - Len(r)) + 1 \in 2..Len(s)
      BY <3>0, <3>3, <3>4
    <3> QED BY <1>1, <3>1
  <2> QED BY <2>1, <2>2
<1>10. ASSUME NEW j \in 2..Len(s) PROVE \E i \in 1..Len(z) : z[i] = s[j]
  <2>1. j - 1 \in 1..Len(Tail(s)) /\ (j - 1) + 1 = j /\ (j - 1) + Len(r) \in 1..Len(z)
        /\ ~((j - 1) + Len(r) <= Len(r)) /\ ((j - 1) + Len(r)) - Len(r) = j - 1
    BY <1>1, <1>5, <1>7
  <2>2. z[(j - 1) + Len(r)] = Tail(s)[j - 1] /\ Tail(s)[j - 1] = s[j]
    BY <1>1, <1>7, <2>1
  <2> QED BY <2>1, <2>2
<1>11. ASSUME frees PROVE \E i \in 1..Len(z) : z[i] = q
  <2>0. Len(r) = 1 /\ Len(z) = Len(r) + Len(s) - 1 /\ Len(s) \in Nat /\ Len(s) >= 1
    BY <1>1, <1>5, <1>7, <1>11
  <2>1. 1 \in 1..Len(z) /\ 1 <= Len(r)
    BY <2>0
  <2> QED BY <1>5, <1>7, <1>11, <2>1
<1> QED BY <1>8, <1>9, <1>10, <1>11 DEF q, frees, AfterShape

(* A World whose content is empty. *)
LEMMA ContentInitTypes == ContentInit => ContentTypes
<1> SUFFICES ASSUME ContentInit PROVE ContentTypes
  OBVIOUS
<1>1. pins = <<>> /\ moves = <<>> /\ swaps = <<>>
  BY DEF ContentInit
<1>2. pubs = 0 /\ pubs \in Nat /\ pins \in Seq(1..MaxCore) /\ moves \in Seq(Moves(pubs)) /\ swaps \in Seq(SwapRecords(pubs))
      /\ Len(swaps) = 0
  BY <1>1 DEF pubs
<1>3. /\ NoVersions \in VersionMaps(pubs) /\ NoLoader \in LoaderStates(pubs) /\ 0 \in NumbersOf(pubs, "game")
  BY <1>2, NoneMap
<1>4. RegistryTypes /\ FollowTypes
  BY <1>2, <1>3 DEF ContentInit, RegistryTypes, FollowTypes
<1>5. EngineTypes /\ LoaderTypes
  BY <1>2, <1>3 DEF ContentInit, EngineTypes, LoaderTypes
<1> QED BY <1>4, <1>5 DEF ContentTypes

(* The types follow the variables they are of. *)
LEMMA RegistrySame ==
  ASSUME RegistryTypes, UNCHANGED <<pins, cores, pointer, activating, moves, used, bootCore>>
  PROVE  RegistryTypes' /\ pubs' = pubs
BY DEF RegistryTypes, pubs

(* A step that leaves what the Loader keeps. *)
LEMMA FollowSame ==
  ASSUME FollowTypes, UNCHANGED <<pins, mode, serving, refused, followVars, held>>
  PROVE  FollowTypes'
BY DEF FollowTypes, pubs, followVars

(* A step that leaves the swaps and the Engine. *)
LEMMA EngineSame ==
  ASSUME EngineTypes, UNCHANGED <<pins, swaps, engineVars>>
  PROVE  EngineTypes'
BY DEF EngineTypes, pubs, engineVars

(* A step that leaves both goroutines. *)
LEMMA LoaderSame ==
  ASSUME LoaderTypes, UNCHANGED <<pins, loader>>
  PROVE  LoaderTypes'
BY DEF LoaderTypes, pubs

(* A version is published. *)
LEMMA PublishKeeps == ASSUME ContentTypes, PublishVersion PROVE ContentTypes'
<1>1. PICK pin \in cores : pins' = Append(pins, pin)
  BY DEF PublishVersion
<1>2. pins \in Seq(1..MaxCore) /\ pin \in 1..MaxCore /\ pubs \in Nat
  BY DEF ContentTypes, RegistryTypes
<1>3. pins' \in Seq(1..MaxCore) /\ Len(pins') = Len(pins) + 1
  BY <1>1, <1>2
<1>4. pubs' \in Nat /\ pubs <= pubs'
  BY <1>2, <1>3 DEF pubs
<1> DEFINE n == pubs
           m == pubs'
<1>5. n \in Nat /\ m \in Nat /\ n <= m
  BY <1>2, <1>4
<1> HIDE DEF n, m
<1>6. /\ NumbersOf(n, "game") \subseteq NumbersOf(m, "game")
      /\ VersionMaps(n) \subseteq VersionMaps(m) /\ Moves(n) \subseteq Moves(m)
      /\ Outcomes(n) \subseteq Outcomes(m) /\ LoaderStates(n) \subseteq LoaderStates(m)
      /\ Seq(Moves(n)) \subseteq Seq(Moves(m)) /\ Seq(SwapRecords(n)) \subseteq Seq(SwapRecords(m))
  BY <1>5, NumbersGrow DEF Packs
<1>7. RegistryTypes'
  BY <1>3, <1>4, <1>6 DEF PublishVersion, ContentTypes, RegistryTypes, n, m
<1>8. FollowTypes'
  BY <1>6 DEF PublishVersion, ContentTypes, FollowTypes, followVars, n, m
<1>9. EngineTypes'
  BY <1>6 DEF PublishVersion, ContentTypes, EngineTypes, engineVars, n, m
<1>10. LoaderTypes'
  BY <1>6 DEF PublishVersion, ContentTypes, LoaderTypes, n, m
<1> QED BY <1>7, <1>8, <1>9, <1>10 DEF ContentTypes

(* A bounded step counts itself. *)
LEMMA UsesTypes ==
  ASSUME RegistryTypes, NEW b \in {"moves", "restarts", "failures", "disturbances"},
         used' = [used EXCEPT ![b] = @ + 1]
  PROVE  /\ used' \in [{"moves", "restarts", "failures", "disturbances"} -> Nat]
         /\ b # "disturbances" => used'["disturbances"] = used["disturbances"]
         /\ b = "disturbances" => used'["disturbances"] # 0
BY DEF RegistryTypes

(* An activation passes its check. *)
LEMMA CheckKeeps ==
  ASSUME ContentTypes, NEW p \in Packs, NEW v \in 1..(MaxCore + MaxVersions), CheckActivation(p, v)
  PROVE  ContentTypes'
<1>1. v \in NumbersOf(pubs, p)
  <2>1. CASE p = "core"
    BY <2>1, ContentAssumption DEF CheckActivation, ContentTypes, RegistryTypes, NumbersOf
  <2>2. CASE p = "game"
    BY <2>2 DEF CheckActivation, ContentTypes, RegistryTypes, NumbersOf, pubs, Packs
  <2> QED BY <2>1, <2>2 DEF Packs
<1>2. activating' \subseteq Moves(pubs)
  BY <1>1, ContentAssumption DEF CheckActivation, Moves, Known
<1>3. RegistryTypes /\ used' \in [{"moves", "restarts", "failures", "disturbances"} -> Nat]
  BY UsesTypes DEF CheckActivation, Uses, ContentTypes
<1>4. RegistryTypes' /\ pubs' = pubs
  BY <1>2, <1>3 DEF CheckActivation, RegistryTypes, pubs
<1>5. FollowTypes' /\ EngineTypes' /\ LoaderTypes'
  BY FollowSame, EngineSame, LoaderSame DEF CheckActivation, ContentTypes
<1> QED BY <1>4, <1>5 DEF ContentTypes

(* A pointer that moves, and its record. *)
LEMMA MovedTypes ==
  ASSUME RegistryTypes, NEW p \in Packs, NEW v \in NumbersOf(pubs, p), v # 0, Moved(p, v)
  PROVE  /\ pointer' \in VersionMaps(pubs) /\ moves' \in Seq(Moves(pubs))
         /\ moves' = Append(moves, [pack |-> p, version |-> v]) /\ Len(moves') = Len(moves) + 1
         /\ moves'[Len(moves) + 1] = [pack |-> p, version |-> v]
         /\ \A i \in 1..Len(moves) : moves'[i] = moves[i]
         /\ pointer'[p] = v /\ \A q \in Packs : q # p => pointer'[q] = pointer[q]
<1> DEFINE m == [pack |-> p, version |-> v]
<1>1. m \in Moves(pubs)
  BY ContentAssumption DEF Moves, Known, NumbersOf, RegistryTypes
<1>2. moves \in Seq(Moves(pubs)) /\ moves' = Append(moves, m)
  BY DEF Moved, RegistryTypes
<1> HIDE DEF m
<1>3. /\ moves' \in Seq(Moves(pubs)) /\ Len(moves') = Len(moves) + 1
      /\ moves'[Len(moves) + 1] = m /\ \A i \in 1..Len(moves) : moves'[i] = moves[i]
  BY <1>1, <1>2
<1>4. pubs \in Nat /\ pointer \in VersionMaps(pubs) /\ pointer' = [pointer EXCEPT ![p] = v]
  BY DEF Moved, RegistryTypes
<1>5. /\ [pointer EXCEPT ![p] = v] \in VersionMaps(pubs) /\ [pointer EXCEPT ![p] = v][p] = v
      /\ \A q \in Packs : q # p => [pointer EXCEPT ![p] = v][q] = pointer[q]
  BY <1>4, ContentAssumption DEF VersionMaps, NumbersOf
<1> QED BY <1>2, <1>3, <1>4, <1>5 DEF m

(* The move of a checked activation lands. *)
LEMMA MoveKeeps == ASSUME ContentTypes, NEW a \in activating, MovePointer(a) PROVE ContentTypes'
<1>1. RegistryTypes /\ a \in Moves(pubs)
  BY DEF ContentTypes, RegistryTypes
<1>2. a.pack \in Packs /\ a.version \in NumbersOf(pubs, a.pack) /\ a.version # 0 /\ Moved(a.pack, a.version)
  BY <1>1 DEF Moves, Known, MovePointer
<1>3. pointer' \in VersionMaps(pubs) /\ moves' \in Seq(Moves(pubs))
  BY <1>1, <1>2, MovedTypes
<1>4. RegistryTypes' /\ pubs' = pubs
  BY <1>1, <1>3 DEF MovePointer, RegistryTypes, pubs
<1>5. FollowTypes' /\ EngineTypes' /\ LoaderTypes'
  BY FollowSame, EngineSame, LoaderSame DEF MovePointer, ContentTypes
<1> QED BY <1>4, <1>5 DEF ContentTypes

(* bootCore moves the pointer of the core. *)
LEMMA CoreBootKeeps == ASSUME ContentTypes, NEW build \in 1..MaxCore, BootCore(build) PROVE ContentTypes'
<1>1. RegistryTypes /\ build \in NumbersOf(pubs, "core") /\ build \in Nat /\ build # 0
  BY ContentAssumption DEF ContentTypes, NumbersOf
<1>2. pointer' \in VersionMaps(pubs) /\ moves' \in Seq(Moves(pubs)) /\ bootCore' \in Nat
  <2>1. CASE Moved("core", build) /\ bootCore' = build
    BY <1>1, <2>1, MovedTypes DEF Packs
  <2>2. CASE UNCHANGED <<pointer, moves>> /\ bootCore' = pointer["core"]
    BY <1>1, <2>2 DEF RegistryTypes, VersionMaps, Packs
  <2> QED BY <2>1, <2>2 DEF BootCore
<1>3. RegistryTypes' /\ pubs' = pubs
  BY <1>1, <1>2 DEF BootCore, RegistryTypes, pubs
<1>4. FollowTypes'
  BY DEF BootCore, ContentTypes, FollowTypes, pubs, followVars
<1>5. EngineTypes' /\ LoaderTypes'
  BY EngineSame, LoaderSame DEF BootCore, ContentTypes
<1> QED BY <1>3, <1>4, <1>5 DEF ContentTypes

(* One goroutine changes, the other stays. *)
LEMMA LoaderPut ==
  ASSUME NEW n \in Nat, NEW f \in [Loaders -> LoaderStates(n)], NEW w \in Loaders, NEW x \in LoaderStates(n)
  PROVE  [f EXCEPT ![w] = x] \in [Loaders -> LoaderStates(n)] /\ [f EXCEPT ![w] = x][w] = x
OBVIOUS

(* The task a load is of. *)
LEMMA LoadOf ==
  ASSUME ContentTypes, NEW w \in Loaders, loader[w].todo # <<>>
  PROVE  /\ loader[w] \in LoaderStates(pubs) /\ loader[w].todo \in Seq(Tasks(pubs))
         /\ loader[w].load \in LoadsOver(pubs) /\ pubs \in Nat
         /\ Len(loader[w].todo) \in Nat /\ 1 \in 1..Len(loader[w].todo)
         /\ Loads(w) = loader[w].todo[1]
         /\ Loads(w) \in Tasks(pubs) /\ Loads(w).pack \in Packs
         /\ Loads(w).version \in NumbersOf(pubs, Loads(w).pack) /\ Loads(w).moved \in BOOLEAN
<1>1. loader[w] \in LoaderStates(pubs) /\ pubs \in Nat
  BY DEF ContentTypes, LoaderTypes, RegistryTypes
<1>2. loader[w].todo \in Seq(Tasks(pubs)) /\ loader[w].load \in LoadsOver(pubs)
  BY <1>1 DEF LoaderStates
<1>3. Len(loader[w].todo) \in Nat /\ 1 \in 1..Len(loader[w].todo) /\ Loads(w) = loader[w].todo[1]
      /\ Loads(w) \in Tasks(pubs)
  BY <1>2 DEF Loads
<1> QED BY <1>1, <1>2, <1>3 DEF Tasks, Known

(* What is left when a load returns is typed. *)
LEMMA ReturnsTypes ==
  ASSUME ContentTypes, NEW w \in Loaders, loader[w].todo # <<>>, Returns(w), held' \in NumbersOf(pubs, "game"), UNCHANGED pins
  PROVE  LoaderTypes'
<1>1. loader' = [loader EXCEPT ![w] = After(w, held')]
  BY DEF Returns
<1>2. After(w, held') \in LoaderStates(pubs)
  <2> DEFINE h == held'
  <2>1. loader[w].todo \in Seq(Tasks(pubs)) /\ pubs \in Nat /\ h \in NumbersOf(pubs, "game")
    BY LoadOf
  <2> HIDE DEF h
  <2>2. After(w, h) \in LoaderStates(pubs)
    BY <2>1, AfterIs
  <2> QED BY <2>2 DEF h
<1>3. loader' \in [Loaders -> LoaderStates(pubs)]
  BY <1>1, <1>2, LoaderPut DEF ContentTypes, LoaderTypes, RegistryTypes
<1> QED BY <1>3 DEF LoaderTypes, pubs

(* A load that is put off. *)
LEMMA RetriedTypes ==
  ASSUME ContentTypes, NEW w \in Loaders, loader[w].todo # <<>>, RejectRetried(w), UNCHANGED <<pins, mode, serving, held>>
  PROVE  FollowTypes'
<1>1. /\ Loads(w).pack \in Packs /\ Loads(w).version \in NumbersOf(pubs, Loads(w).pack) /\ pubs \in Nat
  BY LoadOf
<1>2. /\ startRetries \in VersionMaps(pubs) /\ retries \in VersionMaps(pubs)
      /\ pending \in VersionMaps(pubs) /\ refused \in VersionMaps(pubs) /\ serving \in VersionMaps(pubs)
  BY DEF ContentTypes, FollowTypes
<1>3. /\ [startRetries EXCEPT ![Loads(w).pack] = Loads(w).version] \in VersionMaps(pubs)
      /\ [retries EXCEPT ![Loads(w).pack] = Loads(w).version] \in VersionMaps(pubs)
  BY <1>1, <1>2, VersionPut
<1>4. startRetries' \in VersionMaps(pubs) /\ retries' \in VersionMaps(pubs)
  BY <1>2, <1>3 DEF RejectRetried
<1>5. pending' = pending /\ refused' = refused /\ outlived' \in BOOLEAN
  BY DEF RejectRetried, ContentTypes, FollowTypes
<1> QED BY <1>2, <1>4, <1>5 DEF ContentTypes, FollowTypes, pubs

(* Steps of a load leave the registry alone. *)
LEMMA LoadRegistry ==
  ASSUME ContentTypes, Unmoved, \/ UNCHANGED used
                                \/ Unanswered \/ Disturbs
  PROVE  RegistryTypes' /\ pubs' = pubs
<1>1. UNCHANGED <<pins, cores, pointer, coreMover, activating, moves, bootCore>>
  BY DEF Unmoved, storeVars
<1>2. RegistryTypes /\ used' \in [{"moves", "restarts", "failures", "disturbances"} -> Nat]
  BY UsesTypes DEF Unanswered, Disturbs, ContentTypes, RegistryTypes
<1> QED BY <1>1, <1>2 DEF RegistryTypes, pubs

(* A load that leaves the Engine. *)
LEMMA LoadEngine ==
  ASSUME ContentTypes, Unmoved, UNCHANGED <<swaps, engineVars>>
  PROVE  EngineTypes' /\ UNCHANGED pins
BY EngineSame DEF Unmoved, storeVars, ContentTypes

(* A version in effect already, or refused before. *)
LEMMA SettledKeeps == ASSUME ContentTypes, NEW w \in Loaders, LoadSettled(w) PROVE ContentTypes'
<1>1. RegistryTypes' /\ EngineTypes' /\ UNCHANGED pins
  BY LoadRegistry, LoadEngine DEF LoadSettled
<1>2. FollowTypes'
  BY FollowSame DEF LoadSettled, ContentTypes, Unmoved, storeVars
<1>3. LoaderTypes'
  <2>1. loader[w].todo # <<>> /\ Returns(w) /\ held' \in NumbersOf(pubs, "game")
    BY DEF LoadSettled, Loading, ContentTypes, FollowTypes
  <2> QED BY <1>1, <2>1, ReturnsTypes
<1> QED BY <1>1, <1>2, <1>3 DEF ContentTypes

(* A version the store does not give. *)
LEMMA UnreadableKeeps == ASSUME ContentTypes, NEW w \in Loaders, LoadUnreadable(w) PROVE ContentTypes'
<1>1. RegistryTypes' /\ EngineTypes' /\ UNCHANGED pins
  BY LoadRegistry, LoadEngine DEF LoadUnreadable
<1>2. loader[w].todo # <<>> /\ Returns(w) /\ RejectRetried(w) /\ UNCHANGED <<mode, serving, held>>
  BY DEF LoadUnreadable, Loading, Unmoved
<1>3. held' \in NumbersOf(pubs, "game")
  BY <1>2 DEF ContentTypes, FollowTypes
<1>4. FollowTypes'
  BY <1>1, <1>2, RetriedTypes
<1>5. LoaderTypes'
  BY <1>1, <1>2, <1>3, ReturnsTypes
<1> QED BY <1>1, <1>4, <1>5 DEF ContentTypes

(* A version that does not validate, or is held. *)
LEMMA LoadRefusedKeeps == ASSUME ContentTypes, NEW w \in Loaders, LoadRefused(w) PROVE ContentTypes'
<1>1. RegistryTypes' /\ EngineTypes' /\ UNCHANGED pins
  BY LoadRegistry, LoadEngine DEF LoadRefused
<1>2. loader[w].todo # <<>> /\ Returns(w)
  BY DEF LoadRefused, Loading
<1>3. /\ Loads(w).pack \in Packs /\ Loads(w).version \in NumbersOf(pubs, Loads(w).pack) /\ pubs \in Nat
  BY <1>2, LoadOf
<1>4. held' \in NumbersOf(pubs, "game") /\ refused' \in VersionMaps(pubs)
  <2>1. held \in NumbersOf(pubs, "game") /\ refused \in VersionMaps(pubs)
    BY DEF ContentTypes, FollowTypes
  <2>2. CASE Skewed(Loads(w).pack, Loads(w).version, serving)
    BY <1>3, <2>1, <2>2 DEF LoadRefused, Skewed
  <2>3. CASE ~Skewed(Loads(w).pack, Loads(w).version, serving)
    <3>1. [refused EXCEPT ![Loads(w).pack] = Loads(w).version] \in VersionMaps(pubs)
      BY <1>3, <2>1, VersionPut
    <3> QED BY <2>1, <2>3, <3>1 DEF LoadRefused
  <2> QED BY <2>2, <2>3
<1>5. FollowTypes'
  BY <1>1, <1>4 DEF LoadRefused, ContentTypes, FollowTypes, Unmoved, storeVars, followVars, pubs
<1>6. LoaderTypes'
  BY <1>1, <1>2, <1>4, ReturnsTypes
<1> QED BY <1>1, <1>5, <1>6 DEF ContentTypes

(* A load one stage on. *)
LEMMA StagePut ==
  ASSUME ContentTypes, NEW w \in Loaders, loader[w].todo # <<>>, NEW l \in LoadsOver(pubs), UNCHANGED pins,
         loader' = [loader EXCEPT ![w].load = l]
  PROVE  LoaderTypes' /\ loader'[w].todo = loader[w].todo /\ loader'[w].load = l
         /\ \A u \in Loaders : u # w => loader'[u] = loader[u]
BY LoadOf DEF ContentTypes, LoaderTypes, RegistryTypes, LoaderStates, pubs

(* A load that goes on with the version it has. *)
LEMMA StagesAre ==
  ASSUME ContentTypes, NEW w \in Loaders, loader[w].todo # <<>>, NEW st \in {"idle", "built", "applying", "unknown"}
  PROVE  /\ [loader[w].load EXCEPT !.stage = st] \in LoadsOver(pubs)
         /\ [loader[w].load EXCEPT !.stage = st, !.base = serving] \in LoadsOver(pubs)
         /\ [loader EXCEPT ![w].load.stage = st] = [loader EXCEPT ![w].load = [loader[w].load EXCEPT !.stage = st]]
         /\ [loader EXCEPT ![w].load.stage = st, ![w].load.base = serving]
              = [loader EXCEPT ![w].load = [loader[w].load EXCEPT !.stage = st, !.base = serving]]
<1>1. loader[w].load \in LoadsOver(pubs) /\ serving \in VersionMaps(pubs) /\ loader \in [Loaders -> LoaderStates(pubs)]
      /\ loader[w] \in LoaderStates(pubs)
  BY LoadOf DEF ContentTypes, FollowTypes, LoaderTypes
<1>2. /\ [loader[w].load EXCEPT !.stage = st] \in LoadsOver(pubs)
      /\ [loader[w].load EXCEPT !.stage = st, !.base = serving] \in LoadsOver(pubs)
  BY <1>1 DEF LoadsOver
<1>3. /\ [loader EXCEPT ![w].load.stage = st] = [loader EXCEPT ![w].load = [loader[w].load EXCEPT !.stage = st]]
  BY <1>1 DEF LoaderStates, LoadsOver
<1>4. [loader EXCEPT ![w].load.stage = st, ![w].load.base = serving]
        = [loader EXCEPT ![w].load = [loader[w].load EXCEPT !.stage = st, !.base = serving]]
  BY <1>1 DEF LoaderStates, LoadsOver
<1> QED BY <1>2, <1>3, <1>4

(* The swap of a load is built. *)
LEMMA EvaluateKeeps == ASSUME ContentTypes, NEW w \in Loaders, Evaluate(w) PROVE ContentTypes'
<1>1. RegistryTypes' /\ EngineTypes' /\ UNCHANGED pins
  BY LoadRegistry, LoadEngine DEF Evaluate
<1>2. FollowTypes'
  BY FollowSame DEF Evaluate, ContentTypes, Unmoved, storeVars
<1>3. LoaderTypes'
  BY <1>1, StagesAre, StagePut DEF Evaluate, Loading
<1> QED BY <1>1, <1>2, <1>3 DEF ContentTypes

(* The swap of a load. *)
LEMMA SwapTypes ==
  ASSUME ContentTypes, NEW w \in Loaders, loader[w].todo # <<>>
  PROVE  SwapOf(w) \in SwapRecords(pubs)
<1>1. /\ Loads(w).pack \in Packs /\ Loads(w).version \in NumbersOf(pubs, Loads(w).pack)
      /\ Loads(w).version \in Nat /\ loader[w].load.base \in VersionMaps(pubs) /\ pubs \in Nat
  BY LoadOf DEF Tasks, LoadsOver
<1>2. Build(Loads(w).pack, Loads(w).version, loader[w].load.base) \in VersionMaps(pubs)
  BY <1>1, VersionPut DEF Build
<1> QED BY <1>1, <1>2 DEF SwapOf, SwapRecords, Known, ContentTypes, FollowTypes

(* The swap is written. *)
LEMMA ProducedKeeps == ASSUME ContentTypes, NEW w \in Loaders, Produced(w) PROVE ContentTypes'
<1>1. RegistryTypes' /\ UNCHANGED pins
  BY LoadRegistry DEF Produced, Unmoved, storeVars
<1>2. FollowTypes'
  BY FollowSame DEF Produced, ContentTypes, Unmoved, storeVars
<1>3. LoaderTypes'
  BY <1>1, StagesAre, StagePut DEF Produced, Loading
<1>4. EngineTypes'
  <2>1. SwapOf(w) \in SwapRecords(pubs) /\ swaps \in Seq(SwapRecords(pubs)) /\ position \in 0..Len(swaps)
    BY SwapTypes DEF Produced, Loading, ContentTypes, EngineTypes
  <2>2. swaps' \in Seq(SwapRecords(pubs)) /\ Len(swaps') = Len(swaps) + 1 /\ Len(swaps) \in Nat
    BY <2>1 DEF Produced
  <2>3. position \in 0..Len(swaps')
    BY <2>1, <2>2
  <2> QED BY <1>1, <2>2, <2>3 DEF Produced, ContentTypes, EngineTypes, engineVars, pubs
<1> QED BY <1>1, <1>2, <1>3, <1>4 DEF ContentTypes

(* The swap is refused by the producer, or its fate is unknown. *)
LEMMA NotProducedKeeps == ASSUME ContentTypes, NEW w \in Loaders, NotProduced(w) PROVE ContentTypes'
<1>1. RegistryTypes' /\ EngineTypes' /\ UNCHANGED pins
  BY LoadRegistry, LoadEngine DEF NotProduced
<1>2. loader[w].todo # <<>> /\ UNCHANGED <<mode, serving, held>>
  BY DEF NotProduced, Loading, Unmoved
<1>3. CASE RejectRetried(w) /\ Returns(w)
  <2>1. held' \in NumbersOf(pubs, "game")
    BY <1>2 DEF ContentTypes, FollowTypes
  <2> QED BY <1>1, <1>2, <1>3, <2>1, RetriedTypes, ReturnsTypes DEF ContentTypes
<1>4. CASE UNCHANGED <<held, refused, followVars>> /\ loader' = [loader EXCEPT ![w].load.stage = "unknown"]
  <2>1. FollowTypes'
    BY <1>1, <1>2, <1>4, FollowSame DEF ContentTypes
  <2>2. LoaderTypes'
    BY <1>1, <1>2, <1>4, StagesAre, StagePut
  <2> QED BY <1>1, <2>1, <2>2 DEF ContentTypes
<1> QED BY <1>3, <1>4 DEF NotProduced

(* The Engine has answered. *)
LEMMA AnsweredKeeps == ASSUME ContentTypes, NEW w \in Loaders, Answered(w) PROVE ContentTypes'
<1> DEFINE l == loader[w].load
           again == l.verdict = "stale" /\ l.attempt + 1 < StaleRetries
           next == [IdleLoad EXCEPT !.attempt = l.attempt + 1]
<1>1. RegistryTypes' /\ EngineTypes' /\ UNCHANGED pins
  BY LoadRegistry, LoadEngine DEF Answered
<1>2. loader[w].todo # <<>> /\ UNCHANGED <<mode, serving, held>>
  BY DEF Answered, Loading, Unmoved
<1>3. held' \in NumbersOf(pubs, "game")
  BY <1>2 DEF ContentTypes, FollowTypes
<1>4. CASE again
  <2>1. loader' = [loader EXCEPT ![w].load = next] /\ UNCHANGED <<followVars, refused>>
    BY <1>4 DEF Answered
  <2>2. next \in LoadsOver(pubs)
    BY <1>2, LoadOf, NoneMap DEF IdleLoad, LoadsOver
  <2>3. FollowTypes'
    BY <1>1, <1>2, <2>1, FollowSame DEF ContentTypes
  <2>4. LoaderTypes'
    BY <1>1, <1>2, <2>1, <2>2, StagePut
  <2> QED BY <1>1, <2>3, <2>4 DEF ContentTypes
<1>5. CASE l.verdict = "stale" /\ ~again
  <2>1. RejectRetried(w) /\ Returns(w)
    BY <1>5 DEF Answered
  <2> QED BY <1>1, <1>2, <1>3, <2>1, RetriedTypes, ReturnsTypes DEF ContentTypes
<1>6. CASE l.verdict # "stale"
  <2>1. Returns(w) /\ UNCHANGED <<followVars, refused>>
    BY <1>6 DEF Answered
  <2>2. FollowTypes'
    BY <1>1, <1>2, <2>1, FollowSame DEF ContentTypes
  <2> QED BY <1>1, <1>2, <1>3, <2>1, <2>2, ReturnsTypes DEF ContentTypes
<1> QED BY <1>4, <1>5, <1>6

(* A swap of unknown fate turns out never written, or its wait ends. *)
LEMMA FailedKeeps == ASSUME ContentTypes, NEW w \in Loaders, NeverWritten(w) \/ WaitEnds(w) PROVE ContentTypes'
<1>1. RegistryTypes' /\ EngineTypes' /\ UNCHANGED pins
  BY LoadRegistry, LoadEngine DEF NeverWritten, WaitEnds
<1>2. loader[w].todo # <<>> /\ Returns(w) /\ RejectRetried(w) /\ UNCHANGED <<mode, serving, held>>
  BY DEF NeverWritten, WaitEnds, Loading, Unmoved
<1>3. held' \in NumbersOf(pubs, "game")
  BY <1>2 DEF ContentTypes, FollowTypes
<1>4. FollowTypes'
  BY <1>1, <1>2, RetriedTypes
<1>5. LoaderTypes'
  BY <1>1, <1>2, <1>3, ReturnsTypes
<1> QED BY <1>1, <1>4, <1>5 DEF ContentTypes

(* Every step of a load. *)
LEMMA LoadKeeps == ASSUME ContentTypes, NEW w \in Loaders, LoadStep(w) PROVE ContentTypes'
BY SettledKeeps, UnreadableKeeps, LoadRefusedKeeps, EvaluateKeeps, ProducedKeeps, NotProducedKeeps,
   AnsweredKeeps, FailedKeeps DEF LoadStep

(* ------------------------------ the Engine --------------------------------- *)

(* The oldest swap the Engine has not stepped. *)
LEMMA NextSwap ==
  ASSUME ContentTypes, position < Len(swaps)
  PROVE  /\ position + 1 \in 1..Len(swaps) /\ swaps[position + 1] \in SwapRecords(pubs)
         /\ swaps[position + 1].pack \in Packs
         /\ swaps[position + 1].version \in NumbersOf(pubs, swaps[position + 1].pack)
         /\ swaps[position + 1].built \in VersionMaps(pubs) /\ swaps[position + 1].version \in Nat
         /\ swaps[position + 1].pack # "none"
<1>1. position + 1 \in 1..Len(swaps) /\ swaps \in Seq(SwapRecords(pubs))
  BY DEF ContentTypes, EngineTypes
<1>2. swaps[position + 1] \in SwapRecords(pubs)
  BY <1>1
<1> QED BY <1>1, <1>2 DEF SwapRecords, Known, Packs

(* The Engine applies a swap, or finds it stale. *)
LEMMA StepSwapKeeps == ASSUME ContentTypes, StepSwap PROVE ContentTypes'
<1> DEFINE s == swaps[position + 1]
<1>1. RegistryTypes' /\ UNCHANGED pins
  BY LoadRegistry DEF StepSwap, Unmoved, storeVars
<1>2. FollowTypes' /\ LoaderTypes'
  BY FollowSame, LoaderSame DEF StepSwap, ContentTypes, Unmoved, storeVars
<1>3. s.pack \in Packs /\ s.version \in NumbersOf(pubs, s.pack) /\ s.built \in VersionMaps(pubs)
      /\ s.version \in Nat /\ position + 1 \in 0..Len(swaps) /\ pubs \in Nat
  BY NextSwap DEF StepSwap, ContentTypes, RegistryTypes
<1>4. effect' \in VersionMaps(pubs) /\ world' \in VersionMaps(pubs)
  <2>1. effect \in VersionMaps(pubs) /\ world \in VersionMaps(pubs)
    BY DEF ContentTypes, EngineTypes
  <2>2. [effect EXCEPT ![s.pack] = s.version] \in VersionMaps(pubs)
    BY <1>3, <2>1, VersionPut
  <2> QED BY <1>3, <2>1, <2>2 DEF StepSwap, Prepare
<1>5. outcome' \in Outcomes(pubs)
  BY <1>3 DEF StepSwap, Verdict, Outcomes, Known
<1>6. position' \in 0..Len(swaps) /\ swaps' = swaps /\ swaps \in Seq(SwapRecords(pubs))
  BY <1>3 DEF StepSwap, ContentTypes, EngineTypes
<1>7. EngineTypes'
  BY <1>1, <1>4, <1>5, <1>6 DEF EngineTypes, pubs
<1> QED BY <1>1, <1>2, <1>7 DEF ContentTypes

(* The outcome that is reported, and the load it is for. *)
LEMMA ReportIs ==
  ASSUME ContentTypes, Report
  PROVE  /\ outcome \in Outcomes(pubs) /\ outcome.pack \in Packs /\ outcome.result \in {"applied", "stale"}
         /\ outcome.version \in NumbersOf(pubs, outcome.pack)
<1>1. outcome \in Outcomes(pubs)
  BY DEF Report, ContentTypes, EngineTypes
<1> QED BY <1>1 DEF Outcomes, Known

(* Applied or Refused is reported to the Loader. *)
LEMMA ReportKeeps == ASSUME ContentTypes, Report PROVE ContentTypes'
<1>1. RegistryTypes' /\ UNCHANGED pins
  BY RegistrySame DEF Report, ContentTypes, storeVars
<1>2. outcome.pack \in Packs /\ outcome.result \in {"applied", "stale"}
      /\ outcome.version \in NumbersOf(pubs, outcome.pack) /\ pubs \in Nat
  BY ReportIs DEF ContentTypes, RegistryTypes
<1>3. serving' \in VersionMaps(pubs) /\ held' \in NumbersOf(pubs, "game")
  <2>1. serving \in VersionMaps(pubs) /\ held \in NumbersOf(pubs, "game") /\ 0 \in NumbersOf(pubs, "game")
    BY <1>2, NoneMap DEF ContentTypes, FollowTypes
  <2>2. [serving EXCEPT ![outcome.pack] = outcome.version] \in VersionMaps(pubs)
    BY <1>2, <2>1, VersionPut
  <2> QED BY <2>1, <2>2 DEF Report
<1>4. FollowTypes'
  BY <1>1, <1>3 DEF Report, ContentTypes, FollowTypes, followVars, pubs
<1>5. EngineTypes'
  BY <1>1 DEF Report, ContentTypes, EngineTypes, pubs
<1>6. LoaderTypes'
  <2>1. ASSUME NEW w \in Loaders PROVE Told(w) \in LoaderStates(pubs)
    <3>1. loader[w] \in LoaderStates(pubs)
      BY DEF ContentTypes, LoaderTypes
    <3>2. [loader[w] EXCEPT !.load.verdict = outcome.result] \in LoaderStates(pubs)
      BY <1>2, <3>1 DEF LoaderStates, LoadsOver
    <3> QED BY <3>1, <3>2 DEF Told
  <2> QED BY <1>1, <2>1 DEF Report, LoaderTypes, pubs
<1> QED BY <1>1, <1>4, <1>5, <1>6 DEF ContentTypes

(* A goroutine that is given a batch. *)
LEMMA TodoPut ==
  ASSUME ContentTypes, NEW w \in Loaders, NEW f \in VersionMaps(pubs), NEW m \in BOOLEAN, UNCHANGED pins,
         loader' = [loader EXCEPT ![w].todo = Batch(f, m)]
  PROVE  LoaderTypes' /\ loader'[w].todo = Batch(f, m) /\ loader'[w].load = loader[w].load
         /\ \A u \in Loaders : u # w => loader'[u] = loader[u]
<1>1. pubs \in Nat /\ loader \in [Loaders -> LoaderStates(pubs)] /\ loader[w] \in LoaderStates(pubs)
  BY DEF ContentTypes, RegistryTypes, LoaderTypes
<1>2. Batch(f, m) \in Seq(Tasks(pubs))
  BY <1>1, BatchIs
<1>3. [loader[w] EXCEPT !.todo = Batch(f, m)] \in LoaderStates(pubs)
  BY <1>1, <1>2 DEF LoaderStates
<1> QED BY <1>1, <1>3 DEF LoaderTypes, LoaderStates, pubs

(* Some of the versions put off. *)
LEMMA SomeRetries ==
  ASSUME NEW n \in Nat, NEW f \in VersionMaps(n), NEW g \in VersionMaps(n), NEW S
  PROVE  [p \in Packs |-> IF p \in S THEN f[p] ELSE g[p]] \in VersionMaps(n)
BY DEF VersionMaps

(* Reconcile gives the goroutine what the pointers name. *)
LEMMA ReconcileKeeps == ASSUME ContentTypes, Reconcile PROVE ContentTypes'
<1>1. RegistryTypes' /\ UNCHANGED pins
  <2>1. RegistryTypes /\ used' \in [{"moves", "restarts", "failures", "disturbances"} -> Nat]
    BY UsesTypes DEF Reconcile, Disturbs, ContentTypes, RegistryTypes
  <2> QED BY <2>1 DEF Reconcile, storeVars, RegistryTypes, pubs
<1>2. EngineTypes'
  BY <1>1, EngineSame DEF Reconcile, ContentTypes
<1>3. /\ pointer \in VersionMaps(pubs) /\ startRetries \in VersionMaps(pubs) /\ pubs \in Nat
  BY DEF ContentTypes, RegistryTypes, FollowTypes
<1>4. startRetries' \in VersionMaps(pubs) /\ LoaderTypes'
  <2>1. CASE LoadAll("follow")
    <3>1. loader' = [loader EXCEPT !["follow"].todo = Batch(pointer, FALSE)] /\ UNCHANGED startRetries
      BY <2>1 DEF LoadAll, Active
    <3> QED BY <1>1, <1>3, <3>1, TodoPut DEF Loaders
  <2>2. CASE BarrierTimesOut
    BY <1>1, <1>3, <2>2, LoaderSame DEF BarrierTimesOut, Active, VersionMaps, ContentTypes
  <2> QED BY <2>1, <2>2 DEF Reconcile
<1>5. FollowTypes'
  BY <1>1, <1>4 DEF Reconcile, ContentTypes, FollowTypes, pubs
<1> QED BY <1>1, <1>2, <1>4, <1>5 DEF ContentTypes

(* ReloadContent gives a second goroutine what the pointers name. *)
LEMMA ReloadKeeps == ASSUME ContentTypes, ReloadContent PROVE ContentTypes'
<1>1. RegistryTypes' /\ UNCHANGED pins
  <2>1. RegistryTypes /\ used' \in [{"moves", "restarts", "failures", "disturbances"} -> Nat]
    BY UsesTypes DEF ReloadContent, Disturbs, ContentTypes, RegistryTypes
  <2> QED BY <2>1 DEF ReloadContent, storeVars, RegistryTypes, pubs
<1>2. EngineTypes'
  BY <1>1, EngineSame DEF ReloadContent, ContentTypes
<1>3. /\ pointer \in VersionMaps(pubs) /\ startRetries \in VersionMaps(pubs) /\ pubs \in Nat
  BY DEF ContentTypes, RegistryTypes, FollowTypes
<1>4. startRetries' \in VersionMaps(pubs) /\ LoaderTypes'
  <2>1. CASE LoadAll("reload")
    <3>1. loader' = [loader EXCEPT !["reload"].todo = Batch(pointer, FALSE)] /\ UNCHANGED startRetries
      BY <2>1 DEF LoadAll, Active
    <3> QED BY <1>1, <1>3, <3>1, TodoPut DEF Loaders
  <2>2. CASE BarrierTimesOut
    BY <1>1, <1>3, <2>2, LoaderSame DEF BarrierTimesOut, Active, VersionMaps, ContentTypes
  <2> QED BY <2>1, <2>2 DEF ReloadContent
<1>5. FollowTypes'
  BY <1>1, <1>4 DEF ReloadContent, ContentTypes, FollowTypes, pubs
<1> QED BY <1>1, <1>2, <1>4, <1>5 DEF ContentTypes

(* The boot serves. *)
LEMMA ServeKeeps == ASSUME ContentTypes, Serve PROVE ContentTypes'
<1>1. RegistryTypes' /\ UNCHANGED pins
  BY RegistrySame DEF Serve, ContentTypes, storeVars
<1>2. EngineTypes' /\ LoaderTypes'
  BY <1>1, EngineSame, LoaderSame DEF Serve, ContentTypes
<1>3. FollowTypes'
  BY <1>1 DEF Serve, ContentTypes, FollowTypes, followVars, pubs
<1> QED BY <1>1, <1>2, <1>3 DEF ContentTypes

(* Follow begins with the retries of the boot. *)
LEMMA StartKeeps == ASSUME ContentTypes, StartFollow PROVE ContentTypes'
<1>1. RegistryTypes' /\ UNCHANGED pins
  BY RegistrySame DEF StartFollow, ContentTypes, storeVars
<1>2. EngineTypes' /\ LoaderTypes'
  BY <1>1, EngineSame, LoaderSame DEF StartFollow, ContentTypes
<1>3. FollowTypes'
  BY <1>1, NoneMap DEF StartFollow, ContentTypes, RegistryTypes, FollowTypes, pubs
<1> QED BY <1>1, <1>2, <1>3 DEF ContentTypes

(* The move at the head of the watch. *)
LEMMA FirstMove ==
  ASSUME ContentTypes, moves # <<>>
  PROVE  /\ Watched = moves[1] /\ Watched.pack \in Packs /\ Watched.version \in NumbersOf(pubs, Watched.pack)
         /\ Watched.version # 0 /\ Tail(moves) \in Seq(Moves(pubs)) /\ Len(moves) \in Nat /\ Len(moves) >= 1
         /\ Len(Tail(moves)) = Len(moves) - 1 /\ \A i \in 1..Len(Tail(moves)) : Tail(moves)[i] = moves[i + 1]
<1>1. moves \in Seq(Moves(pubs))
  BY DEF ContentTypes, RegistryTypes
<1>2. Watched = moves[1] /\ Watched \in Moves(pubs)
  BY <1>1 DEF Watched
<1>3. /\ Tail(moves) \in Seq(Moves(pubs)) /\ Len(moves) \in Nat /\ Len(moves) >= 1
      /\ Len(Tail(moves)) = Len(moves) - 1 /\ \A i \in 1..Len(Tail(moves)) : Tail(moves)[i] = moves[i + 1]
  BY <1>1
<1> QED BY <1>2, <1>3 DEF Moves, Known

(* Follow reads a move. *)
LEMMA ReadKeeps == ASSUME ContentTypes, ReadMove PROVE ContentTypes'
<1>1. /\ Watched.pack \in Packs /\ Watched.version \in NumbersOf(pubs, Watched.pack)
      /\ Tail(moves) \in Seq(Moves(pubs)) /\ pubs \in Nat
  BY FirstMove DEF ReadMove, ContentTypes, RegistryTypes
<1>2. RegistryTypes' /\ UNCHANGED pins
  BY <1>1 DEF ReadMove, ContentTypes, RegistryTypes, pubs
<1>3. EngineTypes' /\ LoaderTypes'
  BY <1>2, EngineSame, LoaderSame DEF ReadMove, ContentTypes
<1>4. pending' \in VersionMaps(pubs) /\ retries' \in VersionMaps(pubs)
  <2>1. pending \in VersionMaps(pubs) /\ retries \in VersionMaps(pubs) /\ 0 \in NumbersOf(pubs, Watched.pack)
    BY <1>1, ContentAssumption DEF ContentTypes, FollowTypes, NumbersOf
  <2>2. /\ [pending EXCEPT ![Watched.pack] = Watched.version] \in VersionMaps(pubs)
        /\ [retries EXCEPT ![Watched.pack] = 0] \in VersionMaps(pubs)
    BY <1>1, <2>1, VersionPut
  <2> QED BY <2>2 DEF ReadMove
<1>5. FollowTypes'
  BY <1>2, <1>4 DEF ReadMove, ContentTypes, FollowTypes, pubs
<1> QED BY <1>2, <1>3, <1>5 DEF ContentTypes

(* A batch begins. *)
LEMMA BatchKeeps ==
  ASSUME ContentTypes, NEW f \in VersionMaps(pubs), ApplyBatch(f), UNCHANGED outlived,
         pending' \in VersionMaps(pubs), retries' \in VersionMaps(pubs)
  PROVE  ContentTypes'
<1>1. RegistryTypes' /\ UNCHANGED pins
  BY RegistrySame DEF ApplyBatch, ContentTypes, storeVars
<1>2. EngineTypes'
  BY <1>1, EngineSame DEF ApplyBatch, ContentTypes
<1>3. LoaderTypes'
  BY <1>1, TodoPut DEF ApplyBatch, Loaders
<1>4. FollowTypes'
  BY <1>1, NoneMap DEF ApplyBatch, ContentTypes, RegistryTypes, FollowTypes, pubs
<1> QED BY <1>1, <1>2, <1>3, <1>4 DEF ContentTypes

(* The debounce ends. *)
LEMMA DebouncedKeeps == ASSUME ContentTypes, Debounced PROVE ContentTypes'
<1>1. ApplyBatch(pending) /\ UNCHANGED outlived /\ pending' = NoVersions /\ retries' = retries
  BY DEF Debounced, ApplyBatch
<1>2. pending \in VersionMaps(pubs) /\ NoVersions \in VersionMaps(pubs) /\ retries \in VersionMaps(pubs)
  BY NoneMap DEF ContentTypes, RegistryTypes, FollowTypes
<1> QED BY <1>1, <1>2, BatchKeeps

(* Retries come due. *)
LEMMA RetryKeeps == ASSUME ContentTypes, NEW due \in SUBSET Packs, RetryDue(due) PROVE ContentTypes'
<1> DEFINE f == [p \in Packs |-> IF p \in due THEN retries[p] ELSE 0]
           g == [p \in Packs |-> IF p \in due THEN 0 ELSE retries[p]]
<1>1. ApplyBatch(f) /\ UNCHANGED outlived /\ pending' = pending /\ retries' = g
  BY DEF RetryDue, ApplyBatch
<1>2. pending \in VersionMaps(pubs) /\ retries \in VersionMaps(pubs) /\ pubs \in Nat
  BY DEF ContentTypes, RegistryTypes, FollowTypes
<1>3. f \in VersionMaps(pubs) /\ g \in VersionMaps(pubs)
  BY <1>2, ContentAssumption DEF VersionMaps, NumbersOf
<1> HIDE DEF f, g
<1> QED BY <1>1, <1>2, <1>3, BatchKeeps

(* The process restarts. *)
LEMMA LoaderRestartKeeps == ASSUME ContentTypes, Restart PROVE ContentTypes'
<1>1. pubs \in Nat /\ UNCHANGED pins
  BY DEF ContentTypes, RegistryTypes, Restart
<1>2. /\ NoVersions \in VersionMaps(pubs) /\ NoLoader \in LoaderStates(pubs) /\ 0 \in NumbersOf(pubs, "game")
  BY <1>1, NoneMap
<1>3. RegistryTypes'
  <2>1. RegistryTypes /\ used' \in [{"moves", "restarts", "failures", "disturbances"} -> Nat]
    BY UsesTypes DEF Restart, Uses, ContentTypes
  <2> QED BY <1>1, <2>1 DEF Restart, RegistryTypes, pubs
<1>4. FollowTypes'
  BY <1>1, <1>2 DEF Restart, ContentTypes, FollowTypes, EngineTypes, pubs
<1>5. EngineTypes' /\ LoaderTypes'
  BY <1>1, <1>2 DEF Restart, ContentTypes, EngineTypes, LoaderTypes, pubs
<1> QED BY <1>3, <1>4, <1>5 DEF ContentTypes

(* Every step keeps the types. *)
LEMMA ContentTypesStep == ASSUME ContentTypes, [ContentNext]_contentVars PROVE ContentTypes'
<1>1. CASE UNCHANGED contentVars
  BY <1>1 DEF contentVars, ContentTypes, RegistryTypes, FollowTypes, EngineTypes, LoaderTypes, pubs
<1>2. CASE ContentNext
  BY <1>2, PublishKeeps, CheckKeeps, MoveKeeps, CoreBootKeeps, LoadKeeps, StepSwapKeeps, ReportKeeps, ReconcileKeeps,
     ServeKeeps, StartKeeps, ReadKeeps, DebouncedKeeps, RetryKeeps, ReloadKeeps, LoaderRestartKeeps, Zenon DEF ContentNext
<1> QED BY <1>1, <1>2

(* What is typed so has the types of the component. *)
LEMMA ContentTypesHold == ContentTypes => ContentTypeOK
<1> SUFFICES ASSUME ContentTypes PROVE ContentTypeOK
  OBVIOUS
<1>1. pins \in Seq(1..MaxCore) /\ cores \subseteq 1..MaxCore /\ pubs = Len(pins)
      /\ mode \in {"boot", "reconcile", "loading", "serve", "follow", "down"}
  BY DEF ContentTypes, RegistryTypes, FollowTypes, pubs
<1>2. \A f \in VersionMaps(pubs) : f["core"] \in 0..MaxCore /\ f["game"] \in 0..pubs
  BY DEF VersionMaps, NumbersOf, Packs
<1>3. \A f \in {pointer, serving, effect, world, refused, startRetries, pending, retries} : f \in VersionMaps(pubs)
  BY DEF ContentTypes, RegistryTypes, FollowTypes, EngineTypes
<1>4. held \in 0..pubs /\ position \in 0..Len(swaps)
  BY DEF ContentTypes, FollowTypes, EngineTypes, NumbersOf
<1>5. \A w \in Loaders : loader[w].load.stage \in {"idle", "built", "applying", "unknown"}
  BY DEF ContentTypes, LoaderTypes, LoaderStates, LoadsOver
<1> QED BY <1>1, <1>2, <1>3, <1>4, <1>5 DEF ContentTypeOK

--------------------------------------------------------------------------------
(* The content loader: while no wait ends early and no second goroutine *)
(* loads, the Engine is at most one swap from what the Loader serves.   *)

Todo == loader["follow"].todo
Load == loader["follow"].load
Began == mode \notin {"boot", "reconcile"}

(* The Engine is ahead of the Loader by the outcome it has not reported, and *)
(* behind the log by one swap at most, which fits what it was evaluated with. *)
EngineShape ==
  /\ effect = IF outcome.result = "applied" THEN [serving EXCEPT ![outcome.pack] = outcome.version]
                                            ELSE serving
  /\ position = Len(swaps) \/ (position = Len(swaps) - 1 /\ outcome = NoOutcome)
  /\ EffectCoherent
  /\ position < Len(swaps) =>
       LET s == swaps[Len(swaps)] IN
       s.built = Build(s.pack, s.version, s.base) /\ Accepts(s.pack, s.version, s.base)

(* Where the swap of the load in flight is: logged, applied or refused,       *)
(* reported, or never written.                                                *)
Names(r, t) == r.pack = t.pack /\ r.version = t.version
FlightShape ==
  \/ Load.verdict # "none" /\ Consumed
     /\ (Load.verdict = "applied" => serving[Head(Todo).pack] = Head(Todo).version)
  \/ /\ Load.verdict = "none"
     /\ \/ position < Len(swaps) /\ Names(swaps[Len(swaps)], Head(Todo))
        \/ outcome # NoOutcome /\ Names(outcome, Head(Todo))
        \/ Load.stage = "unknown" /\ Consumed

(* One goroutine loads, one version at a time, on what the Engine has in effect. *)
LoaderShape ==
  /\ loader["reload"] = NoLoader
  /\ Todo = <<>> => Load = IdleLoad
  /\ mode \in {"boot", "reconcile", "down", "serve"} => Todo = <<>>
  /\ Load.stage \in {"idle", "built"} => Load.verdict = "none" /\ (Began => Consumed)
  /\ Load.stage = "built" => Load.base = serving /\ Accepts(Head(Todo).pack, Head(Todo).version, serving)
  /\ Load.stage \in {"applying", "unknown"} => FlightShape

SwapShape == EngineShape /\ LoaderShape

(* An Engine with nothing in effect, and nobody who loads. *)
LEMMA ContentInitShape == ContentInit => SwapShape
BY DEF ContentInit, SwapShape, EngineShape, LoaderShape, EffectCoherent, Todo, Load, NoLoader, IdleLoad, Loaders,
       NoOutcome, NoVersions, Packs, Pin, Began, Consumed

(* The core build a game version was made for. *)
LEMMA PinIs ==
  ASSUME ContentTypes, NEW v \in NumbersOf(pubs, "game")
  PROVE  Pin("game", v) \in Nat
<1>1. pins \in Seq(1..MaxCore) /\ v \in 0..Len(pins) /\ MaxCore \in Nat /\ Len(pins) \in Nat
  BY ContentAssumption DEF ContentTypes, RegistryTypes, NumbersOf, pubs
<1>2. v # 0 => pins[v] \in 1..MaxCore
  BY <1>1
<1> QED BY <1>1, <1>2 DEF Pin

(* The published versions keep their pins. *)
LEMMA PinsKept ==
  ASSUME ContentTypes, PublishVersion \/ UNCHANGED pins, NEW v \in NumbersOf(pubs, "game")
  PROVE  Pin("game", v)' = Pin("game", v)
<1>1. pins \in Seq(1..MaxCore) /\ v \in 0..Len(pins) /\ MaxCore \in Nat /\ Len(pins) \in Nat
  BY ContentAssumption DEF ContentTypes, RegistryTypes, NumbersOf, pubs
<1>2. v # 0 => pins[v] \in 1..MaxCore
  BY <1>1
<1>3. v # 0 => pins'[v] = pins[v]
  <2>1. CASE UNCHANGED pins
    BY <2>1
  <2>2. CASE PublishVersion
    <3>1. PICK pin \in cores : pins' = Append(pins, pin)
      BY <2>2 DEF PublishVersion
    <3>2. pin \in 1..MaxCore
      BY DEF ContentTypes, RegistryTypes
    <3> QED BY <1>1, <3>1, <3>2
  <2> QED BY <2>1, <2>2
<1> QED BY <1>1, <1>2, <1>3 DEF Pin

(* Publishing a version changes neither what another builds nor how it is *)
(* judged.                                                                *)
LEMMA JudgedTheSame ==
  ASSUME ContentTypes, PublishVersion \/ UNCHANGED pins, NEW p \in Packs, NEW v \in NumbersOf(pubs, p),
         NEW b \in VersionMaps(pubs)
  PROVE  /\ Skewed(p, v, b)' <=> Skewed(p, v, b)
         /\ Accepts(p, v, b)' <=> Accepts(p, v, b)
<1>1. b["game"] \in NumbersOf(pubs, "game")
  BY DEF VersionMaps, Packs
<1>2. Pin("game", b["game"])' = Pin("game", b["game"])
  BY <1>1, PinsKept
<1>3. p = "game" => Pin("game", v)' = Pin("game", v)
  BY PinsKept
<1> QED BY <1>2, <1>3 DEF Skewed, Stranded, Accepts

(* A swap that fits what it is based on keeps what is in effect coherent. *)
Coheres(f) == f["core"] # 0 => Pin("game", f["game"]) <= f["core"]

(* What the Engine takes fits what it was based on. *)
LEMMA AcceptedCoheres ==
  ASSUME ContentTypes, NEW p \in Packs, NEW v \in NumbersOf(pubs, p), NEW b \in VersionMaps(pubs),
         Coheres(b), Accepts(p, v, b)
  PROVE  Coheres(Build(p, v, b))
<1>1. b["game"] \in NumbersOf(pubs, "game") /\ b["core"] \in Nat /\ b \in [Packs -> Nat]
  BY ContentAssumption DEF VersionMaps, Packs
<1>2. Pin("game", b["game"]) \in Nat /\ v \in Nat /\ (p = "game" => Pin("game", v) \in Nat)
  <2>1. Pin("game", b["game"]) \in Nat /\ (p = "game" => Pin("game", v) \in Nat)
    BY <1>1, PinIs
  <2>2. v \in Nat
    BY ContentAssumption DEF NumbersOf, ContentTypes, RegistryTypes
  <2> QED BY <2>1, <2>2
<1>3. CASE p = "core"
  <2>1. Build(p, v, b)["core"] = v /\ Build(p, v, b)["game"] = b["game"]
    BY <1>1, <1>3 DEF Build, Packs
  <2>2. ~(Pin("game", b["game"]) > v)
    BY <1>3 DEF Accepts, Stranded
  <2> QED BY <1>2, <2>1, <2>2 DEF Coheres
<1>4. CASE p = "game"
  <2>1. Build(p, v, b)["game"] = v /\ Build(p, v, b)["core"] = b["core"]
    BY <1>1, <1>4 DEF Build, Packs
  <2>2. ~(b["core"] # 0 /\ Pin("game", v) > b["core"])
    BY <1>4 DEF Accepts, Skewed
  <2> QED BY <1>1, <1>2, <1>4, <2>1, <2>2 DEF Coheres
<1> QED BY <1>3, <1>4 DEF Packs

(* A step that leaves the Engine and the swaps. *)
LEMMA EngineShapeSame ==
  ASSUME EngineShape, UNCHANGED <<pins, serving, swaps, engineVars>>
  PROVE  EngineShape'
BY DEF EngineShape, EffectCoherent, engineVars, Accepts, Skewed, Stranded, Pin, Build

(* The shape of a loader between loads. *)
LEMMA LoaderAtRest ==
  ASSUME loader["reload"]' = NoLoader, Todo' = <<>> => Load' = IdleLoad, Load.stage' = "idle", Load.verdict' = "none",
         mode' \in {"boot", "reconcile", "down", "serve"} => Todo' = <<>>, Began' => Consumed'
  PROVE  LoaderShape'
BY DEF LoaderShape

(* A batch that returned one of its loads. *)
LEMMA Returned ==
  ASSUME ContentTypes, loader["reload"] = NoLoader, Todo # <<>>, Returns("follow"),
         NEW h \in NumbersOf(pubs, "game"), h = held'
  PROVE  /\ Load' = IdleLoad /\ loader["reload"]' = NoLoader
         /\ \A i \in 1..Len(Todo') : \/ \E j \in 2..Len(Todo) : Todo'[i] = Todo[j]
                                     \/ Todo'[i] = Task("game", h, FALSE) /\ Releases(Todo[1], h)
         /\ \A j \in 2..Len(Todo) : \E i \in 1..Len(Todo') : Todo'[i] = Todo[j]
         /\ Releases(Todo[1], h) => \E i \in 1..Len(Todo') : Todo'[i] = Task("game", h, FALSE)
<1>1. loader \in [Loaders -> LoaderStates(pubs)] /\ loader' = [loader EXCEPT !["follow"] = After("follow", h)] /\ pubs \in Nat
  BY DEF Returns, ContentTypes, LoaderTypes, RegistryTypes
<1>2. loader'["follow"] = After("follow", h) /\ loader'["reload"] = NoLoader
  BY <1>1 DEF Loaders
<1>3. Todo \in Seq(Tasks(pubs)) /\ Todo = loader["follow"].todo /\ "follow" \in Loaders
  BY <1>1 DEF LoaderStates, Todo, Loaders
<1>4. AfterShape(After("follow", h), Todo, h)
  BY <1>1, <1>3, AfterIs
<1>5. Todo' = After("follow", h).todo /\ Load' = After("follow", h).load
  BY <1>2 DEF Todo, Load
<1> QED BY <1>2, <1>4, <1>5 DEF AfterShape

(* Steps that touch neither the Engine nor a load. *)
LEMMA LoaderShapeSame ==
  ASSUME LoaderShape, UNCHANGED <<pins, serving, swaps, engineVars, loader>>,
         mode' = mode \/ (mode = "serve" /\ mode' = "follow") \/ (mode = "boot" /\ mode' = "reconcile")
  PROVE  LoaderShape'
BY DEF LoaderShape, FlightShape, engineVars, Accepts, Skewed, Stranded, Pin, Began, Consumed, Todo, Load, Names

(* An activation, a move and the boot of the core are no business of the *)
(* Engine.                                                               *)
LEMMA ElsewhereShape ==
  ASSUME SwapShape, \/ \E p \in Packs, v \in 1..(MaxCore + MaxVersions) : CheckActivation(p, v)
                    \/ \E a \in activating : MovePointer(a)
                    \/ \E build \in 1..MaxCore : BootCore(build)
                    \/ StartFollow \/ ReadMove \/ UNCHANGED contentVars
  PROVE  SwapShape'
<1>1. UNCHANGED <<pins, serving, swaps, engineVars, loader>>
      /\ (mode' = mode \/ (mode = "serve" /\ mode' = "follow") \/ (mode = "boot" /\ mode' = "reconcile"))
  BY DEF CheckActivation, MovePointer, BootCore, StartFollow, ReadMove, storeVars, contentVars, engineVars
<1> QED BY <1>1, EngineShapeSame, LoaderShapeSame DEF SwapShape

(* A version is published. *)
LEMMA PublishShape == ASSUME ContentTypes, SwapShape, PublishVersion PROVE SwapShape'
<1>1. UNCHANGED <<mode, serving, swaps, position, effect, world, outcome, loader>>
  BY DEF PublishVersion, engineVars
<1>2. effect \in VersionMaps(pubs) /\ effect["game"] \in NumbersOf(pubs, "game")
  BY DEF ContentTypes, EngineTypes, VersionMaps, Packs
<1>3. EffectCoherent'
  <2>1. Pin("game", effect["game"])' = Pin("game", effect["game"])
    BY <1>1, <1>2, PinsKept
  <2> QED BY <1>1, <2>1 DEF SwapShape, EngineShape, EffectCoherent
<1>4. position < Len(swaps) =>
        LET s == swaps[Len(swaps)] IN
        s.built = Build(s.pack, s.version, s.base) /\ Accepts(s.pack, s.version, s.base)'
  <2> SUFFICES ASSUME position < Len(swaps), NEW s, s = swaps[Len(swaps)]
               PROVE s.built = Build(s.pack, s.version, s.base) /\ Accepts(s.pack, s.version, s.base)'
    BY <1>1
  <2>1. s \in SwapRecords(pubs)
    BY DEF ContentTypes, EngineTypes
  <2>2. s.pack \in Packs /\ s.version \in NumbersOf(pubs, s.pack) /\ s.base \in VersionMaps(pubs)
    BY <2>1 DEF SwapRecords, Known
  <2>3. Accepts(s.pack, s.version, s.base)' <=> Accepts(s.pack, s.version, s.base)
    BY <1>1, <2>2, JudgedTheSame
  <2> QED BY <2>3 DEF SwapShape, EngineShape
<1>5. EngineShape'
  BY <1>1, <1>3, <1>4 DEF SwapShape, EngineShape, Build
<1>6. Todo' = Todo /\ Load' = Load /\ (Began' <=> Began) /\ (Consumed' <=> Consumed)
  BY <1>1 DEF Todo, Load, Began, Consumed
<1>7. Load.stage = "built" => Accepts(Head(Todo).pack, Head(Todo).version, serving)'
  <2> SUFFICES ASSUME Load.stage = "built" PROVE Accepts(Head(Todo).pack, Head(Todo).version, serving)'
    OBVIOUS
  <2>1. Todo # <<>>
    BY DEF SwapShape, LoaderShape, IdleLoad
  <2>2. Head(Todo).pack \in Packs /\ Head(Todo).version \in NumbersOf(pubs, Head(Todo).pack)
        /\ serving \in VersionMaps(pubs)
    BY <2>1, LoadOf DEF Todo, Loads, Loaders, ContentTypes, FollowTypes
  <2> DEFINE t == Head(Todo)
             b == serving
  <2>3. t' = t /\ b' = b
    BY <1>1, <1>6
  <2> DEFINE c == t.pack
             v == t.version
  <2>4. \A p \in Packs : \A n \in NumbersOf(pubs, p) : \A m \in VersionMaps(pubs) : Accepts(p, n, m)' <=> Accepts(p, n, m)
    BY JudgedTheSame
  <2>5. Accepts(c, v, b)
    BY DEF SwapShape, LoaderShape
  <2> QED BY <2>2, <2>3, <2>4, <2>5, <1>1, <1>6 DEF Accepts, Skewed, Stranded
<1>8. Load.stage \in {"applying", "unknown"} => FlightShape'
  BY <1>1, <1>6 DEF SwapShape, LoaderShape, FlightShape, Names
<1>9. LoaderShape'
  BY <1>1, <1>6, <1>7, <1>8 DEF SwapShape, LoaderShape, Accepts, Skewed, Stranded
<1> QED BY <1>5, <1>9 DEF SwapShape

(* Reconcile begins. *)
LEMMA ReconcileShape == ASSUME ContentTypes, SwapShape, Reconcile, LoadAll("follow") PROVE SwapShape'
<1>1. UNCHANGED <<pins, serving, swaps, engineVars>> /\ mode = "reconcile" /\ mode' = "loading"
  BY DEF Reconcile, storeVars
<1>2. Consumed /\ loader' = [loader EXCEPT !["follow"].todo = Batch(pointer, FALSE)]
  BY DEF LoadAll, BarrierPassed, Active
<1>3. Todo = <<>> /\ Load = IdleLoad /\ loader["reload"] = NoLoader
  BY <1>1 DEF SwapShape, LoaderShape
<1>4. Load' = Load /\ loader["reload"]' = loader["reload"]
  BY <1>1, <1>2, TodoPut DEF Load, Loaders, ContentTypes, RegistryTypes
<1>5. LoaderShape'
  BY <1>1, <1>2, <1>3, <1>4, LoaderAtRest DEF IdleLoad, Consumed, engineVars
<1> QED BY <1>1, <1>5, EngineShapeSame DEF SwapShape

(* The boot serves. *)
LEMMA ServeShape == ASSUME ContentTypes, SwapShape, Serve PROVE SwapShape'
<1>1. UNCHANGED <<pins, serving, swaps, engineVars, loader>> /\ mode = "loading" /\ mode' \in {"serve", "down"}
      /\ Todo = <<>>
  BY DEF Serve, storeVars, Idle, Todo
<1>2. Load = IdleLoad /\ loader["reload"] = NoLoader /\ Consumed
  BY <1>1 DEF SwapShape, LoaderShape, Began, IdleLoad
<1>3. LoaderShape'
  BY <1>1, <1>2, LoaderAtRest DEF IdleLoad, Consumed, engineVars, Load, Todo
<1> QED BY <1>1, <1>3, EngineShapeSame DEF SwapShape

(* A batch begins. *)
LEMMA ApplyShape == ASSUME ContentTypes, SwapShape, NEW f \in VersionMaps(pubs), ApplyBatch(f) PROVE SwapShape'
<1>1. UNCHANGED <<pins, serving, swaps, engineVars, mode>> /\ mode = "follow" /\ Todo = <<>>
  BY DEF ApplyBatch, storeVars, Idle, Todo
<1>2. loader' = [loader EXCEPT !["follow"].todo = Batch(f, TRUE)]
  BY DEF ApplyBatch
<1>3. Load = IdleLoad /\ loader["reload"] = NoLoader /\ Consumed
  BY <1>1 DEF SwapShape, LoaderShape, Began, IdleLoad
<1>4. Load' = Load /\ loader["reload"]' = loader["reload"]
  BY <1>1, <1>2, TodoPut DEF Load, Loaders
<1>5. LoaderShape'
  BY <1>1, <1>3, <1>4, LoaderAtRest DEF IdleLoad, Consumed, engineVars
<1> QED BY <1>1, <1>5, EngineShapeSame DEF SwapShape

(* The process restarts: what was evaluated is lost with it, what is in *)
(* effect is replayed.                                                  *)
LEMMA RestartShape == ASSUME ContentTypes, SwapShape, Restart PROVE SwapShape'
<1>1. UNCHANGED <<pins, swaps, position, effect, world>> /\ serving' = effect /\ outcome' = NoOutcome
      /\ mode' = "boot" /\ loader' = [w \in Loaders |-> NoLoader]
  BY DEF Restart
<1>2. EngineShape'
  BY <1>1 DEF SwapShape, EngineShape, EffectCoherent, NoOutcome, Accepts, Skewed, Stranded, Pin, Build
<1>3. LoaderShape'
  BY <1>1, LoaderAtRest DEF NoLoader, IdleLoad, Began, Todo, Load, Loaders
<1> QED BY <1>2, <1>3 DEF SwapShape

(* The Engine takes the swap a load waits for. *)
LEMMA StepSwapShape == ASSUME ContentTypes, SwapShape, StepSwap PROVE SwapShape'
<1> DEFINE s == swaps[Len(swaps)]
<1>1. UNCHANGED <<pins, serving, swaps, loader, mode>>
  BY DEF StepSwap, Unmoved, storeVars
<1>2. position < Len(swaps) /\ outcome = NoOutcome /\ position + 1 = Len(swaps) /\ position' = Len(swaps)
  BY DEF StepSwap, SwapShape, EngineShape, ContentTypes, EngineTypes
<1>3. effect = serving /\ s.built = Build(s.pack, s.version, s.base) /\ Accepts(s.pack, s.version, s.base)
  BY <1>2 DEF SwapShape, EngineShape, NoOutcome
<1>4. s.pack \in Packs /\ s.version \in NumbersOf(pubs, s.pack) /\ s.pack # "none"
  BY <1>2, NextSwap
<1>5. outcome' = [pack |-> s.pack, version |-> s.version, result |-> IF s.base = effect THEN "applied" ELSE "stale"]
      /\ outcome' # NoOutcome
  BY <1>2, <1>4 DEF StepSwap, Verdict, NoOutcome
<1>6. EngineShape'
  <2>1. Coheres(effect) /\ world = effect /\ effect \in VersionMaps(pubs)
    BY DEF SwapShape, EngineShape, EffectCoherent, Coheres, ContentTypes, EngineTypes
  <2>2. CASE s.base = effect
    <3>1. effect' = [effect EXCEPT ![s.pack] = s.version] /\ world' = s.built
      BY <1>2, <2>2 DEF StepSwap, Verdict, Prepare
    <3>2. Build(s.pack, s.version, effect) = [effect EXCEPT ![s.pack] = s.version] /\ world' = effect'
      BY <1>3, <2>2, <3>1 DEF Build
    <3>3. Coheres(Build(s.pack, s.version, effect))
      <4> DEFINE p == s.pack
                 v == s.version
                 b == effect
      <4>1. p \in Packs /\ v \in NumbersOf(pubs, p) /\ b \in VersionMaps(pubs) /\ Coheres(b) /\ Accepts(p, v, b)
        BY <1>3, <1>4, <2>1, <2>2
      <4> HIDE DEF p, v, b
      <4>2. Coheres(Build(p, v, b))
        BY <4>1, AcceptedCoheres
      <4> QED BY <4>2 DEF p, v, b
    <3>4. EffectCoherent'
      BY <1>1, <3>1, <3>2, <3>3 DEF Coheres, EffectCoherent, Pin
    <3> QED BY <1>1, <1>2, <1>3, <1>5, <2>2, <3>1, <3>4 DEF EngineShape
  <2>3. CASE s.base # effect
    <3>1. effect' = effect /\ world' = world
      BY <1>2, <2>3 DEF StepSwap, Verdict
    <3> QED BY <1>1, <1>2, <1>3, <1>5, <2>1, <2>3, <3>1 DEF EngineShape, EffectCoherent, Coheres, Pin
  <2> QED BY <2>2, <2>3
<1>7. LoaderShape'
  <2>1. ~Consumed
    BY <1>2 DEF Consumed, ContentTypes, EngineTypes
  <2>2. Todo' = Todo /\ Load' = Load /\ (Began' <=> Began)
    BY <1>1 DEF Todo, Load, Began
  <2>3. CASE Load.stage \in {"applying", "unknown"}
    <3>1. Load.verdict = "none" /\ Names(s, Head(Todo))
      BY <1>2, <2>1, <2>3 DEF SwapShape, LoaderShape, FlightShape
    <3>2. Names(outcome', Head(Todo))
      BY <1>5, <3>1 DEF Names
    <3>3. FlightShape'
      BY <1>5, <2>2, <3>1, <3>2 DEF FlightShape, Names
    <3> QED BY <1>1, <2>2, <2>3, <3>3 DEF SwapShape, LoaderShape
  <2>4. CASE Load.stage \notin {"applying", "unknown"}
    <3>1. Load \in LoadsOver(pubs)
      BY DEF ContentTypes, LoaderTypes, LoaderStates, Load, Loaders
    <3>2. Load.stage \in {"idle", "built"}
      BY <2>4, <3>1 DEF LoadsOver
    <3>3. ~Began /\ mode \in {"boot", "reconcile"}
      BY <2>1, <3>2 DEF SwapShape, LoaderShape, Began
    <3>4. Todo = <<>> /\ Load = IdleLoad /\ loader["reload"] = NoLoader
      BY <3>3 DEF SwapShape, LoaderShape
    <3> QED BY <1>1, <2>2, <3>3, <3>4, LoaderAtRest DEF IdleLoad
  <2> QED BY <2>3, <2>4
<1> QED BY <1>6, <1>7 DEF SwapShape

(* The load of Follow and its batch. *)
LEMMA LoadTyped ==
  ASSUME ContentTypes
  PROVE  /\ Load \in LoadsOver(pubs) /\ Todo \in Seq(Tasks(pubs))
         /\ Load.stage \in {"idle", "built", "applying", "unknown"} /\ Load.verdict \in {"none", "applied", "stale"}
         /\ loader \in [Loaders -> LoaderStates(pubs)] /\ pubs \in Nat
<1>1. loader \in [Loaders -> LoaderStates(pubs)] /\ pubs \in Nat
  BY DEF ContentTypes, LoaderTypes, RegistryTypes
<1>2. Load \in LoadsOver(pubs) /\ Todo \in Seq(Tasks(pubs))
  BY <1>1 DEF LoaderStates, Load, Todo, Loaders
<1> QED BY <1>1, <1>2 DEF LoadsOver

(* The Loader is told what became of the swap it waits for. *)
LEMMA ReportShape == ASSUME ContentTypes, SwapShape, Report PROVE SwapShape'
<1> DEFINE t == Head(Todo)
<1>1. UNCHANGED <<pins, swaps, position, effect, world, mode>> /\ outcome # NoOutcome /\ outcome' = NoOutcome
      /\ loader' = [w \in Loaders |-> Told(w)]
      /\ serving' = IF outcome.result = "applied" THEN [serving EXCEPT ![outcome.pack] = outcome.version] ELSE serving
  BY DEF Report, storeVars
<1>2. position = Len(swaps) /\ ~Consumed /\ Consumed'
  BY <1>1 DEF SwapShape, EngineShape, Consumed
<1>3. EngineShape'
  <2>1. position' = Len(swaps') /\ effect' = serving' /\ EffectCoherent' /\ ~(position' < Len(swaps'))
    BY <1>1, <1>2 DEF SwapShape, EngineShape, EffectCoherent, Pin, ContentTypes, EngineTypes
  <2> QED BY <1>1, <2>1 DEF EngineShape, NoOutcome
<1>4. loader["reload"]' = NoLoader
  BY <1>1 DEF SwapShape, LoaderShape, Told, Loaders, NoLoader
<1>5. CASE Load.stage \in {"applying", "unknown"}
  <2>1. Load.verdict = "none" /\ Names(outcome, t)
    BY <1>1, <1>2, <1>5 DEF SwapShape, LoaderShape, FlightShape, ContentTypes, EngineTypes
  <2>2. Todo # <<>>
    BY <1>5 DEF SwapShape, LoaderShape, IdleLoad
  <2>3. loader'["follow"] = [loader["follow"] EXCEPT !.load.verdict = outcome.result]
    BY <1>1, <1>5, <2>1, <2>2 DEF Told, Loads, Names, Todo, Load, Loaders
  <2>4. Todo' = Todo /\ Load'.verdict = outcome.result /\ Load'.stage = Load.stage
    <3>1. loader["follow"] \in LoaderStates(pubs)
      BY LoadTyped DEF Loaders
    <3> QED BY <2>3, <3>1 DEF Todo, Load, LoaderStates, LoadsOver
  <2>5. outcome.result \in {"applied", "stale"} /\ outcome.pack = t.pack /\ outcome.version = t.version
        /\ serving \in [Packs -> Nat] /\ outcome.pack \in Packs
    BY <2>1, ReportIs DEF Names, ContentTypes, FollowTypes, VersionMaps
  <2>6. outcome.result = "applied" => serving'[t.pack] = t.version
    BY <1>1, <2>5
  <2>7. FlightShape'
    BY <1>2, <2>4, <2>5, <2>6 DEF FlightShape
  <2> QED BY <1>1, <1>3, <1>4, <1>5, <2>2, <2>4, <2>7 DEF SwapShape, LoaderShape
<1>6. CASE Load.stage \notin {"applying", "unknown"}
  <2>1. Load.stage \in {"idle", "built"}
    BY <1>6, LoadTyped
  <2>2. mode \in {"boot", "reconcile"}
    BY <1>2, <2>1 DEF SwapShape, LoaderShape, Began
  <2>3. Todo = <<>> /\ Load = IdleLoad
    BY <2>2 DEF SwapShape, LoaderShape
  <2>4. loader'["follow"] = loader["follow"]
    BY <1>1, <2>3 DEF Told, Loaders, Todo
  <2>5. Todo' = <<>> /\ Load' = IdleLoad
    BY <2>3, <2>4 DEF Todo, Load
  <2>6. LoaderShape'
    BY <1>1, <1>2, <1>4, <2>5, LoaderAtRest DEF IdleLoad
  <2> QED BY <1>3, <2>6 DEF SwapShape
<1> QED BY <1>5, <1>6

(* A load that returns leaves the Loader at rest. *)
LEMMA ReturnsShape ==
  ASSUME ContentTypes, SwapShape, Todo # <<>>, Returns("follow"), Consumed, Unmoved, UNCHANGED <<swaps, engineVars>>,
         held' \in NumbersOf(pubs, "game")
  PROVE  SwapShape'
<1>1. UNCHANGED <<pins, mode, serving, swaps, engineVars>>
  BY DEF Unmoved, storeVars
<1>2. loader["reload"] = NoLoader /\ mode \notin {"boot", "reconcile", "down", "serve"}
  BY DEF SwapShape, LoaderShape
<1>3. Load' = IdleLoad /\ loader["reload"]' = NoLoader
  <2> DEFINE h == held'
  <2>1. h \in NumbersOf(pubs, "game") /\ h = held'
    OBVIOUS
  <2> HIDE DEF h
  <2> QED BY <1>2, <2>1, Returned
<1>4. LoaderShape'
  BY <1>1, <1>2, <1>3, LoaderAtRest DEF IdleLoad, Consumed, engineVars
<1> QED BY <1>1, <1>4, EngineShapeSame DEF SwapShape

(* A load that reaches its next stage. *)
LEMMA StageSet ==
  ASSUME ContentTypes, SwapShape, Todo # <<>>, NEW l \in LoadsOver(pubs), UNCHANGED pins,
         loader' = [loader EXCEPT !["follow"].load = l]
  PROVE  Todo' = Todo /\ Load' = l /\ loader["reload"]' = NoLoader
BY LoadTyped, StagePut DEF Todo, Load, Loaders, SwapShape, LoaderShape

(* Before its swap is written, a load finds every swap stepped and reported. *)
LEMMA IdleIsConsumed ==
  ASSUME SwapShape, Todo # <<>>, Load.stage \in {"idle", "built"}
  PROVE  Consumed /\ Load.verdict = "none" /\ Began /\ mode \notin {"boot", "reconcile", "down", "serve"}
BY DEF SwapShape, LoaderShape, Began

(* The swap of a load is built on what is in effect. *)
LEMMA EvaluateShape == ASSUME ContentTypes, SwapShape, Evaluate("follow") PROVE SwapShape'
<1> DEFINE l == [Load EXCEPT !.stage = "built", !.base = serving]
<1>1. UNCHANGED <<pins, mode, serving, swaps, engineVars>> /\ Todo # <<>> /\ Load.stage = "idle"
      /\ Accepts(Head(Todo).pack, Head(Todo).version, serving)
  BY DEF Evaluate, Unmoved, storeVars, Loading, Todo, Load, Loads
<1>2. l \in LoadsOver(pubs) /\ loader' = [loader EXCEPT !["follow"].load = l]
  BY <1>1, StagesAre DEF Evaluate, Load, Todo, Loaders
<1>3. Todo' = Todo /\ Load' = l /\ loader["reload"]' = NoLoader
  BY <1>1, <1>2, StageSet
<1>4. l.stage = "built" /\ l.base = serving /\ l.verdict = Load.verdict
  BY LoadTyped DEF LoadsOver
<1>5. Consumed /\ Load.verdict = "none" /\ mode \notin {"boot", "reconcile", "down", "serve"}
  BY <1>1, IdleIsConsumed
<1>6. LoaderShape'
  BY <1>1, <1>3, <1>4, <1>5 DEF LoaderShape, Consumed, engineVars, Accepts, Skewed, Stranded, Pin
<1> QED BY <1>1, <1>6, EngineShapeSame DEF SwapShape

(* The swap is written. *)
LEMMA ProducedShape == ASSUME ContentTypes, SwapShape, Produced("follow") PROVE SwapShape'
<1> DEFINE t == Head(Todo)
           s == SwapOf("follow")
<1>1. UNCHANGED <<pins, mode, serving, engineVars>> /\ Todo # <<>> /\ Load.stage = "built" /\ Loads("follow") = t
      /\ swaps' = Append(swaps, s)
  BY DEF Produced, Unmoved, storeVars, Loading, Todo, Load, Loads
<1>2. PICK st \in {"applying", "unknown"} : loader' = [loader EXCEPT !["follow"].load.stage = st]
  BY DEF Produced
<1> DEFINE l == [Load EXCEPT !.stage = st]
<1>3. l \in LoadsOver(pubs) /\ loader' = [loader EXCEPT !["follow"].load = l]
  BY <1>1, <1>2, StagesAre DEF Load, Todo, Loaders
<1>4. Todo' = Todo /\ Load' = l /\ loader["reload"]' = NoLoader
  BY <1>1, <1>3, StageSet
<1>5. l.stage = st /\ l.verdict = Load.verdict
  BY LoadTyped DEF LoadsOver
<1>6. Consumed /\ Load.verdict = "none" /\ Began /\ mode \notin {"boot", "reconcile", "down", "serve"}
  BY <1>1, IdleIsConsumed
<1>7. Load.base = serving /\ Accepts(t.pack, t.version, serving)
  BY <1>1 DEF SwapShape, LoaderShape
<1>8. s.pack = t.pack /\ s.version = t.version /\ s.base = serving /\ s.built = Build(t.pack, t.version, serving)
  BY <1>1, <1>7 DEF SwapOf, Load
<1>9. swaps \in Seq(SwapRecords(pubs)) /\ s \in SwapRecords(pubs)
  BY <1>1, SwapTypes DEF ContentTypes, EngineTypes, Todo, Loaders
<1> HIDE DEF s
<1>10. Len(swaps') = Len(swaps) + 1 /\ swaps'[Len(swaps')] = s /\ Len(swaps) \in Nat
  BY <1>1, <1>9
<1>11. position = Len(swaps) /\ outcome = NoOutcome /\ position' = position /\ outcome' = outcome
  BY <1>1, <1>6 DEF Consumed, engineVars
<1>12. position' = Len(swaps') - 1 /\ position' < Len(swaps') /\ outcome' = NoOutcome
  BY <1>10, <1>11
<1>13. EngineShape'
  <2>1. EffectCoherent' /\ effect' = effect /\ effect = serving
    BY <1>1, <1>11 DEF SwapShape, EngineShape, EffectCoherent, engineVars, NoOutcome, Pin
  <2>2. s.built = Build(s.pack, s.version, s.base) /\ Accepts(s.pack, s.version, s.base)
    BY <1>7, <1>8
  <2> QED BY <1>1, <1>10, <1>12, <2>1, <2>2 DEF EngineShape, NoOutcome, Accepts, Skewed, Stranded, Pin, Build
<1>14. FlightShape'
  BY <1>4, <1>5, <1>6, <1>8, <1>10, <1>12 DEF FlightShape, Names
<1>15. LoaderShape'
  BY <1>1, <1>2, <1>4, <1>5, <1>6, <1>14 DEF LoaderShape
<1> QED BY <1>13, <1>15 DEF SwapShape

(* The fate of the swap is not known. *)
LEMMA UnknownShape ==
  ASSUME ContentTypes, SwapShape, Loading("follow", "built"), Unmoved, UNCHANGED <<swaps, engineVars>>,
         loader' = [loader EXCEPT !["follow"].load.stage = "unknown"]
  PROVE  SwapShape'
<1> DEFINE l == [Load EXCEPT !.stage = "unknown"]
<1>1. UNCHANGED <<pins, mode, serving, swaps, engineVars>> /\ Todo # <<>> /\ Load.stage = "built"
  BY DEF Unmoved, storeVars, Loading, Todo, Load
<1>3. l \in LoadsOver(pubs) /\ loader' = [loader EXCEPT !["follow"].load = l]
  BY <1>1, StagesAre DEF Load, Todo, Loaders
<1>4. Todo' = Todo /\ Load' = l /\ loader["reload"]' = NoLoader
  BY <1>1, <1>3, StageSet
<1>5. l.stage = "unknown" /\ l.verdict = Load.verdict
  BY LoadTyped DEF LoadsOver
<1>6. Consumed /\ Load.verdict = "none" /\ mode \notin {"boot", "reconcile", "down", "serve"}
  BY <1>1, IdleIsConsumed
<1>7. FlightShape'
  BY <1>1, <1>4, <1>5, <1>6 DEF FlightShape, Consumed, engineVars
<1>8. LoaderShape'
  BY <1>1, <1>4, <1>5, <1>6, <1>7 DEF LoaderShape
<1> QED BY <1>1, <1>8, EngineShapeSame DEF SwapShape

(* A stale swap is built again, or put off. *)
LEMMA AgainShape ==
  ASSUME ContentTypes, SwapShape, Todo # <<>>, Consumed, Unmoved, UNCHANGED <<swaps, engineVars>>,
         NEW n \in Nat, loader' = [loader EXCEPT !["follow"].load = [IdleLoad EXCEPT !.attempt = n]]
  PROVE  SwapShape'
<1>1. UNCHANGED <<pins, mode, serving, swaps, engineVars>>
  BY DEF Unmoved, storeVars
<1>2. [IdleLoad EXCEPT !.attempt = n] \in LoadsOver(pubs)
  BY LoadTyped, NoneMap DEF IdleLoad, LoadsOver
<1>3. Todo' = Todo /\ Load' = [IdleLoad EXCEPT !.attempt = n] /\ loader["reload"]' = NoLoader
  BY <1>1, <1>2, StageSet
<1>4. mode \notin {"boot", "reconcile", "down", "serve"}
  BY DEF SwapShape, LoaderShape
<1>5. LoaderShape'
  BY <1>1, <1>3, <1>4, LoaderAtRest DEF IdleLoad, Consumed, engineVars
<1> QED BY <1>1, <1>5, EngineShapeSame DEF SwapShape

(* A load that has been answered has had its swap consumed. *)
LEMMA AnsweredConsumed ==
  ASSUME SwapShape, Todo # <<>>, Load.verdict # "none", Load.stage \in {"applying", "unknown"}
  PROVE  Consumed
BY DEF SwapShape, LoaderShape, FlightShape

(* Every step of a load of Follow, but a wait that ends before the answer. *)
LEMMA LoadShape ==
  ASSUME ContentTypes, SwapShape, LoadStep("follow"), ~WaitEnds("follow")
  PROVE  SwapShape'
<1>1. Todo # <<>> /\ held \in NumbersOf(pubs, "game")
  BY DEF LoadStep, LoadSettled, LoadUnreadable, LoadRefused, Evaluate, Produced, NotProduced, Answered, NeverWritten,
         Loading, Todo, ContentTypes, FollowTypes
<1>2. CASE LoadSettled("follow")
  BY <1>1, <1>2, IdleIsConsumed, ReturnsShape DEF LoadSettled, Loading, Load
<1>3. CASE LoadUnreadable("follow")
  BY <1>1, <1>3, IdleIsConsumed, ReturnsShape DEF LoadUnreadable, Loading, Load
<1>4. CASE LoadRefused("follow")
  <2>1. held' \in NumbersOf(pubs, "game")
    BY <1>1, <1>4, LoadOf DEF LoadRefused, Skewed, Loaders, Todo
  <2> QED BY <1>1, <1>4, <2>1, IdleIsConsumed, ReturnsShape DEF LoadRefused, Loading, Load
<1>5. CASE Evaluate("follow")
  BY <1>5, EvaluateShape
<1>6. CASE Produced("follow")
  BY <1>6, ProducedShape
<1>7. CASE NotProduced("follow")
  <2>1. Loading("follow", "built") /\ Load.stage = "built" /\ Consumed /\ Unmoved /\ UNCHANGED <<swaps, engineVars>>
    BY <1>1, <1>7, IdleIsConsumed DEF NotProduced, Loading, Load
  <2>2. CASE UNCHANGED held /\ Returns("follow")
    BY <1>1, <2>1, <2>2, ReturnsShape
  <2>3. CASE loader' = [loader EXCEPT !["follow"].load.stage = "unknown"]
    BY <2>1, <2>3, UnknownShape
  <2> QED BY <1>7, <2>2, <2>3 DEF NotProduced
<1>8. CASE Answered("follow")
  <2>1. Consumed /\ Unmoved /\ UNCHANGED <<swaps, engineVars>> /\ held' \in NumbersOf(pubs, "game")
    BY <1>1, <1>8, AnsweredConsumed DEF Answered, Loading, Load
  <2>2. CASE Returns("follow")
    BY <1>1, <2>1, <2>2, ReturnsShape
  <2>3. CASE loader' = [loader EXCEPT !["follow"].load = [IdleLoad EXCEPT !.attempt = Load.attempt + 1]]
    <3>1. Load.attempt + 1 \in Nat
      BY LoadTyped DEF LoadsOver
    <3> QED BY <1>1, <2>1, <2>3, <3>1, AgainShape
  <2> QED BY <1>8, <2>2, <2>3 DEF Answered, Load
<1>9. CASE NeverWritten("follow")
  BY <1>1, <1>9, ReturnsShape DEF NeverWritten
<1> QED BY <1>2, <1>3, <1>4, <1>5, <1>6, <1>7, <1>8, <1>9 DEF LoadStep

(* A step that disturbs no swap. *)
CalmNext ==
  \/ PublishVersion
  \/ \E p \in Packs, v \in 1..(MaxCore + MaxVersions) : CheckActivation(p, v)
  \/ \E a \in activating : MovePointer(a)
  \/ \E build \in 1..MaxCore : BootCore(build)
  \/ LoadStep("follow") /\ ~WaitEnds("follow")
  \/ StepSwap \/ Report
  \/ Reconcile /\ LoadAll("follow")
  \/ Serve \/ StartFollow \/ ReadMove \/ Debounced
  \/ \E due \in SUBSET Packs : RetryDue(due)
  \/ Restart

(* A step that disturbs a swap is counted. *)
LEMMA DisturbsIs == ASSUME ContentTypes, Disturbs PROVE ~Undisturbed'
BY UsesTypes DEF Disturbs, Undisturbed, ContentTypes, RegistryTypes

(* At most one bound is drawn on. *)
LEMMA UsedIs ==
  ASSUME ContentTypes, ContentNext
  PROVE  UNCHANGED used \/ \E b \in {"moves", "restarts", "failures", "disturbances"} : used' = [used EXCEPT ![b] = @ + 1]
<1>1. CASE \E w \in Loaders : LoadStep(w)
  BY <1>1 DEF LoadStep, LoadSettled, LoadUnreadable, LoadRefused, Evaluate, Produced, NotProduced, Answered,
    NeverWritten, WaitEnds, Unanswered, Disturbs
<1>2. CASE ~\E w \in Loaders : LoadStep(w)
  BY <1>2 DEF ContentNext, PublishVersion, CheckActivation, MovePointer, BootCore, StepSwap, Report, Reconcile, Serve,
    StartFollow, ReadMove, Debounced, RetryDue, ApplyBatch, ReloadContent, Restart, Uses, Disturbs
<1> QED BY <1>1, <1>2

(* What was disturbed stays so. *)
LEMMA CalmBefore ==
  ASSUME ContentTypes, [ContentNext]_contentVars, Undisturbed'
  PROVE  Undisturbed
<1>1. CASE UNCHANGED used
  BY <1>1 DEF Undisturbed
<1>2. ASSUME NEW b \in {"moves", "restarts", "failures", "disturbances"}, used' = [used EXCEPT ![b] = @ + 1]
      PROVE  Undisturbed
  BY <1>2, UsesTypes DEF Undisturbed, ContentTypes
<1> QED BY <1>1, <1>2, UsedIs DEF contentVars

(* The steps of a behaviour in which nothing disturbs a swap. *)
LEMMA CalmStep ==
  ASSUME ContentTypes, SwapShape, ContentNext, Undisturbed'
  PROVE  CalmNext
<1>1. ~Disturbs
  BY DisturbsIs
<1>2. ~ReloadContent /\ ~WaitEnds("follow") /\ (Reconcile => LoadAll("follow"))
  BY <1>1 DEF ReloadContent, WaitEnds, Reconcile
<1>3. ~LoadStep("reload")
  <2>1. loader["reload"].todo = <<>>
    BY DEF SwapShape, LoaderShape, NoLoader
  <2> QED BY <2>1 DEF LoadStep, LoadSettled, LoadUnreadable, LoadRefused, Evaluate, Produced, NotProduced, Answered,
        NeverWritten, WaitEnds, Loading
<1>4. \A w \in Loaders : w = "follow" \/ w = "reload"
  BY DEF Loaders
<1> QED BY <1>2, <1>3, <1>4, ZenonT(30) DEF ContentNext, CalmNext

(* The debounce ends. *)
LEMMA DebouncedShape == ASSUME ContentTypes, SwapShape, Debounced PROVE SwapShape'
<1>1. pending \in VersionMaps(pubs) /\ ApplyBatch(pending)
  BY DEF Debounced, ContentTypes, FollowTypes
<1> QED BY <1>1, ApplyShape

(* Retries come due. *)
LEMMA RetryShape == ASSUME ContentTypes, SwapShape, NEW due \in SUBSET Packs, RetryDue(due) PROVE SwapShape'
<1> DEFINE f == [p \in Packs |-> IF p \in due THEN retries[p] ELSE 0]
<1>1. retries \in VersionMaps(pubs) /\ pubs \in Nat
  BY DEF ContentTypes, FollowTypes, RegistryTypes
<1>2. f \in VersionMaps(pubs) /\ ApplyBatch(f)
  BY <1>1, ContentAssumption DEF RetryDue, VersionMaps, NumbersOf
<1> QED BY <1>2, ApplyShape

(* The swaps and the load in flight keep their shape while nothing disturbs them. *)
LEMMA SwapShapeStep ==
  ASSUME ContentTypes, SwapShape, CalmNext \/ UNCHANGED contentVars
  PROVE  SwapShape'
BY ElsewhereShape, PublishShape, ReconcileShape, ServeShape, DebouncedShape, RetryShape, RestartShape, StepSwapShape,
   ReportShape, LoadShape, ZenonT(30) DEF CalmNext

(* What it says of what is in effect. *)
LEMMA SwapShapeCoheres == SwapShape => EffectCoherent
BY DEF SwapShape, EngineShape

--------------------------------------------------------------------------------
(* The content loader: the version a pointer names is in one of the places it *)
(* may wait in, until it is in effect or judged.                              *)

(* A move of the pack that Follow has not read. *)
Unread(p) == \E i \in 1..Len(moves) : moves[i].pack = p
LastMove(p) == \A i \in 1..Len(moves) :
  moves[i].pack = p /\ (\A j \in 1..Len(moves) : j > i => moves[j].pack # p) => moves[i].version = pointer[p]

(* A Builder version waits, or was, to be retried beside a newer move. *)
Excused(p) == p = "game" /\ outlived

(* The queues a version waits in: the watch, the debounce, the retries and the *)
(* batch.  What is newest of them is what the pointer names.                   *)
QueuesShape ==
  /\ mode # "follow" => retries = NoVersions /\ pending = NoVersions
  /\ mode = "follow" => startRetries = NoVersions
  /\ mode \in {"boot", "reconcile"} => startRetries = NoVersions /\ held = 0
  /\ \A p \in Packs : LastMove(p)
  /\ \A p \in Packs : ~Unread(p) /\ pending[p] # 0 => pending[p] = pointer[p]
  /\ \A p \in Packs : pending[p] # 0 /\ retries[p] # 0 => Excused(p)
  /\ \A i \in 1..Len(Todo) : Todo[i].pack = "core" => i = 1 /\ (held = 0 \/ Todo[i].moved) /\ pending["core"] = 0

(* What will bring the pack's version into effect, or has judged it. *)
ToCome(p, v) ==
  \/ serving[p] = v \/ refused[p] = v \/ retries[p] = v \/ startRetries[p] = v
  \/ \E i \in 1..Len(Todo) : Todo[i].pack = p
  \/ p = "game" /\ held = v
     /\ (Skewed("game", v, serving) \/ \E i \in 1..Len(Todo) : Todo[i].pack = "core" /\ Todo[i].moved)

(* A pack whose moves are read and debounced: every other place it may wait in *)
(* has the version its pointer names, and one of them has it.                  *)
Settling(p) == mode \in {"loading", "serve", "follow"} /\ ~Unread(p) /\ pending[p] = 0 /\ pointer[p] # 0
PackShape(p) ==
  Settling(p) =>
    /\ retries[p] \in {0, pointer[p]} /\ startRetries[p] \in {0, pointer[p]}
    /\ p = "game" => held \in {0, pointer[p]}
    /\ \A i \in 1..Len(Todo) : Todo[i].pack = p => Todo[i].version = pointer[p]
    /\ ToCome(p, pointer[p])

(* Nothing has moved, and nothing waits. *)
LEMMA ContentInitQueues == ContentInit => QueuesShape /\ \A p \in Packs : PackShape(p)
<1> SUFFICES ASSUME ContentInit PROVE QueuesShape /\ \A p \in Packs : PackShape(p)
  OBVIOUS
<1>1. Len(moves) = 0 /\ Todo = <<>> /\ Len(Todo) = 0 /\ mode = "boot"
  BY DEF ContentInit, Todo, NoLoader, Loaders
<1>2. QueuesShape
  BY <1>1 DEF ContentInit, QueuesShape, LastMove, Unread, NoVersions, Packs
<1> QED BY <1>1, <1>2 DEF PackShape, Settling

(* ---------------------- the moves and the queues --------------------------- *)

(* A new move of a pack is its last, and leaves the other pack's alone. *)
LEMMA MovedLast ==
  ASSUME ContentTypes, \A q \in Packs : LastMove(q), NEW p \in Packs, NEW v \in NumbersOf(pubs, p), v # 0, Moved(p, v)
  PROVE  /\ \A q \in Packs : LastMove(q)'
         /\ Unread(p)' /\ \A q \in Packs : q # p => (Unread(q)' <=> Unread(q)) /\ pointer'[q] = pointer[q]
<1>1. /\ Len(moves') = Len(moves) + 1 /\ moves'[Len(moves) + 1] = [pack |-> p, version |-> v]
      /\ \A i \in 1..Len(moves) : moves'[i] = moves[i]
      /\ pointer'[p] = v /\ \A q \in Packs : q # p => pointer'[q] = pointer[q]
  BY MovedTypes DEF ContentTypes
<1>2. Len(moves) \in Nat
  BY DEF ContentTypes, RegistryTypes
<1> DEFINE n == Len(moves)
<1>3. n \in Nat /\ Len(moves') = n + 1 /\ moves'[n + 1].pack = p /\ moves'[n + 1].version = v
      /\ \A i \in 1..n : moves'[i] = moves[i]
  BY <1>1, <1>2
<1> HIDE DEF n
<1>4. Unread(p)'
  BY <1>3 DEF Unread
<1>5. ASSUME NEW q \in Packs, q # p PROVE Unread(q)' <=> Unread(q)
  BY <1>3, <1>5 DEF Unread, n
<1>6. ASSUME NEW q \in Packs PROVE LastMove(q)'
  <2> SUFFICES ASSUME NEW i \in 1..(n + 1), moves'[i].pack = q,
                      \A j \in 1..(n + 1) : j > i => moves'[j].pack # q
               PROVE  moves'[i].version = pointer'[q]
    BY <1>3 DEF LastMove
  <2>1. CASE i = n + 1
    BY <1>1, <1>3, <2>1
  <2>2. CASE i # n + 1
    <3>1. i \in 1..n /\ n + 1 > i /\ n + 1 \in 1..(n + 1)
      BY <1>3, <2>2
    <3>2. q # p /\ moves[i].pack = q
      BY <1>3, <3>1
    <3>3. \A j \in 1..n : j > i => moves[j].pack # q
      BY <1>3
    <3>4. moves[i].version = pointer[q]
      BY <3>1, <3>2, <3>3 DEF LastMove, n
    <3> QED BY <1>1, <1>3, <3>1, <3>2, <3>4
  <2> QED BY <2>1, <2>2
<1> QED BY <1>1, <1>4, <1>5, <1>6

(* Reading a move of a pack: the ones after it are still to come. *)
LEMMA ReadLast ==
  ASSUME ContentTypes, \A q \in Packs : LastMove(q), moves # <<>>, moves' = Tail(moves), UNCHANGED pointer,
         NEW p, p = Watched.pack
  PROVE  /\ \A q \in Packs : LastMove(q)'
         /\ p \in Packs /\ (~Unread(p)' => Watched.version = pointer[p])
         /\ \A q \in Packs : q # p => (Unread(q)' <=> Unread(q))
<1> DEFINE n == Len(moves) - 1
<1>1. /\ n \in Nat /\ Len(moves) = n + 1 /\ Len(moves') = n /\ Watched = moves[1] /\ p \in Packs /\ moves[1].pack = p
      /\ \A i \in 1..n : moves'[i] = moves[i + 1]
  BY FirstMove
<1> HIDE DEF n
<1>2. ASSUME NEW q \in Packs PROVE LastMove(q)'
  <2> SUFFICES ASSUME NEW i \in 1..n, moves'[i].pack = q, \A j \in 1..n : j > i => moves'[j].pack # q
               PROVE  moves'[i].version = pointer[q]
    BY <1>1 DEF LastMove
  <2>1. i + 1 \in 1..(n + 1) /\ moves[i + 1].pack = q
    BY <1>1
  <2>2. ASSUME NEW j \in 1..(n + 1), j > i + 1 PROVE moves[j].pack # q
    <3>1. j - 1 \in 1..n /\ j - 1 > i /\ (j - 1) + 1 = j
      BY <1>1, <2>2
    <3>2. moves'[j - 1] = moves[(j - 1) + 1]
      BY <1>1, <3>1
    <3> QED BY <3>1, <3>2
  <2>3. moves[i + 1].version = pointer[q]
    BY <1>1, <2>1, <2>2 DEF LastMove
  <2> QED BY <1>1, <2>3
<1>3. ASSUME ~Unread(p)' PROVE Watched.version = pointer[p]
  <2>1. ASSUME NEW j \in 1..(n + 1), j > 1 PROVE moves[j].pack # p
    <3>1. j - 1 \in 1..n /\ (j - 1) + 1 = j
      BY <1>1, <2>1
    <3>2. moves'[j - 1] = moves[j]
      BY <1>1, <3>1
    <3> QED BY <1>1, <1>3, <3>1, <3>2 DEF Unread
  <2>2. 1 \in 1..(n + 1)
    BY <1>1
  <2> QED BY <1>1, <2>1, <2>2 DEF LastMove
<1>4. ASSUME NEW q \in Packs, q # p PROVE Unread(q)' <=> Unread(q)
  <2>1. ASSUME NEW i \in 1..n, moves'[i].pack = q PROVE Unread(q)
    <3>1. i + 1 \in 1..(n + 1)
      BY <1>1
    <3> QED BY <1>1, <2>1, <3>1 DEF Unread
  <2>2. ASSUME NEW i \in 1..(n + 1), moves[i].pack = q PROVE \E j \in 1..n : moves'[j].pack = q
    <3>1. i # 1
      BY <1>1, <1>4, <2>2
    <3>2. i - 1 \in 1..n /\ (i - 1) + 1 = i
      BY <1>1, <3>1
    <3>3. moves'[i - 1] = moves[i]
      BY <1>1, <3>2
    <3> QED BY <2>2, <3>2, <3>3
  <2> QED BY <1>1, <2>1, <2>2 DEF Unread
<1> QED BY <1>1, <1>2, <1>3, <1>4

PacksShape == \A p \in Packs : Excused(p) \/ PackShape(p)

(* A step that leaves every place a version may wait in. *)
LEMMA QueuesSame ==
  ASSUME QueuesShape, PacksShape, Todo' = Todo,
         UNCHANGED <<pins, mode, moves, pending, pointer, retries, startRetries, held, serving, refused, outlived>>
  PROVE  QueuesShape' /\ PacksShape'
<1>1. QueuesShape'
  BY DEF QueuesShape, LastMove, Unread, Excused
<1>2. PacksShape'
  BY DEF PacksShape, PackShape, Settling, Unread, ToCome, Skewed, Pin, Excused
<1> QED BY <1>1, <1>2

(* A version is published. *)
LEMMA PublishQueues ==
  ASSUME ContentTypes, QueuesShape, PacksShape, PublishVersion PROVE QueuesShape' /\ PacksShape'
<1>1. UNCHANGED <<mode, moves, pending, pointer, retries, startRetries, held, serving, refused, outlived>> /\ Todo' = Todo
  BY DEF PublishVersion, followVars, Todo
<1>2. QueuesShape'
  BY <1>1 DEF QueuesShape, LastMove, Unread, Excused
<1>3. ASSUME NEW p \in Packs, PackShape(p) PROVE PackShape(p)'
  <2>1. pointer[p] \in NumbersOf(pubs, p) /\ serving \in VersionMaps(pubs)
    BY NoneMap DEF ContentTypes, RegistryTypes, FollowTypes
  <2> DEFINE v == pointer[p]
             b == serving
  <2>2. v' = v /\ b' = b
    BY <1>1
  <2>3. p = "game" => (Skewed("game", v, b)' <=> Skewed("game", v, b))
    <3> SUFFICES ASSUME p = "game" PROVE Skewed("game", v, b)' <=> Skewed("game", v, b)
      OBVIOUS
    <3>1. \A m \in NumbersOf(pubs, "game") : \A f \in VersionMaps(pubs) : Skewed("game", m, f)' <=> Skewed("game", m, f)
      BY JudgedTheSame DEF Packs
    <3> QED BY <2>1, <2>2, <3>1 DEF Skewed
  <2> QED BY <1>1, <1>3, <2>3 DEF PackShape, Settling, Unread, ToCome
<1> QED BY <1>1, <1>2, <1>3 DEF PacksShape, Excused

(* A pointer moves: its record is the newest. *)
LEMMA MoveQueues ==
  ASSUME ContentTypes, QueuesShape, PacksShape, NEW a \in activating, MovePointer(a) PROVE QueuesShape' /\ PacksShape'
<1> DEFINE p == a.pack
<1>1. a \in Moves(pubs)
  BY DEF ContentTypes, RegistryTypes
<1>2. p \in Packs /\ a.version \in NumbersOf(pubs, p) /\ a.version # 0 /\ Moved(p, a.version)
  BY <1>1 DEF Moves, Known, MovePointer
<1> HIDE DEF p
<1>3. /\ \A q \in Packs : LastMove(q)'
      /\ Unread(p)' /\ \A q \in Packs : q # p => (Unread(q)' <=> Unread(q)) /\ pointer'[q] = pointer[q]
  BY <1>2, MovedLast DEF QueuesShape
<1>4. UNCHANGED <<pins, mode, pending, retries, startRetries, held, serving, refused, outlived>> /\ Todo' = Todo
  BY DEF MovePointer, followVars, Todo
<1>5. QueuesShape'
  BY <1>3, <1>4 DEF QueuesShape, Excused
<1>6. ASSUME NEW q \in Packs, PackShape(q) PROVE PackShape(q)'
  <2>1. CASE q = p
    BY <1>3, <2>1 DEF PackShape, Settling
  <2>2. CASE q # p
    BY <1>3, <1>4, <1>6, <2>2 DEF PackShape, Settling, ToCome, Skewed, Pin
  <2> QED BY <2>1, <2>2
<1> QED BY <1>4, <1>5, <1>6 DEF PacksShape, Excused

(* bootCore moves the pointer of the core. *)
LEMMA BootQueues ==
  ASSUME ContentTypes, QueuesShape, PacksShape, NEW build \in 1..MaxCore, BootCore(build) PROVE QueuesShape' /\ PacksShape'
<1>1. UNCHANGED <<pins, pending, retries, startRetries, held, serving, refused, outlived>> /\ Todo' = Todo
      /\ mode = "boot" /\ mode' = "reconcile"
  BY DEF BootCore, followVars, Todo
<1>2. \A q \in Packs : LastMove(q)'
  <2>1. CASE Moved("core", build)
    <3>1. "core" \in Packs /\ build \in NumbersOf(pubs, "core") /\ build # 0
      BY ContentAssumption DEF Packs, NumbersOf
    <3> QED BY <2>1, <3>1, MovedLast DEF QueuesShape
  <2>2. CASE UNCHANGED <<pointer, moves>>
    BY <2>2 DEF QueuesShape, LastMove
  <2> QED BY <2>1, <2>2 DEF BootCore
<1>3. pending = NoVersions
  BY <1>1 DEF QueuesShape
<1>4. QueuesShape'
  BY <1>1, <1>2, <1>3 DEF QueuesShape, Excused, NoVersions
<1>5. PacksShape'
  BY <1>1 DEF PacksShape, Excused, PackShape, Settling
<1> QED BY <1>4, <1>5

(* Reconcile asks for what the pointers name. *)
LEMMA ReconcileQueues ==
  ASSUME ContentTypes, SwapShape, QueuesShape, PacksShape, Reconcile, LoadAll("follow") PROVE QueuesShape' /\ PacksShape'
<1>1. UNCHANGED <<pins, moves, pending, pointer, retries, startRetries, held, serving, refused, outlived>>
      /\ mode = "reconcile" /\ mode' = "loading" /\ loader' = [loader EXCEPT !["follow"].todo = Batch(pointer, FALSE)]
  BY DEF Reconcile, LoadAll, Active, storeVars
<1>2. held = 0 /\ startRetries = NoVersions /\ retries = NoVersions /\ pending = NoVersions
  BY <1>1 DEF QueuesShape
<1>3. pointer \in VersionMaps(pubs) /\ pubs \in Nat
  BY DEF ContentTypes, RegistryTypes
<1>4. Todo' = Batch(pointer, FALSE)
  BY <1>1, <1>3, TodoPut DEF Todo, Loaders
<1>5. /\ \A i \in 1..Len(Todo') : Todo'[i].version = pointer[Todo'[i].pack] /\ Todo'[i].version # 0
      /\ \A i \in 1..Len(Todo') : Todo'[i].pack = "core" => i = 1
      /\ \A p \in Packs : pointer[p] # 0 => \E i \in 1..Len(Todo') : Todo'[i].pack = p
  <2>1. BatchShape(Batch(pointer, FALSE), pointer, FALSE)
    BY <1>3, BatchIs
  <2> QED BY <1>4, <2>1 DEF BatchShape
<1>6. QueuesShape'
  <2>1. \A p \in Packs : LastMove(p)'
    BY <1>1 DEF QueuesShape, LastMove
  <2>2. \A p \in Packs : pending'[p] = 0
    BY <1>1, <1>2 DEF NoVersions
  <2>3. \A i \in 1..Len(Todo') : Todo'[i].pack = "core" => i = 1 /\ held' = 0 /\ pending'["core"] = 0
    BY <1>1, <1>2, <1>5, <2>2 DEF Packs
  <2> QED BY <1>1, <1>2, <2>1, <2>2, <2>3 DEF QueuesShape
<1>7. PacksShape'
  BY <1>1, <1>2, <1>5 DEF PacksShape, Excused, PackShape, Settling, ToCome, NoVersions
<1> QED BY <1>6, <1>7

(* The boot serves. *)
LEMMA ServeQueues == ASSUME QueuesShape, PacksShape, Serve PROVE QueuesShape' /\ PacksShape'
<1>1. UNCHANGED <<pins, moves, pending, pointer, retries, startRetries, held, serving, refused, outlived>> /\ Todo' = Todo
      /\ mode = "loading" /\ mode' \in {"serve", "down"}
  BY DEF Serve, storeVars, followVars, Todo
<1>2. QueuesShape'
  BY <1>1 DEF QueuesShape, LastMove, Unread, Excused
<1>3. PacksShape'
  BY <1>1 DEF PacksShape, Excused, PackShape, Settling, Unread, ToCome, Skewed, Pin
<1> QED BY <1>2, <1>3

(* Follow begins with the retries of the boot. *)
LEMMA StartQueues == ASSUME QueuesShape, PacksShape, StartFollow PROVE QueuesShape' /\ PacksShape'
<1>1. UNCHANGED <<pins, moves, pending, pointer, held, serving, refused, outlived>> /\ Todo' = Todo
      /\ mode = "serve" /\ mode' = "follow" /\ retries' = startRetries /\ startRetries' = NoVersions
  BY DEF StartFollow, storeVars, Todo
<1>2. retries = NoVersions /\ pending = NoVersions
  BY <1>1 DEF QueuesShape
<1>3. QueuesShape'
  BY <1>1, <1>2 DEF QueuesShape, LastMove, Unread, Excused, NoVersions
<1>4. PacksShape'
  BY <1>1, <1>2 DEF PacksShape, Excused, PackShape, Settling, Unread, ToCome, Skewed, Pin, NoVersions
<1> QED BY <1>3, <1>4

(* A restart forgets every queue. *)
LEMMA RestartQueues == ASSUME ContentTypes, Restart PROVE QueuesShape' /\ PacksShape'
<1>1. mode' = "boot" /\ moves' = <<>> /\ held' = 0 /\ startRetries' = NoVersions /\ retries' = NoVersions
      /\ pending' = NoVersions /\ Todo' = <<>>
  BY DEF Restart, Todo, NoLoader, Loaders
<1>2. QueuesShape'
  BY <1>1 DEF QueuesShape, LastMove, Unread, Excused, NoVersions
<1>3. PacksShape'
  BY <1>1 DEF PacksShape, Excused, PackShape, Settling
<1> QED BY <1>2, <1>3

(* Follow reads a move, which is now waiting for the debounce. *)
LEMMA ReadQueues == ASSUME ContentTypes, QueuesShape, PacksShape, ReadMove PROVE QueuesShape' /\ PacksShape'
<1>0. PICK p : p = Watched.pack
  OBVIOUS
<1>1. UNCHANGED <<pins, mode, pointer, startRetries, held, serving, refused>> /\ Todo' = Todo /\ Todo = <<>>
      /\ mode = "follow" /\ moves # <<>> /\ moves' = Tail(moves)
      /\ pending' = [pending EXCEPT ![p] = Watched.version] /\ retries' = [retries EXCEPT ![p] = 0]
  BY <1>0 DEF ReadMove, Todo, Idle
<1>2. Watched.version # 0
  BY <1>1, FirstMove
<1>3. pending \in [Packs -> Nat] /\ retries \in [Packs -> Nat]
  BY DEF ContentTypes, FollowTypes, VersionMaps
<1>5. /\ \A q \in Packs : LastMove(q)'
      /\ p \in Packs /\ (~Unread(p)' => Watched.version = pointer[p])
      /\ \A q \in Packs : q # p => (Unread(q)' <=> Unread(q))
  BY <1>0, <1>1, ReadLast DEF QueuesShape
<1>6. pending'[p] = Watched.version /\ retries'[p] = 0
      /\ \A q \in Packs : q # p => pending'[q] = pending[q] /\ retries'[q] = retries[q]
  BY <1>1, <1>3, <1>5
<1>e. \A q \in Packs : q # p => (Excused(q)' <=> Excused(q))
  BY <1>0 DEF ReadMove, Excused, Packs
<1>7. QueuesShape'
  <2>1. \A q \in Packs : pending'[q] # 0 /\ retries'[q] # 0 => Excused(q)'
    BY <1>6, <1>e DEF QueuesShape
  <2>2. \A i \in 1..Len(Todo') : FALSE
    BY <1>1
  <2> QED BY <1>1, <1>5, <1>6, <2>1, <2>2 DEF QueuesShape
<1>8. ASSUME NEW q \in Packs, q # p, PackShape(q) PROVE PackShape(q)'
  BY <1>1, <1>5, <1>6, <1>8 DEF PackShape, Settling, ToCome, Skewed, Pin
<1>9. ASSUME NEW q \in Packs PROVE Excused(q)' \/ PackShape(q)'
  <2>1. CASE q = p
    BY <1>2, <1>6, <2>1 DEF PackShape, Settling
  <2>2. CASE q # p
    BY <1>8, <1>e, <2>2 DEF PacksShape
  <2> QED BY <2>1, <2>2
<1> QED BY <1>7, <1>9 DEF PacksShape

(* A batch: the packs it names were waiting with the version it loads, the     *)
(* others keep their places.                                                   *)
LEMMA BatchQueues ==
  ASSUME ContentTypes, QueuesShape, PacksShape, NEW f \in VersionMaps(pubs), ApplyBatch(f), UNCHANGED outlived,
         \A p \in Packs : pending'[p] \in {0, pending[p]} /\ retries'[p] \in {0, retries[p]},
         \A p \in Packs : f[p] = 0 => pending'[p] = pending[p] /\ retries'[p] = retries[p],
         f["core"] # 0 => pending'["core"] = 0,
         \A p \in Packs : ~Excused(p) /\ f[p] # 0 /\ ~Unread(p) /\ pending'[p] = 0 /\ pointer[p] # 0 =>
                        f[p] = pointer[p] /\ retries'[p] = 0
  PROVE  QueuesShape' /\ PacksShape'
<1>1. UNCHANGED <<pins, moves, pointer, serving, refused, startRetries, mode>> /\ mode = "follow" /\ Todo = <<>>
      /\ loader' = [loader EXCEPT !["follow"].todo = Batch(f, TRUE)]
      /\ held' = (IF f["game"] \notin {0, held} THEN 0 ELSE held)
  BY DEF ApplyBatch, storeVars, Idle, Todo
<1>2. pubs \in Nat
  BY DEF ContentTypes, RegistryTypes
<1>3. Todo' = Batch(f, TRUE)
  BY <1>1, TodoPut DEF Todo, Loaders
<1>4. /\ \A i \in 1..Len(Todo') : Todo'[i].version = f[Todo'[i].pack] /\ Todo'[i].version # 0 /\ Todo'[i].moved = TRUE
      /\ \A i \in 1..Len(Todo') : Todo'[i].pack = "core" => i = 1 /\ f["core"] # 0
      /\ \A p \in Packs : f[p] # 0 => \E i \in 1..Len(Todo') : Todo'[i].pack = p
  <2>1. BatchShape(Batch(f, TRUE), f, TRUE)
    BY <1>2, BatchIs
  <2>2. /\ \A i \in 1..Len(Todo') : Todo'[i].version = f[Todo'[i].pack] /\ Todo'[i].version # 0 /\ Todo'[i].moved = TRUE
        /\ \A i \in 1..Len(Todo') : Todo'[i].pack = "core" => i = 1
        /\ \A p \in Packs : f[p] # 0 => \E i \in 1..Len(Todo') : Todo'[i].pack = p
    BY <1>3, <2>1 DEF BatchShape
  <2>3. ASSUME NEW i \in 1..Len(Todo'), Todo'[i].pack = "core" PROVE f["core"] # 0
    <3>1. Todo'[i].version = f[Todo'[i].pack] /\ Todo'[i].version # 0
      BY <2>2
    <3> QED BY <2>3, <3>1
  <2> QED BY <2>2, <2>3
<1>5. startRetries = NoVersions /\ \A i \in 1..Len(Todo) : FALSE
  BY <1>1 DEF QueuesShape
<1>6. QueuesShape'
  <2>1. \A p \in Packs : LastMove(p)' /\ (Unread(p)' <=> Unread(p))
    BY <1>1 DEF QueuesShape, LastMove, Unread
  <2>2. \A p \in Packs : pending'[p] # 0 => pending'[p] = pending[p]
    OBVIOUS
  <2>3. \A p \in Packs : pending'[p] # 0 /\ retries'[p] # 0 => Excused(p)'
    BY DEF QueuesShape, Excused
  <2>4. \A p \in Packs : ~Unread(p)' /\ pending'[p] # 0 => pending'[p] = pointer'[p]
    BY <1>1, <2>1, <2>2 DEF QueuesShape
  <2> QED BY <1>1, <1>4, <1>5, <2>1, <2>3, <2>4 DEF QueuesShape
<1>7. ASSUME NEW p \in Packs, ~Excused(p), PackShape(p) PROVE PackShape(p)'
  <2> SUFFICES ASSUME Settling(p)'
               PROVE  /\ retries'[p] \in {0, pointer[p]} /\ startRetries'[p] \in {0, pointer[p]}
                      /\ p = "game" => held' \in {0, pointer[p]}
                      /\ \A i \in 1..Len(Todo') : Todo'[i].pack = p => Todo'[i].version = pointer[p]
                      /\ ToCome(p, pointer[p])'
    BY <1>1 DEF PackShape
  <2>1. ~Unread(p) /\ pending'[p] = 0 /\ pointer[p] # 0
    BY <1>1 DEF Settling, Unread
  <2>2. CASE f[p] # 0
    <3>1. f[p] = pointer[p] /\ retries'[p] = 0
      BY <1>7, <2>1, <2>2
    <3>2. p = "game" => held' \in {0, pointer[p]}
      BY <1>1, <2>2, <3>1
    <3>3. \A i \in 1..Len(Todo') : Todo'[i].pack = p => Todo'[i].version = pointer[p]
      BY <1>4, <3>1
    <3>4. ToCome(p, pointer[p])'
      BY <1>4, <2>2 DEF ToCome
    <3> QED BY <1>1, <1>5, <3>1, <3>2, <3>3, <3>4 DEF NoVersions
  <2>3. CASE f[p] = 0
    <3>1. Settling(p)
      BY <1>1, <2>1, <2>3 DEF Settling
    <3>2. /\ retries[p] \in {0, pointer[p]} /\ (p = "game" => held \in {0, pointer[p]})
          /\ ToCome(p, pointer[p])
      BY <1>7, <3>1 DEF PackShape
    <3>3. p = "game" => held' = held
      BY <1>1, <2>3
    <3>4. \A i \in 1..Len(Todo') : Todo'[i].pack # p
      BY <1>4, <2>3
    <3>5. ToCome(p, pointer[p])'
      BY <1>1, <1>5, <2>3, <3>2, <3>3 DEF ToCome, Skewed, Pin
    <3> QED BY <1>1, <1>5, <2>3, <3>2, <3>3, <3>4, <3>5 DEF NoVersions
  <2> QED BY <2>2, <2>3
<1>8. \A p \in Packs : Excused(p)' <=> Excused(p)
  BY DEF Excused
<1> QED BY <1>6, <1>7, <1>8 DEF PacksShape

(* The debounce ends: all that waited is loaded. *)
LEMMA DebouncedQueues == ASSUME ContentTypes, QueuesShape, PacksShape, Debounced PROVE QueuesShape' /\ PacksShape'
<1>1. ApplyBatch(pending) /\ UNCHANGED outlived /\ pending' = NoVersions /\ retries' = retries
  BY DEF Debounced, ApplyBatch
<1>2. pending \in VersionMaps(pubs) /\ pending \in [Packs -> Nat]
  BY DEF ContentTypes, FollowTypes, VersionMaps
<1>3. \A p \in Packs : pending'[p] = 0
  BY <1>1 DEF NoVersions
<1>4. \A p \in Packs : ~Excused(p) /\ pending[p] # 0 /\ ~Unread(p) => pending[p] = pointer[p] /\ retries[p] = 0
  BY DEF QueuesShape
<1> QED BY <1>1, <1>2, <1>3, <1>4, BatchQueues DEF Packs

(* Retries come due. *)
LEMMA RetryQueues ==
  ASSUME ContentTypes, QueuesShape, PacksShape, NEW due \in SUBSET Packs, RetryDue(due) PROVE QueuesShape' /\ PacksShape'
<1> DEFINE f == [p \in Packs |-> IF p \in due THEN retries[p] ELSE 0]
           g == [p \in Packs |-> IF p \in due THEN 0 ELSE retries[p]]
<1>1. ApplyBatch(f) /\ UNCHANGED outlived /\ pending' = pending /\ retries' = g /\ mode = "follow"
  BY DEF RetryDue, ApplyBatch
<1>2. retries \in VersionMaps(pubs) /\ pubs \in Nat
  BY DEF ContentTypes, FollowTypes, RegistryTypes
<1>3. f \in VersionMaps(pubs) /\ \A p \in Packs : f[p] \in {0, retries[p]} /\ g[p] \in {0, retries[p]}
      /\ (f[p] = 0 => g[p] = retries[p]) /\ (f[p] # 0 => g[p] = 0)
  BY <1>2, ContentAssumption DEF VersionMaps, NumbersOf
<1>4. \A p \in Packs : ~Excused(p) /\ Settling(p) => retries[p] \in {0, pointer[p]}
  BY DEF PacksShape, PackShape
<1> HIDE DEF f, g
<1>5. \A p \in Packs : ~Excused(p) /\ f[p] # 0 /\ ~Unread(p) /\ pending[p] = 0 /\ pointer[p] # 0 => f[p] = pointer[p] /\ g[p] = 0
  BY <1>1, <1>3, <1>4 DEF Settling
<1>6. f["core"] # 0 => pending["core"] = 0
  BY <1>3 DEF QueuesShape, Excused, Packs
<1> QED BY <1>1, <1>3, <1>5, <1>6, BatchQueues

(* What is served when the Engine's answer arrives is the version at the head of the batch. *)
LEMMA ReportQueues ==
  ASSUME ContentTypes, SwapShape, QueuesShape, PacksShape, Report PROVE QueuesShape' /\ PacksShape'
<1> DEFINE q == outcome.pack
<1>1. UNCHANGED <<pins, mode, moves, pending, pointer, retries, startRetries, refused, outlived>> /\ outcome # NoOutcome
      /\ loader' = [w \in Loaders |-> Told(w)]
      /\ serving' = (IF outcome.result = "applied" THEN [serving EXCEPT ![outcome.pack] = outcome.version] ELSE serving)
      /\ held' = (IF outcome.result = "applied" /\ outcome.pack = "game" THEN 0 ELSE held)
  BY DEF Report, storeVars, followVars
<1>2. Todo' = Todo
  <2>1. loader["follow"] \in LoaderStates(pubs) /\ loader'["follow"] = Told("follow")
    BY <1>1, LoadTyped DEF Loaders
  <2> QED BY <2>1 DEF Todo, Told, LoaderStates
<1>3. QueuesShape'
  BY <1>1, <1>2 DEF QueuesShape, LastMove, Unread, Excused
<1>4. ASSUME NEW p \in Packs, PackShape(p) PROVE PackShape(p)'
  <2> SUFFICES ASSUME Settling(p) PROVE PackShape(p)'
    BY <1>1 DEF PackShape, Settling, Unread
  <2>1. /\ retries[p] \in {0, pointer[p]} /\ startRetries[p] \in {0, pointer[p]}
        /\ p = "game" => held \in {0, pointer[p]}
        /\ \A i \in 1..Len(Todo) : Todo[i].pack = p => Todo[i].version = pointer[p]
        /\ ToCome(p, pointer[p])
    BY <1>4 DEF PackShape
  <2>2. mode \in {"loading", "serve", "follow"}
    BY DEF Settling
  <2>3. Todo # <<>> /\ Names(outcome, Todo[1]) /\ 1 \in 1..Len(Todo)
    <3>1. ~Consumed
      BY <1>1 DEF Consumed
    <3>2. Load.stage \in {"applying", "unknown"}
      BY <2>2, <3>1, LoadTyped DEF SwapShape, LoaderShape, Began
    <3>3. Todo # <<>>
      BY <3>2 DEF SwapShape, LoaderShape, IdleLoad
    <3>4. position = Len(swaps)
      BY <1>1 DEF SwapShape, EngineShape
    <3>5. Names(outcome, Head(Todo))
      BY <3>1, <3>2, <3>4 DEF SwapShape, LoaderShape, FlightShape, ContentTypes, EngineTypes
    <3>6. Todo \in Seq(Tasks(pubs))
      BY LoadTyped
    <3> QED BY <3>3, <3>5, <3>6
  <2>4. CASE outcome.result # "applied"
    BY <1>1, <1>2, <2>1, <2>4 DEF PackShape, ToCome, Skewed, Pin
  <2>5. CASE outcome.result = "applied"
    <3>1. serving' = [serving EXCEPT ![q] = outcome.version] /\ serving \in [Packs -> Nat] /\ q \in Packs
      BY <1>1, <2>5, ReportIs DEF ContentTypes, FollowTypes, VersionMaps
    <3>2. CASE p = q
      <4>1. serving'[p] = pointer[p]
        BY <2>1, <2>3, <3>1, <3>2 DEF Names
      <4>2. ToCome(p, pointer[p])'
        BY <1>1, <4>1 DEF ToCome
      <4> QED BY <1>1, <1>2, <2>1, <4>2 DEF PackShape
    <3>3. CASE p # q
      <4>1. serving'[p] = serving[p] /\ (p = "game" => held' = held)
        BY <1>1, <3>1, <3>3
      <4>2. ToCome(p, pointer[p])'
        <5>1. CASE p = "game" /\ held = pointer[p] /\ Skewed("game", pointer[p], serving)
          <6>1. Todo[1].pack = "core" /\ held # 0
            BY <2>3, <3>1, <3>3, <5>1 DEF Names, Packs, Settling
          <6>2. Todo[1].moved
            BY <2>3, <6>1 DEF QueuesShape
          <6> QED BY <1>1, <1>2, <2>3, <4>1, <5>1, <6>1, <6>2 DEF ToCome
        <5>2. CASE ~(p = "game" /\ held = pointer[p] /\ Skewed("game", pointer[p], serving))
          BY <1>1, <1>2, <2>1, <4>1, <5>2 DEF ToCome
        <5> QED BY <5>1, <5>2
      <4> QED BY <1>1, <1>2, <2>1, <4>1, <4>2 DEF PackShape
    <3> QED BY <3>2, <3>3
  <2> QED BY <2>4, <2>5
<1> QED BY <1>1, <1>3, <1>4 DEF PacksShape, Excused

(* A load that returns has settled its version: served, refused for what it is, *)
(* held for a newer core, or to be retried.                                     *)
SettledAs(t) ==
  \/ serving[t.pack] = t.version \/ refused'[t.pack] = t.version
  \/ retries'[t.pack] = t.version \/ startRetries'[t.pack] = t.version
  \/ held' = t.version /\ Skewed(t.pack, t.version, serving)

(* A load returns: what it releases names the held version, and the rest of *)
(* the batch stays.                                                         *)
LEMMA ReturnsQueues ==
  ASSUME ContentTypes, SwapShape, QueuesShape, PacksShape, NEW t, t = Loads("follow"), Todo # <<>>, Returns("follow"), Unmoved,
         UNCHANGED pending, SettledAs(t),
         \A p \in Packs : p # t.pack => retries'[p] = retries[p] /\ startRetries'[p] = startRetries[p] /\ refused'[p] = refused[p],
         retries'[t.pack] \in {retries[t.pack], t.version}, startRetries'[t.pack] \in {startRetries[t.pack], t.version},
         refused'[t.pack] \in {refused[t.pack], t.version},
         mode = "follow" => startRetries' = startRetries, mode # "follow" => retries' = retries,
         held' = held \/ (t.pack = "game" /\ held' = t.version),
         outlived => outlived',
         retries' # retries /\ t.pack = "game" /\ pending["game"] # 0 => outlived'
  PROVE  QueuesShape' /\ PacksShape'
<1>1. UNCHANGED <<pins, mode, moves, pointer, serving>>
  BY DEF Unmoved, storeVars
<1>2. /\ t = Todo[1] /\ t.pack \in Packs /\ t.version \in NumbersOf(pubs, t.pack) /\ pubs \in Nat
      /\ 1 \in 1..Len(Todo) /\ Len(Todo) \in Nat
  BY LoadOf DEF Todo, Loaders
<1>3. held \in NumbersOf(pubs, "game") /\ held' \in NumbersOf(pubs, "game")
  BY <1>2 DEF ContentTypes, FollowTypes
<1>4. mode \in {"loading", "follow"}
  BY DEF SwapShape, LoaderShape, ContentTypes, FollowTypes
<1>5. /\ \A i \in 1..Len(Todo') : \/ \E j \in 2..Len(Todo) : Todo'[i] = Todo[j]
                                  \/ Todo'[i] = Task("game", held', FALSE) /\ Releases(Todo[1], held')
      /\ \A j \in 2..Len(Todo) : \E i \in 1..Len(Todo') : Todo'[i] = Todo[j]
      /\ Releases(Todo[1], held') => \E i \in 1..Len(Todo') : Todo'[i] = Task("game", held', FALSE)
  <2> DEFINE h == held'
  <2>1. h \in NumbersOf(pubs, "game") /\ h = held' /\ loader["reload"] = NoLoader
    BY <1>3 DEF SwapShape, LoaderShape
  <2> HIDE DEF h
  <2>2. /\ \A i \in 1..Len(Todo') : \/ \E j \in 2..Len(Todo) : Todo'[i] = Todo[j]
                                    \/ Todo'[i] = Task("game", h, FALSE) /\ Releases(Todo[1], h)
        /\ \A j \in 2..Len(Todo) : \E i \in 1..Len(Todo') : Todo'[i] = Todo[j]
        /\ Releases(Todo[1], h) => \E i \in 1..Len(Todo') : Todo'[i] = Task("game", h, FALSE)
    BY <2>1, Returned
  <2> QED BY <2>2 DEF h
<1>6. \A i \in 1..Len(Todo') : Todo'[i].pack # "core"
  <2>1. \A j \in 2..Len(Todo) : j \in 1..Len(Todo) /\ j # 1
    BY <1>2
  <2>2. \A j \in 2..Len(Todo) : Todo[j].pack # "core"
    BY <2>1 DEF QueuesShape
  <2> SUFFICES ASSUME NEW i \in 1..Len(Todo') PROVE Todo'[i].pack # "core"
    OBVIOUS
  <2>3. Task("game", held', FALSE).pack = "game"
    BY DEF Task
  <2>4. CASE \E j \in 2..Len(Todo) : Todo'[i] = Todo[j]
    BY <2>2, <2>4
  <2>5. CASE Todo'[i] = Task("game", held', FALSE)
    BY <2>3, <2>5
  <2> QED BY <1>5, <2>4, <2>5
<1>7. QueuesShape'
  <2>1. (mode # "follow" => retries' = NoVersions /\ pending' = NoVersions) /\ (mode = "follow" => startRetries' = NoVersions)
    BY DEF QueuesShape
  <2>2. \A p \in Packs : LastMove(p)' /\ (Unread(p)' <=> Unread(p))
    BY <1>1 DEF QueuesShape, LastMove, Unread
  <2>3. ASSUME NEW p \in Packs, pending'[p] # 0, retries'[p] # 0 PROVE Excused(p)'
    <3>1. CASE retries' = retries
      BY <2>3, <3>1 DEF QueuesShape, Excused
    <3>2. CASE retries' # retries
      <4>1. CASE p = t.pack
        <5>1. t.pack # "core"
          BY <1>2, <2>3, <4>1 DEF QueuesShape
        <5> QED BY <1>2, <2>3, <3>2, <4>1, <5>1 DEF Excused, Packs
      <4>2. CASE p # t.pack
        BY <2>3, <3>2, <4>2 DEF QueuesShape, Excused
      <4> QED BY <4>1, <4>2
    <3> QED BY <3>1, <3>2
  <2>4. \A p \in Packs : ~Unread(p)' /\ pending'[p] # 0 => pending'[p] = pointer'[p]
    BY <1>1, <2>2 DEF QueuesShape
  <2> QED BY <1>1, <1>4, <1>6, <2>1, <2>2, <2>3, <2>4 DEF QueuesShape
<1>8. ASSUME NEW p \in Packs, PackShape(p) PROVE PackShape(p)'
  <2> SUFFICES ASSUME Settling(p)
               PROVE  /\ retries'[p] \in {0, pointer[p]} /\ startRetries'[p] \in {0, pointer[p]}
                      /\ p = "game" => held' \in {0, pointer[p]}
                      /\ \A i \in 1..Len(Todo') : Todo'[i].pack = p => Todo'[i].version = pointer[p]
                      /\ ToCome(p, pointer[p])'
    BY <1>1 DEF PackShape, Settling, Unread
  <2>1. /\ retries[p] \in {0, pointer[p]} /\ startRetries[p] \in {0, pointer[p]}
        /\ p = "game" => held \in {0, pointer[p]}
        /\ \A i \in 1..Len(Todo) : Todo[i].pack = p => Todo[i].version = pointer[p]
        /\ ToCome(p, pointer[p])
    BY <1>8 DEF PackShape
  <2>2. t.pack = p => t.version = pointer[p]
    BY <1>2, <2>1
  <2>3. p = "game" => held' \in {0, pointer[p]}
    BY <2>1, <2>2
  <2>4. retries'[p] \in {0, pointer[p]} /\ startRetries'[p] \in {0, pointer[p]}
    BY <2>1, <2>2
  <2>5. \A i \in 1..Len(Todo') : Todo'[i].pack = p => Todo'[i].version = pointer[p]
    <3>1. \A j \in 2..Len(Todo) : Todo[j].pack = p => Todo[j].version = pointer[p]
      BY <1>2, <2>1
    <3>2. Releases(Todo[1], held') /\ p = "game" => held' = pointer[p]
      BY <2>3 DEF Releases
    <3>3. Task("game", held', FALSE).pack = "game" /\ Task("game", held', FALSE).version = held'
      BY DEF Task
    <3>4. ASSUME NEW i \in 1..Len(Todo'), Todo'[i].pack = p PROVE Todo'[i].version = pointer[p]
      <4>1. CASE \E j \in 2..Len(Todo) : Todo'[i] = Todo[j]
        BY <3>1, <3>4, <4>1
      <4>2. CASE Todo'[i] = Task("game", held', FALSE) /\ Releases(Todo[1], held')
        BY <3>2, <3>3, <3>4, <4>2
      <4> QED BY <1>5, <3>4, <4>1, <4>2
    <3> QED BY <3>4
  <2>6. ToCome(p, pointer[p])'
    <3>1. CASE p = t.pack
      BY <1>1, <2>2, <3>1 DEF SettledAs, ToCome, Skewed, Pin
    <3>2. CASE p # t.pack
      <4>1. CASE serving[p] = pointer[p] \/ refused[p] = pointer[p] \/ retries[p] = pointer[p] \/ startRetries[p] = pointer[p]
        BY <1>1, <3>2, <4>1 DEF ToCome
      <4>2. ASSUME NEW i \in 1..Len(Todo), Todo[i].pack = p PROVE ToCome(p, pointer[p])'
        <5>1. i \in 2..Len(Todo)
          BY <1>2, <3>2, <4>2
        <5> QED BY <1>5, <4>2, <5>1 DEF ToCome
      <4>3. CASE p = "game" /\ held = pointer[p] /\ Skewed("game", pointer[p], serving)
        <5>1. held' = held
          BY <3>2, <4>3
        <5> QED BY <1>1, <4>3, <5>1 DEF ToCome, Skewed, Pin
      <4>4. ASSUME p = "game", held = pointer[p], NEW i \in 1..Len(Todo), Todo[i].pack = "core", Todo[i].moved
            PROVE  ToCome(p, pointer[p])'
        <5>1. i = 1 /\ held' = held /\ held # 0
          BY <3>2, <4>4 DEF QueuesShape, Settling
        <5>2. Releases(Todo[1], held')
          BY <4>4, <5>1 DEF Releases
        <5>3. \E k \in 1..Len(Todo') : Todo'[k].pack = p
          BY <1>5, <4>4, <5>2 DEF Task
        <5> QED BY <5>3 DEF ToCome
      <4> QED BY <2>1, <4>1, <4>2, <4>3, <4>4 DEF ToCome
    <3> QED BY <3>1, <3>2
  <2> QED BY <2>3, <2>4, <2>5, <2>6
<1>9. \A p \in Packs : Excused(p) => Excused(p)'
  BY DEF Excused
<1> QED BY <1>7, <1>8, <1>9 DEF PacksShape

(* A retry is noted with the pack's version, beside what else waits. *)
LEMMA RetriedQueues ==
  ASSUME ContentTypes, SwapShape, QueuesShape, PacksShape, Todo # <<>>, RejectRetried("follow"), Returns("follow"), Unmoved,
         UNCHANGED held
  PROVE  QueuesShape' /\ PacksShape'
<1>0. PICK t : t = Loads("follow")
  OBVIOUS
<1>1. t.pack \in Packs /\ retries \in [Packs -> Nat] /\ startRetries \in [Packs -> Nat] /\ outlived \in BOOLEAN
  BY <1>0, LoadOf DEF Todo, Loaders, ContentTypes, FollowTypes, VersionMaps
<1>2. /\ UNCHANGED <<pending, refused>> /\ outlived' = (outlived \/ (t.pack = "game" /\ pending["game"] # 0))
      /\ IF mode = "follow" THEN retries' = [retries EXCEPT ![t.pack] = t.version] /\ UNCHANGED startRetries
                            ELSE startRetries' = [startRetries EXCEPT ![t.pack] = t.version] /\ UNCHANGED retries
  BY <1>0 DEF RejectRetried
<1>3. SettledAs(t)
  BY <1>1, <1>2 DEF SettledAs
<1>4. /\ \A p \in Packs : p # t.pack => retries'[p] = retries[p] /\ startRetries'[p] = startRetries[p] /\ refused'[p] = refused[p]
      /\ retries'[t.pack] \in {retries[t.pack], t.version} /\ startRetries'[t.pack] \in {startRetries[t.pack], t.version}
      /\ refused'[t.pack] \in {refused[t.pack], t.version}
      /\ mode = "follow" => startRetries' = startRetries
      /\ mode # "follow" => retries' = retries
  BY <1>1, <1>2
<1>5. (outlived => outlived') /\ (t.pack = "game" /\ pending["game"] # 0 => outlived')
  BY <1>2
<1> QED BY <1>0, <1>2, <1>3, <1>4, <1>5, ReturnsQueues

(* Every step of a load of Follow, but a wait that ends before the answer. *)
LEMMA LoadQueues ==
  ASSUME ContentTypes, SwapShape, QueuesShape, PacksShape, LoadStep("follow"), ~WaitEnds("follow")
  PROVE  QueuesShape' /\ PacksShape'
<1>0. PICK t : t = Loads("follow")
  OBVIOUS
<1>1. Todo # <<>> /\ Unmoved /\ UNCHANGED pending
  BY DEF LoadStep, LoadSettled, LoadUnreadable, LoadRefused, Evaluate, Produced, NotProduced, Answered, NeverWritten,
         Loading, Todo, RejectRetried, followVars
<1>2. t = Head(Todo) /\ t.pack \in Packs /\ refused \in [Packs -> Nat] /\ loader \in [Loaders -> LoaderStates(pubs)]
  BY <1>0, <1>1, LoadOf, LoadTyped DEF Todo, Loaders, ContentTypes, FollowTypes, VersionMaps, Loads
<1>3. ASSUME UNCHANGED <<held, refused, followVars>>, Todo' = Todo PROVE QueuesShape' /\ PacksShape'
  BY <1>1, <1>3, QueuesSame DEF Unmoved, storeVars, followVars
<1>4. ASSUME UNCHANGED <<held, refused, followVars>>, Returns("follow"), serving[t.pack] = t.version
      PROVE  QueuesShape' /\ PacksShape'
  <2>1. SettledAs(t) /\ UNCHANGED <<retries, startRetries, outlived>>
    BY <1>4 DEF SettledAs, followVars
  <2> QED BY <1>0, <1>1, <1>4, <2>1, ReturnsQueues
<1>5. CASE LoadSettled("follow")
  BY <1>0, <1>4, <1>5 DEF LoadSettled
<1>6. CASE LoadUnreadable("follow")
  BY <1>1, <1>6, RetriedQueues DEF LoadUnreadable
<1>7. CASE LoadRefused("follow")
  <2>1. UNCHANGED <<retries, startRetries, outlived>> /\ Returns("follow")
    BY <1>7 DEF LoadRefused, followVars
  <2>2. CASE Skewed(t.pack, t.version, serving)
    <3>1. held' = t.version /\ t.pack = "game" /\ UNCHANGED refused
      BY <1>0, <1>7, <2>2 DEF LoadRefused, Skewed
    <3>2. SettledAs(t)
      BY <2>2, <3>1 DEF SettledAs
    <3> QED BY <1>0, <1>1, <2>1, <3>1, <3>2, ReturnsQueues
  <2>3. CASE ~Skewed(t.pack, t.version, serving)
    <3>1. held' = held /\ refused' = [refused EXCEPT ![t.pack] = t.version]
      BY <1>0, <1>7, <2>3 DEF LoadRefused
    <3>2. refused'[t.pack] = t.version /\ \A p \in Packs : p # t.pack => refused'[p] = refused[p]
      BY <1>2, <3>1
    <3>3. SettledAs(t)
      BY <3>2 DEF SettledAs
    <3> QED BY <1>0, <1>1, <2>1, <3>1, <3>2, <3>3, ReturnsQueues
  <2> QED BY <2>2, <2>3
<1>8. CASE Evaluate("follow")
  <2>1. Todo' = Todo
    BY <1>2, <1>8 DEF Evaluate, Todo, Loaders, LoaderStates
  <2> QED BY <1>3, <1>8, <2>1 DEF Evaluate
<1>9. CASE Produced("follow")
  <2>1. Todo' = Todo
    BY <1>2, <1>9 DEF Produced, Todo, Loaders, LoaderStates
  <2> QED BY <1>3, <1>9, <2>1 DEF Produced
<1>10. CASE NotProduced("follow")
  <2>1. CASE UNCHANGED held /\ RejectRetried("follow") /\ Returns("follow")
    BY <1>1, <2>1, RetriedQueues
  <2>2. CASE UNCHANGED <<held, refused, followVars>> /\ loader' = [loader EXCEPT !["follow"].load.stage = "unknown"]
    <3>1. Todo' = Todo
      BY <1>2, <2>2 DEF Todo, Loaders, LoaderStates
    <3> QED BY <1>3, <2>2, <3>1
  <2> QED BY <1>10, <2>1, <2>2 DEF NotProduced
<1>11. CASE Answered("follow")
  <2> DEFINE again == Load.verdict = "stale" /\ Load.attempt + 1 < StaleRetries
  <2>1. UNCHANGED held /\ Load.verdict # "none" /\ Load.stage \in {"applying", "unknown"}
    BY <1>11 DEF Answered, Loading, Load
  <2>2. CASE again
    <3>1. UNCHANGED <<followVars, refused>> /\ loader' = [loader EXCEPT !["follow"].load = [IdleLoad EXCEPT !.attempt = Load.attempt + 1]]
      BY <1>11, <2>2 DEF Answered, Load
    <3>2. Todo' = Todo
      BY <1>2, <3>1 DEF Todo, Loaders, LoaderStates
    <3> QED BY <1>3, <2>1, <3>1, <3>2
  <2>3. CASE Load.verdict = "stale" /\ ~again
    BY <1>1, <1>11, <2>1, <2>3, RetriedQueues DEF Answered, Load
  <2>4. CASE Load.verdict # "stale"
    <3>1. Returns("follow") /\ UNCHANGED <<followVars, refused>>
      BY <1>11, <2>4 DEF Answered, Load
    <3>2. Load.verdict = "applied"
      BY <2>1, <2>4, LoadTyped
    <3>3. serving[t.pack] = t.version
      BY <1>2, <2>1, <3>2 DEF SwapShape, LoaderShape, FlightShape
    <3> QED BY <1>4, <2>1, <3>1, <3>3
  <2> QED BY <2>2, <2>3, <2>4
<1>12. CASE NeverWritten("follow")
  BY <1>1, <1>12, RetriedQueues DEF NeverWritten
<1> QED BY <1>5, <1>6, <1>7, <1>8, <1>9, <1>10, <1>11, <1>12 DEF LoadStep

(* ------------------------------ the invariant ------------------------------ *)

ContentInv == ContentTypes /\ (Undisturbed => SwapShape /\ QueuesShape /\ PacksShape)

(* The invariant of the content loader, at the start ... *)
LEMMA ContentInvInit == ContentInit => ContentInv
BY ContentInitTypes, ContentInitShape, ContentInitQueues DEF ContentInv, PacksShape

(* No step of an undisturbed behaviour loses the version a pointer names. *)
LEMMA QueuesStep ==
  ASSUME ContentTypes, SwapShape, QueuesShape, PacksShape, CalmNext \/ UNCHANGED contentVars
  PROVE  QueuesShape' /\ PacksShape'
<1>1. ASSUME UNCHANGED contentVars \/ StepSwap
             \/ \E p \in Packs, v \in 1..(MaxCore + MaxVersions) : CheckActivation(p, v)
      PROVE  QueuesShape' /\ PacksShape'
  <2>1. Todo' = Todo /\ UNCHANGED <<pins, mode, moves, pending, pointer, retries, startRetries, held, serving, refused, outlived>>
    BY <1>1 DEF contentVars, StepSwap, CheckActivation, Unmoved, storeVars, followVars, Todo
  <2> QED BY <2>1, QueuesSame
<1> QED BY <1>1, PublishQueues, MoveQueues, BootQueues, ReconcileQueues, ServeQueues, StartQueues, RestartQueues, ReadQueues,
           DebouncedQueues, RetryQueues, ReportQueues, LoadQueues, ZenonT(40) DEF CalmNext

(* ... after every step ... *)
LEMMA ContentInvStep == ASSUME ContentInv, [ContentNext]_contentVars PROVE ContentInv'
<1>1. ContentTypes /\ ContentTypes'
  BY ContentTypesStep DEF ContentInv
<1>2. ASSUME Undisturbed' PROVE SwapShape' /\ QueuesShape' /\ PacksShape'
  <2>1. Undisturbed
    BY <1>1, <1>2, CalmBefore
  <2>2. SwapShape /\ QueuesShape /\ PacksShape
    BY <2>1 DEF ContentInv
  <2>3. CalmNext \/ UNCHANGED contentVars
    BY <1>1, <1>2, <2>2, CalmStep
  <2> QED BY <1>1, <2>2, <2>3, SwapShapeStep, QueuesStep
<1> QED BY <1>1, <1>2 DEF ContentInv

(* ... and what it says of what is in effect and of the pointers. *)
LEMMA ContentInvSafe == ContentInv => CoherentUndisturbed /\ PointersServed
<1> SUFFICES ASSUME ContentInv PROVE CoherentUndisturbed /\ PointersServed
  OBVIOUS
<1>1. CoherentUndisturbed
  BY SwapShapeCoheres DEF ContentInv, CoherentUndisturbed
<1>2. PointersServed
  <2> SUFFICES ASSUME LoaderQuiet, NEW p \in Packs, ~Excused(p) PROVE PointerServed(p)
    BY DEF PointersServed, Excused, Packs
  <2>1. QueuesShape /\ PackShape(p) /\ mode = "follow" /\ moves = <<>> /\ pending = NoVersions /\ retries = NoVersions
        /\ Todo = <<>>
    BY DEF LoaderQuiet, ContentInv, PacksShape, Idle, Todo, Loaders
  <2>2. startRetries = NoVersions /\ Len(Todo) = 0 /\ ~Unread(p)
    BY <2>1 DEF QueuesShape, Unread
  <2>3. pointer[p] # 0 => ToCome(p, pointer[p])
    BY <2>1, <2>2 DEF PackShape, Settling, NoVersions
  <2>4. CASE pointer[p] = 0
    BY <2>4 DEF PointerServed
  <2>5. CASE pointer[p] # 0
    <3>1. retries[p] # pointer[p] /\ startRetries[p] # pointer[p] /\ \A i \in 1..Len(Todo) : FALSE
      BY <2>1, <2>2, <2>5 DEF NoVersions
    <3> QED BY <2>3, <2>5, <3>1 DEF ToCome, PointerServed
  <2> QED BY <2>4, <2>5
<1> QED BY <1>1, <1>2

--------------------------------------------------------------------------------
(* The genesis of a World whose content is a directory. *)

(* What is in effect is the first record of a World Partition that the tick     *)
(* loop has passed a record of, and what has been served is in effect.          *)
GenesisShape ==
  /\ step.at <= Len(genesisLog)
  /\ Up => (step.at > 0 <=> step.rev # 0)
  /\ step.rev # 0 => Len(genesisLog) > 0 /\ step.rev = genesisLog[1]
  /\ dirState.applied => dirState.inEffect
  /\ dirState.inEffect => step.rev # 0
  /\ genesis.pc = "serving" => dirState.inEffect
  /\ genesis.pc \in {"produce", "settling"} => genesis.digest \in Revs

(* Until the files are edited, there is one revision.                           *)
GenesisUnedited ==
  dir.edits = 0 =>
    /\ \A i \in 1..Len(genesisLog) : genesisLog[i] = dir.rev
    /\ \A rev \in inflight : rev = dir.rev
    /\ genesis.digest \in {0, dir.rev}
    /\ dirState.inEffect => dirState.zones = DirRevs[dir.rev]

GenesisInv == GenesisTypeOK /\ GenesisShape /\ GenesisUnedited

(* A World that has not begun. *)
LEMMA GenesisInvInit == GenesisInit => GenesisInv
<1> SUFFICES ASSUME GenesisInit PROVE GenesisInv
  OBVIOUS
<1>1. GenesisTypeOK
  <2>1. dir \in [rev : Revs, edits : 0..MaxDirEdits] /\ kills \in 0..MaxKills
    BY GenesisAssumption DEF GenesisInit
  <2>2. genesisLog \in Seq(Revs) /\ Len(genesisLog) = 0
    BY DEF GenesisInit
  <2>3. step \in [at : 0..MaxGenesis, rev : Revs \union {0}, frozen : BOOLEAN]
    BY GenesisAssumption DEF GenesisInit
  <2> QED BY <2>1, <2>2, <2>3, GenesisAssumption DEF GenesisInit, GenesisTypeOK, GenesisStages
<1>2. GenesisShape
  BY GenesisAssumption DEF GenesisInit, GenesisShape, Up
<1>3. GenesisUnedited
  BY DEF GenesisInit, GenesisUnedited
<1> QED BY <1>1, <1>2, <1>3 DEF GenesisInv

(* The World Partition with one more record.                                    *)
LEMMA GenesisAppends ==
  ASSUME GenesisTypeOK, NEW rev \in Revs, Len(genesisLog) < MaxGenesis, genesisLog' = Append(genesisLog, rev)
  PROVE  /\ genesisLog' \in Seq(Revs) /\ Len(genesisLog') = Len(genesisLog) + 1 /\ Len(genesisLog') <= MaxGenesis
         /\ \A i \in 1..Len(genesisLog) : genesisLog'[i] = genesisLog[i]
         /\ genesisLog'[Len(genesisLog')] = rev
<1> DEFINE s == genesisLog
<1>1. s \in Seq(Revs) /\ genesisLog' = Append(s, rev) /\ Len(s) < MaxGenesis
  BY DEF GenesisTypeOK
<1>2. Len(s) \in Nat
  BY <1>1
<1> HIDE DEF s
<1>3. /\ Append(s, rev) \in Seq(Revs) /\ Len(Append(s, rev)) = Len(s) + 1
      /\ \A i \in 1..Len(s) : Append(s, rev)[i] = s[i]
      /\ Append(s, rev)[Len(s) + 1] = rev
  BY <1>1
<1> QED BY <1>1, <1>2, <1>3, GenesisAssumption DEF s

(* A record that lands beside the tick loop.                                    *)
LEMMA GenesisLands ==
  ASSUME GenesisInv, NEW rev \in Revs, Len(genesisLog) < MaxGenesis, genesisLog' = Append(genesisLog, rev),
         dir.edits = 0 => rev = dir.rev, UNCHANGED <<dir, step, dirState, kills>>,
         genesis' \in [pc : GenesisStages, digest : Revs \union {0}], genesis'.digest = genesis.digest,
         Up' => Up, genesis'.pc = "serving" => genesis.pc = "serving",
         genesis'.pc \in {"produce", "settling"} => genesis.digest \in Revs,
         inflight' \in SUBSET inflight
  PROVE  GenesisInv'
<1>1. /\ genesisLog' \in Seq(Revs) /\ Len(genesisLog') = Len(genesisLog) + 1 /\ Len(genesisLog') <= MaxGenesis
      /\ \A i \in 1..Len(genesisLog) : genesisLog'[i] = genesisLog[i]
      /\ genesisLog'[Len(genesisLog')] = rev
  BY GenesisAppends DEF GenesisInv
<1>2. Len(genesisLog) \in Nat /\ step.at \in Nat
  BY GenesisAssumption DEF GenesisInv, GenesisTypeOK
<1>3. GenesisTypeOK'
  BY <1>1 DEF GenesisInv, GenesisTypeOK
<1>4. GenesisShape'
  <2>1. step'.rev # 0 => Len(genesisLog') > 0 /\ step'.rev = genesisLog'[1]
    <3>1. CASE step.rev = 0
      BY <3>1
    <3>2. CASE step.rev # 0
      <4>1. Len(genesisLog) > 0 /\ step.rev = genesisLog[1] /\ 1 \in 1..Len(genesisLog)
        BY <1>2, <3>2 DEF GenesisInv, GenesisShape
      <4> QED BY <1>1, <1>2, <4>1
    <3> QED BY <3>1, <3>2
  <2>2. step'.at <= Len(genesisLog')
    BY <1>1, <1>2 DEF GenesisInv, GenesisShape
  <2>3. Up' => (step'.at > 0 <=> step'.rev # 0)
    BY DEF GenesisInv, GenesisShape
  <2> QED BY <2>1, <2>2, <2>3 DEF GenesisInv, GenesisShape
<1>5. GenesisUnedited'
  <2> SUFFICES ASSUME dir.edits = 0 PROVE GenesisUnedited'
    BY DEF GenesisUnedited
  <2>1. ASSUME NEW i \in 1..Len(genesisLog') PROVE genesisLog'[i] = dir.rev
    <3>1. CASE i = Len(genesisLog')
      BY <1>1, <3>1
    <3>2. CASE i # Len(genesisLog')
      <4>1. i \in 1..Len(genesisLog)
        BY <1>1, <1>2, <3>2
      <4> QED BY <1>1, <4>1 DEF GenesisInv, GenesisUnedited
    <3> QED BY <3>1, <3>2
  <2> QED BY <2>1 DEF GenesisInv, GenesisUnedited
<1> QED BY <1>3, <1>4, <1>5 DEF GenesisInv

(* A step of Reconcile, or a death, that leaves the log and the tick loop.      *)
LEMMA GenesisGoes ==
  ASSUME GenesisInv, UNCHANGED <<dir, genesisLog, step>>, kills' \in 0..MaxKills,
         genesis' \in [pc : GenesisStages, digest : Revs \union {0}],
         genesis'.digest = genesis.digest \/ genesis'.digest = dir.rev,
         Up' => Up, genesis'.pc = "serving" => dirState.inEffect,
         genesis'.pc \in {"produce", "settling"} => genesis'.digest \in Revs,
         inflight' \in SUBSET Revs, \A rev \in inflight' : rev \in inflight \/ rev = genesis.digest,
         dirState' \in [inEffect : BOOLEAN, zones : {{}} \union {DirRevs[r] : r \in Revs}, applied : BOOLEAN, refused : BOOLEAN],
         dirState'.inEffect = dirState.inEffect, dirState'.applied = dirState.applied,
         dirState'.zones = dirState.zones \/ dirState'.zones = DirRevs[dir.rev]
  PROVE  GenesisInv'
<1>1. GenesisTypeOK'
  BY DEF GenesisInv, GenesisTypeOK
<1>2. GenesisShape'
  BY DEF GenesisInv, GenesisShape
<1>3. GenesisUnedited'
  <2> SUFFICES ASSUME dir.edits = 0 PROVE GenesisUnedited'
    BY DEF GenesisUnedited
  <2>1. \A rev \in inflight' : rev = dir.rev
    <3> SUFFICES ASSUME NEW rev \in inflight' PROVE rev = dir.rev
      OBVIOUS
    <3>1. rev \in Revs /\ rev # 0
      BY GenesisAssumption DEF Revs
    <3> QED BY <3>1 DEF GenesisInv, GenesisUnedited
  <2> QED BY <2>1 DEF GenesisInv, GenesisUnedited
<1> QED BY <1>1, <1>2, <1>3 DEF GenesisInv

(* The tick loop takes a swap: the first record is applied, each later one is *)
(* stale, and one the directory does not build freezes it.                    *)
LEMMA TickKeepsGenesis == ASSUME GenesisInv, TickApplies PROVE GenesisInv'
<1> DEFINE rev == genesisLog[step.at + 1]
           dirTypes == [inEffect : BOOLEAN, zones : {{}} \union {DirRevs[r] : r \in Revs}, applied : BOOLEAN, refused : BOOLEAN]
           stepTypes == [at : 0..MaxGenesis, rev : Revs \union {0}, frozen : BOOLEAN]
<1>1. /\ Up /\ ~step.frozen /\ step.at < Len(genesisLog) /\ UNCHANGED <<dir, genesisLog, inflight, genesis, kills>>
      /\ step \in stepTypes /\ dirState \in dirTypes /\ dir.rev \in Revs /\ genesisLog \in Seq(Revs)
      /\ Len(genesisLog) <= MaxGenesis /\ Len(genesisLog) \in Nat /\ step.at \in Nat
  BY GenesisAssumption DEF TickApplies, GenesisInv, GenesisTypeOK
<1>2. step.at + 1 \in 1..Len(genesisLog) /\ step.at + 1 \in 0..MaxGenesis /\ step.at + 1 > 0 /\ 1 \in 1..Len(genesisLog)
  BY <1>1, GenesisAssumption
<1>3. rev \in Revs /\ rev # 0
  BY <1>1, <1>2, GenesisAssumption DEF Revs
<1>4. Up' /\ genesis' = genesis
  BY <1>1 DEF Up
<1>5. CASE step' = [step EXCEPT !.at = @ + 1] /\ dirState' = DirRefused /\ StaleBase(rev)
  <2>1. step' \in stepTypes /\ step'.at = step.at + 1 /\ step'.rev = step.rev /\ step.rev # 0
    BY <1>1, <1>2, <1>5 DEF StaleBase
  <2>2. dirState' \in dirTypes /\ dirState'.inEffect = dirState.inEffect /\ dirState'.applied = dirState.applied
        /\ dirState'.zones = dirState.zones
    BY <1>1, <1>5 DEF DirRefused
  <2>3. GenesisTypeOK'
    BY <1>1, <2>1, <2>2 DEF GenesisInv, GenesisTypeOK
  <2>4. GenesisShape'
    BY <1>1, <1>2, <2>1, <2>2 DEF GenesisInv, GenesisShape, Up
  <2>5. GenesisUnedited'
    BY <1>1, <2>2 DEF GenesisInv, GenesisUnedited
  <2> QED BY <2>3, <2>4, <2>5 DEF GenesisInv
<1>6. CASE step' = [step EXCEPT !.at = @ + 1, !.rev = rev] /\ dirState' = DirApplied(rev) /\ ~StaleBase(rev)
  <2>1. step' \in stepTypes /\ step'.at = step.at + 1 /\ step'.rev = rev /\ step.rev = 0
    BY <1>1, <1>2, <1>3, <1>6 DEF StaleBase
  <2>2. dirState' \in dirTypes /\ dirState'.inEffect /\ dirState'.zones = DirRevs[dir.rev]
    BY <1>1, <1>6 DEF DirApplied
  <2>3. step.at = 0 /\ rev = genesisLog[1]
    BY <1>1, <2>1 DEF GenesisInv, GenesisShape
  <2>4. GenesisTypeOK'
    BY <1>1, <2>1, <2>2 DEF GenesisInv, GenesisTypeOK
  <2>5. GenesisShape'
    BY <1>1, <1>2, <1>3, <2>1, <2>2, <2>3 DEF GenesisInv, GenesisShape, Up
  <2>6. GenesisUnedited'
    BY <1>1, <2>2 DEF GenesisInv, GenesisUnedited
  <2> QED BY <2>4, <2>5, <2>6 DEF GenesisInv
<1>7. CASE step' = [step EXCEPT !.frozen = TRUE] /\ dirState' = [dirState EXCEPT !.zones = DirRevs[dir.rev]]
  <2>1. step' \in stepTypes /\ step'.at = step.at /\ step'.rev = step.rev
    BY <1>1, <1>7
  <2>2. dirState' \in dirTypes /\ dirState'.inEffect = dirState.inEffect /\ dirState'.applied = dirState.applied
        /\ dirState'.zones = DirRevs[dir.rev]
    BY <1>1, <1>7
  <2>3. GenesisTypeOK'
    BY <1>1, <2>1, <2>2 DEF GenesisInv, GenesisTypeOK
  <2>4. GenesisShape'
    BY <1>1, <1>4, <2>1, <2>2 DEF GenesisInv, GenesisShape
  <2>5. GenesisUnedited'
    BY <1>1, <2>2 DEF GenesisInv, GenesisUnedited
  <2> QED BY <2>3, <2>4, <2>5 DEF GenesisInv
<1> QED BY <1>5, <1>6, <1>7 DEF TickApplies

(* A boot replays to a boundary of the dead process, over the directory as it *)
(* is now.                                                                    *)
LEMMA BootKeepsGenesis == ASSUME GenesisInv, NEW upTo \in 0..MaxGenesis, BootDir(upTo) PROVE GenesisInv'
<1> DEFINE fits == upTo = 0 \/ Prepares(genesisLog[1])
           first == IF upTo = 0 THEN 0 ELSE genesisLog[1]
<1>0. PICK r : r = first
  OBVIOUS
<1>1. /\ genesis.pc = "down" /\ upTo \in 0..step.at /\ UNCHANGED <<dir, genesisLog, inflight, kills>>
      /\ step' = [at |-> upTo, rev |-> IF fits THEN r ELSE 0, frozen |-> FALSE]
      /\ dirState' = [inEffect |-> fits /\ upTo > 0, applied |-> fits /\ upTo > 0,
                      zones |-> IF upTo > 0 THEN DirRevs[dir.rev] ELSE {}, refused |-> FALSE]
      /\ genesis' = [pc |-> IF fits THEN "start" ELSE "failed", digest |-> 0]
  <2>1. CASE upTo = 0
    BY <1>0, <2>1 DEF BootDir
  <2>2. CASE upTo # 0
    BY <1>0, <2>2 DEF BootDir
  <2> QED BY <2>1, <2>2
<1>2. /\ genesisLog \in Seq(Revs) /\ Len(genesisLog) \in Nat /\ step.at \in Nat /\ step.at <= Len(genesisLog)
      /\ upTo \in Nat /\ upTo <= Len(genesisLog) /\ dir.rev \in Revs
  BY <1>1, GenesisAssumption DEF GenesisInv, GenesisTypeOK, GenesisShape
<1>3. upTo # 0 => upTo > 0 /\ Len(genesisLog) > 0 /\ 1 \in 1..Len(genesisLog)
  BY <1>2
<1>4. /\ r \in Revs \union {0} /\ (upTo # 0 => r = genesisLog[1] /\ r \in Revs /\ r # 0) /\ (upTo = 0 => r = 0)
  BY <1>0, <1>2, <1>3, GenesisAssumption DEF Revs
<1> HIDE DEF fits, first
<1>5. /\ step'.at = upTo /\ (fits => step'.rev = r) /\ (~fits => step'.rev = 0)
      /\ (dirState'.inEffect <=> fits /\ upTo > 0) /\ (dirState'.applied <=> fits /\ upTo > 0)
      /\ genesis'.digest = 0 /\ genesis'.pc \in {"start", "failed"} /\ (genesis'.pc # "failed" => fits)
      /\ (upTo > 0 => dirState'.zones = DirRevs[dir.rev])
  BY <1>1
<1>6. GenesisTypeOK'
  <2>1. step' \in [at : 0..MaxGenesis, rev : Revs \union {0}, frozen : BOOLEAN]
    BY <1>1, <1>4
  <2>2. dirState' \in [inEffect : BOOLEAN, zones : {{}} \union {DirRevs[x] : x \in Revs}, applied : BOOLEAN, refused : BOOLEAN]
    <3>1. PICK b \in BOOLEAN : b = (fits /\ upTo > 0)
      OBVIOUS
    <3> QED BY <1>1, <1>2, <3>1
  <2>3. genesis' \in [pc : GenesisStages, digest : Revs \union {0}]
    BY <1>1 DEF GenesisStages
  <2> QED BY <1>1, <2>1, <2>2, <2>3 DEF GenesisInv, GenesisTypeOK
<1>7. GenesisShape'
  <2>1. Up' => (step'.at > 0 <=> step'.rev # 0)
    BY <1>2, <1>3, <1>4, <1>5 DEF Up
  <2>2. step'.at <= Len(genesisLog')
    BY <1>1, <1>2, <1>5
  <2>3. step'.rev # 0 => Len(genesisLog') > 0 /\ step'.rev = genesisLog'[1]
    BY <1>1, <1>3, <1>4, <1>5
  <2>4. dirState'.inEffect => step'.rev # 0
    BY <1>2, <1>4, <1>5
  <2> QED BY <1>5, <2>1, <2>2, <2>3, <2>4 DEF GenesisShape
<1>8. GenesisUnedited'
  BY <1>1, <1>5 DEF GenesisInv, GenesisUnedited
<1> QED BY <1>6, <1>7, <1>8 DEF GenesisInv

(* Reconcile, from its barrier to the end of its wait, and a death. *)
LEMMA ReconcileKeepsGenesis ==
  ASSUME GenesisInv, ReconcileBegins \/ BarrierEnds \/ ReconcilePrepares \/ PendingSettles \/ GenesisWaitEnds \/ Kill
  PROVE  GenesisInv'
<1> DEFINE dirTypes == [inEffect : BOOLEAN, zones : {{}} \union {DirRevs[r] : r \in Revs}, applied : BOOLEAN, refused : BOOLEAN]
           stages == [pc : GenesisStages, digest : Revs \union {0}]
<1>1. /\ genesis \in stages /\ dirState \in dirTypes /\ dir.rev \in Revs /\ inflight \in SUBSET Revs /\ kills \in 0..MaxKills
      /\ (dirState.applied => dirState.inEffect) /\ (genesis.pc \in {"produce", "settling"} => genesis.digest \in Revs)
  BY DEF GenesisInv, GenesisTypeOK, GenesisShape
<1>2. CASE ReconcileBegins
  <2>1. genesis' \in stages /\ genesis'.digest = genesis.digest /\ genesis'.pc \in {"serving", "barrier"}
        /\ (genesis'.pc = "serving" => dirState.inEffect) /\ Up
    BY <1>1, <1>2 DEF ReconcileBegins, Goes, GenesisStages, Up
  <2> QED BY <1>1, <1>2, <2>1, GenesisGoes DEF ReconcileBegins
<1>3. CASE BarrierEnds
  <2>1. genesis' \in stages /\ genesis'.digest = genesis.digest /\ genesis'.pc \in {"serving", "prepare"}
        /\ (genesis'.pc = "serving" => dirState.inEffect) /\ Up
    BY <1>1, <1>3 DEF BarrierEnds, Goes, GenesisStages, Up
  <2> QED BY <1>1, <1>3, <2>1, GenesisGoes DEF BarrierEnds
<1>4. CASE ReconcilePrepares
  <2>1. genesis' \in stages /\ genesis'.digest = dir.rev /\ genesis'.pc \in {"produce", "failed"} /\ Up
    BY <1>1, <1>4 DEF ReconcilePrepares, GenesisStages, Up
  <2>2. dirState' \in dirTypes /\ dirState'.inEffect = dirState.inEffect /\ dirState'.applied = dirState.applied
        /\ dirState'.zones = DirRevs[dir.rev]
    BY <1>1, <1>4 DEF ReconcilePrepares
  <2> QED BY <1>1, <1>4, <2>1, <2>2, GenesisGoes DEF ReconcilePrepares
<1>5. CASE PendingSettles
  <2>1. genesis' \in stages /\ genesis'.digest = genesis.digest /\ genesis'.pc \in {"failed", "waiting"} /\ Up
        /\ inflight' \in SUBSET inflight
    BY <1>1, <1>5 DEF PendingSettles, Goes, GenesisStages, Up
  <2> QED BY <1>1, <1>5, <2>1, GenesisGoes DEF PendingSettles
<1>6. CASE GenesisWaitEnds
  <2>1. genesis' \in stages /\ genesis'.digest = genesis.digest /\ genesis'.pc \in {"failed", "serving"} /\ Up
        /\ (genesis'.pc = "serving" => dirState.applied)
    BY <1>1, <1>6 DEF GenesisWaitEnds, Goes, GenesisStages, Up
  <2>2. dirState' \in dirTypes /\ dirState'.inEffect = dirState.inEffect /\ dirState'.applied = dirState.applied
        /\ dirState'.zones = dirState.zones
    BY <1>1, <1>6 DEF GenesisWaitEnds
  <2> QED BY <1>1, <1>6, <2>1, <2>2, GenesisGoes DEF GenesisWaitEnds
<1>7. CASE Kill
  <2>1. genesis' \in stages /\ genesis'.digest = genesis.digest /\ genesis'.pc = "down" /\ ~Up'
    BY <1>1, <1>7 DEF Kill, Goes, GenesisStages, Up
  <2>2. kills' \in 0..MaxKills
    BY <1>1, <1>7, GenesisAssumption DEF Kill
  <2> QED BY <1>1, <1>7, <2>1, <2>2, GenesisGoes DEF Kill
<1> QED BY <1>2, <1>3, <1>4, <1>5, <1>6, <1>7

(* Reconcile produces its swap: written, refused, or on its way. *)
LEMMA ProduceKeepsGenesis == ASSUME GenesisInv, ReconcileProduces PROVE GenesisInv'
<1> DEFINE stages == [pc : GenesisStages, digest : Revs \union {0}]
<1>1. /\ genesis \in stages /\ genesis.digest \in Revs /\ inflight \in SUBSET Revs /\ kills \in 0..MaxKills /\ Up
      /\ genesis.pc = "produce"
  BY DEF GenesisInv, GenesisTypeOK, GenesisShape, ReconcileProduces, Up
<1>2. dir.edits = 0 => genesis.digest = dir.rev
  BY <1>1, GenesisAssumption DEF GenesisInv, GenesisUnedited, Revs
<1>3. dirState \in [inEffect : BOOLEAN, zones : {{}} \union {DirRevs[r] : r \in Revs}, applied : BOOLEAN, refused : BOOLEAN]
  BY DEF GenesisInv, GenesisTypeOK
<1>4. CASE genesisLog' = Append(genesisLog, genesis.digest) /\ Goes("waiting") /\ UNCHANGED inflight
  <2>1. genesis' \in stages /\ genesis'.digest = genesis.digest /\ genesis'.pc = "waiting"
    BY <1>1, <1>4 DEF Goes, GenesisStages
  <2> QED BY <1>1, <1>2, <1>4, <2>1, GenesisLands DEF ReconcileProduces
<1>5. CASE Goes("failed") /\ UNCHANGED <<genesisLog, inflight>>
  <2>1. genesis' \in stages /\ genesis'.digest = genesis.digest /\ genesis'.pc = "failed"
    BY <1>1, <1>5 DEF Goes, GenesisStages
  <2> QED BY <1>1, <1>3, <1>5, <2>1, GenesisGoes DEF ReconcileProduces
<1>6. CASE inflight' = inflight \union {genesis.digest} /\ Goes("settling") /\ UNCHANGED genesisLog
  <2>1. genesis' \in stages /\ genesis'.digest = genesis.digest /\ genesis'.pc = "settling"
    BY <1>1, <1>6 DEF Goes, GenesisStages
  <2> QED BY <1>1, <1>3, <1>6, <2>1, GenesisGoes DEF ReconcileProduces
<1> QED BY <1>4, <1>5, <1>6 DEF ReconcileProduces

(* A swap lands late or is lost, and the author edits the files. *)
LEMMA OutsideKeepsGenesis ==
  ASSUME GenesisInv, NEW rev \in Revs, InflightLands(rev) \/ InflightLost(rev) \/ EditDir(rev)
  PROVE  GenesisInv'
<1>1. /\ genesis \in [pc : GenesisStages, digest : Revs \union {0}] /\ kills \in 0..MaxKills /\ inflight \in SUBSET Revs
      /\ dirState \in [inEffect : BOOLEAN, zones : {{}} \union {DirRevs[r] : r \in Revs}, applied : BOOLEAN, refused : BOOLEAN]
      /\ (genesis.pc \in {"produce", "settling"} => genesis.digest \in Revs) /\ (genesis.pc = "serving" => dirState.inEffect)
  BY DEF GenesisInv, GenesisTypeOK, GenesisShape
<1>2. CASE InflightLands(rev)
  <2>1. dir.edits = 0 => rev = dir.rev
    BY <1>2 DEF InflightLands, GenesisInv, GenesisUnedited
  <2>2. genesis' = genesis /\ (Up' => Up) /\ inflight' \in SUBSET inflight
    BY <1>2 DEF InflightLands, Up
  <2> QED BY <1>1, <1>2, <2>1, <2>2, GenesisLands DEF InflightLands
<1>3. CASE InflightLost(rev)
  <2>1. genesis' = genesis /\ (Up' => Up) /\ inflight' \in SUBSET inflight
    BY <1>3 DEF InflightLost, Up
  <2> QED BY <1>1, <1>3, <2>1, GenesisGoes DEF InflightLost
<1>4. CASE EditDir(rev)
  <2>1. dir' \in [rev : Revs, edits : 0..MaxDirEdits] /\ dir'.edits # 0
    BY <1>4, GenesisAssumption DEF EditDir, GenesisInv, GenesisTypeOK
  <2>2. GenesisTypeOK'
    BY <1>4, <2>1 DEF EditDir, GenesisInv, GenesisTypeOK
  <2>3. GenesisShape'
    BY <1>4 DEF EditDir, GenesisInv, GenesisShape, Up
  <2>4. GenesisUnedited'
    BY <2>1 DEF GenesisUnedited
  <2> QED BY <2>2, <2>3, <2>4 DEF GenesisInv
<1> QED BY <1>2, <1>3, <1>4

(* Every step keeps the invariant. *)
LEMMA GenesisInvStep == ASSUME GenesisInv, [GenesisNext]_genesisVars PROVE GenesisInv'
<1>1. CASE UNCHANGED genesisVars
  <2>1. GenesisTypeOK'
    BY <1>1 DEF genesisVars, GenesisInv, GenesisTypeOK
  <2>2. GenesisShape' /\ GenesisUnedited'
    BY <1>1 DEF genesisVars, GenesisInv, GenesisShape, GenesisUnedited, Up
  <2> QED BY <2>1, <2>2 DEF GenesisInv
<1> QED BY <1>1, TickKeepsGenesis, BootKeepsGenesis, ReconcileKeepsGenesis, ProduceKeepsGenesis, OutsideKeepsGenesis
        DEF GenesisNext

(* What it says of the World and of a boot that serves. *)
LEMMA GenesisInvSafe == GenesisInv => OneGenesis /\ ServedIsInEffect
<1> SUFFICES ASSUME GenesisInv PROVE OneGenesis /\ ServedIsInEffect
  OBVIOUS
<1>1. OneGenesis
  BY DEF GenesisInv, GenesisShape, OneGenesis
<1>2. ServedIsInEffect
  <2> SUFFICES ASSUME genesis.pc = "serving"
               PROVE  dirState.inEffect /\ step.rev # 0 /\ (dir.edits = 0 => dirState.zones = DirRevs[step.rev])
    BY DEF ServedIsInEffect
  <2>1. dirState.inEffect /\ step.rev # 0 /\ Len(genesisLog) > 0 /\ step.rev = genesisLog[1]
    BY DEF GenesisInv, GenesisShape
  <2>2. 1 \in 1..Len(genesisLog)
    BY <2>1 DEF GenesisInv, GenesisTypeOK
  <2>3. dir.edits = 0 => step.rev = dir.rev /\ dirState.zones = DirRevs[dir.rev]
    BY <2>1, <2>2 DEF GenesisInv, GenesisUnedited
  <2> QED BY <2>1, <2>3
<1> QED BY <1>1, <1>2

--------------------------------------------------------------------------------
(* The content language: a Template checked against its parent alone has what *)
(* every ancestor has.                                                        *)

(* A chain is a sequence; of what, the proofs do not need.                    *)
IsChain(c) == \E S : c \in Seq(S)

(* What the compiler and an alteration make of chains are chains.             *)
LEMMA ChainsOfChains ==
  /\ IsChain(<<>>)
  /\ \A r : IsChain(<<r>>)
  /\ \A c, r : IsChain(c) => IsChain(Append(c, r)) /\ IsChain(<<r>> \o c)
  /\ \A c : IsChain(c) => IsChain(SubSeq(c, 2, Len(c)))
<1>1. IsChain(<<>>)
  <2>1. <<>> \in Seq({})
    OBVIOUS
  <2> QED BY <2>1 DEF IsChain
<1>2. ASSUME NEW r PROVE IsChain(<<r>>)
  <2>1. <<r>> \in Seq({r})
    OBVIOUS
  <2> QED BY <2>1 DEF IsChain
<1>3. ASSUME NEW c, NEW r, IsChain(c) PROVE IsChain(Append(c, r)) /\ IsChain(<<r>> \o c)
  <2>1. PICK S : c \in Seq(S)
    BY <1>3 DEF IsChain
  <2>2. c \in Seq(S \cup {r}) /\ <<r>> \in Seq(S \cup {r})
    BY <2>1
  <2>3. Append(c, r) \in Seq(S \cup {r}) /\ <<r>> \o c \in Seq(S \cup {r})
    BY <2>2
  <2> QED BY <2>3 DEF IsChain
<1>4. ASSUME NEW c, IsChain(c) PROVE IsChain(SubSeq(c, 2, Len(c)))
  <2>1. PICK S : c \in Seq(S)
    BY <1>4 DEF IsChain
  <2>2. SubSeq(c, 2, Len(c)) \in Seq(S)
    <3>1. \A i \in 2..Len(c) : c[i] \in S
      BY <2>1
    <3> QED BY <3>1, <2>1, SubSeqProperties
  <2> QED BY <2>2 DEF IsChain
<1> QED BY <1>1, <1>2, <1>3, <1>4

(* One round of Chains: the chains of length n from those of length n - 1.    *)
ChainUp(by, own, core, n, prev) ==
  [r \in DOMAIN by |->
     IF n = 0 THEN <<>>
     ELSE IF IsRoot(by[r]) THEN <<r>>
     ELSE IF ~IsSubtype(by[r]) THEN <<>>
     ELSE LET parents == ResolveExtends(by[r].head, by, own, core)
              p == CHOOSE q \in parents : TRUE
          IN IF parents = {} THEN <<>>
             ELSE IF p \notin DOMAIN by THEN Append(Pick(core, p).chain, r)
             ELSE IF prev[p] = <<>> THEN <<>>
             ELSE Append(prev[p], r)]

(* The rounds of Chains, all of them.                                         *)
ChainRounds(by, own, core, f) ==
  f = [n \in 0..(MaxChainDepth + 2) |-> ChainUp(by, own, core, n, f[n - 1])]

(* There are such rounds: each is made from the one before it.                *)
LEMMA ChainRoundsExist ==
  ASSUME NEW by, NEW own, NEW core
  PROVE  \E f : ChainRounds(by, own, core, f)
<1> DEFINE Round(n, prev) == ChainUp(by, own, core, n, prev)
           Till(k, g) == DOMAIN g = 0..k /\ \A n \in 0..k : g[n] = Round(n, g[n - 1])
<1>1. \A x, y : Round(0, x) = Round(0, y)
  BY DEF ChainUp
<1> HIDE DEF Round
<1> DEFINE Bad == {k \in Nat : ~\E g : Till(k, g)}
<1>2. Bad = {}
  <2> SUFFICES ASSUME Bad # {} PROVE FALSE
    OBVIOUS
  <2>1. PICK k \in Bad : \A x \in Bad : k <= x
    BY LeastNatural
  <2>2. CASE k = 0
    <3> DEFINE g == [n \in 0..0 |-> Round(0, <<>>)]
    <3>1. Till(0, g)
      BY <1>1
    <3> QED BY <2>1, <2>2, <3>1
  <2>3. CASE k # 0
    <3>1. k \in Nat /\ k - 1 \in Nat /\ k - 1 \notin Bad
      BY <2>1, <2>3
    <3>2. PICK g : Till(k - 1, g)
      BY <3>1
    <3> DEFINE h == [n \in 0..k |-> IF n = k THEN Round(k, g[k - 1]) ELSE g[n]]
    <3>3. ASSUME NEW n \in 0..k PROVE h[n] = Round(n, h[n - 1])
      <4>1. CASE n = 0
        <5>1. h[n] = g[0] /\ g[0] = Round(0, g[0 - 1])
          BY <2>3, <3>1, <3>2, <4>1
        <5>2. Round(0, g[0 - 1]) = Round(0, h[0 - 1])
          BY <1>1
        <5> QED BY <4>1, <5>1, <5>2
      <4>2. CASE n = k
        <5>1. h[n] = Round(k, g[k - 1]) /\ h[k - 1] = g[k - 1]
          BY <3>1, <4>2
        <5> QED BY <4>2, <5>1
      <4>3. CASE n # 0 /\ n # k
        <5>1. n \in 0..(k - 1) /\ n - 1 \in 0..k /\ n - 1 # k
          BY <3>1, <4>3
        <5>2. g[n] = Round(n, g[n - 1]) /\ h[n] = g[n] /\ h[n - 1] = g[n - 1]
          BY <3>2, <4>3, <5>1
        <5> QED BY <5>2
      <4> QED BY <4>1, <4>2, <4>3
    <3>4. DOMAIN h = 0..k
      OBVIOUS
    <3> HIDE DEF h
    <3>5. Till(k, h)
      BY <3>3, <3>4
    <3> QED BY <2>1, <3>5
  <2> QED BY <2>2, <2>3
<1>3. MaxChainDepth + 2 \in Nat
  BY ChainDepthAssumption
<1>4. PICK g : Till(MaxChainDepth + 2, g)
  BY <1>2, <1>3
<1> DEFINE f == [n \in 0..(MaxChainDepth + 2) |-> g[n]]
<1>5. ASSUME NEW n \in 0..(MaxChainDepth + 2) PROVE f[n] = Round(n, f[n - 1])
  <2>1. CASE n = 0
    BY <1>1, <1>3, <1>4, <2>1
  <2>2. CASE n # 0
    <3>1. n - 1 \in 0..(MaxChainDepth + 2)
      BY <1>3, <2>2
    <3> QED BY <1>4, <3>1
  <2> QED BY <2>1, <2>2
<1>6. f = [n \in 0..(MaxChainDepth + 2) |-> f[n]]
  OBVIOUS
<1> HIDE DEF f
<1>7. f = [n \in 0..(MaxChainDepth + 2) |-> Round(n, f[n - 1])]
  BY <1>5, <1>6
<1> QED BY <1>7 DEF ChainRounds, Round

(* Chains is the last of the rounds.                                          *)
LEMMA ChainsAreRounds ==
  ASSUME NEW by, NEW own, NEW core
  PROVE  \E f : ChainRounds(by, own, core, f) /\ Chains(by, own, core) = f[MaxChainDepth + 2]
<1> DEFINE f == CHOOSE up : up = [n \in 0..(MaxChainDepth + 2) |-> ChainUp(by, own, core, n, up[n - 1])]
<1>1. Chains(by, own, core) = f[MaxChainDepth + 2]
  BY Zenon DEF Chains, ChainUp
<1>2. ChainRounds(by, own, core, f)
  <2>1. \E up : up = [n \in 0..(MaxChainDepth + 2) |-> ChainUp(by, own, core, n, up[n - 1])]
    <3>1. PICK g : ChainRounds(by, own, core, g)
      BY ChainRoundsExist
    <3>2. g = [n \in 0..(MaxChainDepth + 2) |-> ChainUp(by, own, core, n, g[n - 1])]
      BY <3>1, Zenon DEF ChainRounds
    <3> QED BY <3>2
  <2>2. f = [n \in 0..(MaxChainDepth + 2) |-> ChainUp(by, own, core, n, f[n - 1])]
    BY <2>1, Zenon
  <2> HIDE DEF f
  <2> QED BY <2>2, Zenon DEF ChainRounds
<1> QED BY <1>1, <1>2

(* The compiler's chains are sequences.                                       *)
LEMMA ChainsAreChains ==
  ASSUME NEW by, NEW own, NEW core, \A d \in core : IsChain(d.chain)
  PROVE  \A r \in DOMAIN by : IsChain(Chains(by, own, core)[r])
<1>1. PICK f : ChainRounds(by, own, core, f) /\ Chains(by, own, core) = f[MaxChainDepth + 2]
  BY ChainsAreRounds
<1> DEFINE N == MaxChainDepth + 2
<1>2. N \in Nat
  BY ChainDepthAssumption
<1>3. \A n \in 0..N : f[n] = ChainUp(by, own, core, n, f[n - 1])
  BY <1>1, Zenon DEF ChainRounds
<1> HIDE DEF N
<1>4. ASSUME NEW n, NEW prev, n # 0 => \A r \in DOMAIN by : IsChain(prev[r])
      PROVE  \A r \in DOMAIN by : IsChain(ChainUp(by, own, core, n, prev)[r])
  <2> SUFFICES ASSUME NEW r \in DOMAIN by PROVE IsChain(ChainUp(by, own, core, n, prev)[r])
    OBVIOUS
  <2> DEFINE parents == ResolveExtends(by[r].head, by, own, core)
             p == CHOOSE q \in parents : TRUE
             c == ChainUp(by, own, core, n, prev)[r]
  <2>1. \/ c = <<>>
        \/ c = <<r>>
        \/ parents # {} /\ p \notin DOMAIN by /\ c = Append(Pick(core, p).chain, r)
        \/ n # 0 /\ p \in DOMAIN by /\ c = Append(prev[p], r)
    BY Zenon DEF ChainUp
  <2>2. ASSUME parents # {}, p \notin DOMAIN by PROVE IsChain(Pick(core, p).chain)
    <3>1. p \in parents
      BY <2>2
    <3>2. p \in Named(core)
      BY <3>1, <2>2, Zenon DEF ResolveExtends
    <3>3. Pick(core, p) \in core
      BY <3>2 DEF Named, Pick
    <3> QED BY <3>3
  <2> HIDE DEF c, p, parents
  <2> QED BY <2>1, <2>2, <1>4, ChainsOfChains DEF c
<1> DEFINE Bad == {n \in 0..N : ~\A r \in DOMAIN by : IsChain(f[n][r])}
<1>5. Bad = {}
  <2> SUFFICES ASSUME Bad # {} PROVE FALSE
    OBVIOUS
  <2>0. Bad \in SUBSET Nat
    BY <1>2
  <2>1. PICK n \in Bad : \A x \in Bad : n <= x
    BY LeastNatural, <2>0, Zenon
  <2>2. n # 0 => \A r \in DOMAIN by : IsChain(f[n - 1][r])
    <3> SUFFICES ASSUME n # 0 PROVE \A r \in DOMAIN by : IsChain(f[n - 1][r])
      OBVIOUS
    <3>1. n - 1 \in 0..N /\ ~(n <= n - 1)
      BY <1>2, <2>1
    <3> QED BY <2>1, <3>1
  <2>3. \A r \in DOMAIN by : IsChain(f[n][r])
    BY <1>3, <1>4, <2>1, <2>2
  <2> QED BY <2>1, <2>3
<1> QED BY <1>1, <1>2, <1>5 DEF N

(* What the proofs need of a set of definitions: one of each name, with a     *)
(* chain that is a sequence.                                                  *)
WellNamed(defs) ==
  /\ \A d \in defs : IsChain(d.chain)
  /\ \A d, e \in defs : d.name = e.name => d = e

(* A record of a Template.                                                    *)
Shaped(d) == d = [name |-> d.name, kind |-> d.kind, chain |-> d.chain, comps |-> d.comps, prov |-> d.prov]

(* The compiler names each definition once and in its own pack.               *)
LEMMA CompiledWellNamed ==
  ASSUME NEW decls, NEW own, NEW core, \A d \in core : IsChain(d.chain)
  PROVE  LET defs == CompilePack(decls, own, core).defs
         IN WellNamed(defs) /\ \A d \in defs : d.name[1] = own /\ Shaped(d)
<1> DEFINE by == ByRef(decls, own)
           chains == Chains(by, own, core)
           all == {BuildTemplate(r, chains[r], by, core) : r \in DOMAIN by}
           defs == CompilePack(decls, own, core).defs
<1>1. defs \subseteq all
  <2>1. defs \in {{}, all}
    BY Zenon DEF CompilePack
  <2> QED BY <2>1
<1>2. \A r \in DOMAIN by : r[1] = own
  <2>1. DOMAIN by = {<<own, decls[i].name>> : i \in DOMAIN decls}
    BY DEF ByRef
  <2> QED BY <2>1
<1>3. \A r \in DOMAIN by : IsChain(chains[r])
  BY ChainsAreChains
<1> HIDE DEF chains, by
<1>4. ASSUME NEW r \in DOMAIN by
      PROVE  LET d == BuildTemplate(r, chains[r], by, core) IN d.name = r /\ d.chain = chains[r] /\ Shaped(d)
  BY DEF BuildTemplate, Shaped
<1>5. \A d \in defs : \E r \in DOMAIN by : d = BuildTemplate(r, chains[r], by, core)
  BY <1>1
<1> HIDE DEF defs
<1>6. WellNamed(defs)
  BY <1>3, <1>4, <1>5 DEF WellNamed
<1>7. \A d \in defs : d.name[1] = own /\ Shaped(d)
  BY <1>2, <1>4, <1>5
<1> QED BY <1>6, <1>7 DEF defs

(* So does core.                                                              *)
LEMMA CoreWellNamed ==
  ASSUME NEW v \in DOMAIN CoreSources
  PROVE  WellNamed(CoreAt(v)) /\ \A d \in CoreAt(v) : d.name[1] = CorePack
<1>1. CoreAt(v) = CompilePack(CoreSources[v], CorePack, {}).defs
  BY DEF CoreAt, CoreDefs
<1> QED BY <1>1, CompiledWellNamed

(* A Template carries what every ancestor of its chain carries.               *)
KeepsAncestors(d, defs) ==
  \A i \in DOMAIN d.chain :
    /\ d.chain[i] \in Named(defs)
    /\ d.chain[i][1] \in {d.name[1], CorePack}
    /\ Pick(defs, d.chain[i]).kind = d.kind
    /\ Carries(d, Pick(defs, d.chain[i]))

(* One definition, once its parent keeps its own ancestors.                   *)
LEMMA KeepsThroughParent ==
  ASSUME NEW defs, WellNamed(defs), BuildTemplates(defs), NEW d \in defs,
         \A p \in defs : Len(p.chain) = Len(d.chain) - 1 => KeepsAncestors(p, defs)
  PROVE  KeepsAncestors(d, defs)
<1>1. IsChain(d.chain) /\ ValidateTemplate(d) /\ ValidateChain(d, defs)
  BY DEF WellNamed, BuildTemplates
<1>2. PICK S : d.chain \in Seq(S)
  BY <1>1 DEF IsChain
<1>3. Len(d.chain) \in Nat /\ DOMAIN d.chain = 1..Len(d.chain)
  BY <1>2
<1>4. d.chain # <<>> /\ d.chain[Len(d.chain)] = d.name
  BY <1>1 DEF ValidateTemplate
<1>5. Len(d.chain) >= 1
  BY <1>2, <1>4, EmptySeq
<1>6. Pick(defs, d.name) = d
  BY DEF Pick, WellNamed
<1> SUFFICES ASSUME NEW i \in DOMAIN d.chain
             PROVE  /\ d.chain[i] \in Named(defs)
                    /\ d.chain[i][1] \in {d.name[1], CorePack}
                    /\ Pick(defs, d.chain[i]).kind = d.kind
                    /\ Carries(d, Pick(defs, d.chain[i]))
  BY DEF KeepsAncestors
<1>7. CASE i = Len(d.chain)
  BY <1>4, <1>6, <1>7 DEF Named, Carries
<1>8. CASE i # Len(d.chain)
  <2> DEFINE ref == d.chain[Len(d.chain) - 1]
             p == Pick(defs, ref)
  <2>1. i \in 1..(Len(d.chain) - 1) /\ Len(d.chain) >= 2
    BY <1>3, <1>8
  <2>2. /\ ref[1] \in {d.name[1], CorePack}
        /\ ref \in Named(defs)
        /\ d.chain = Append(p.chain, d.name)
        /\ p.kind = d.kind
        /\ Carries(d, p)
    BY <1>1, <2>1 DEF ValidateChain
  <2>3. p \in defs /\ p.name = ref
    BY <2>2 DEF Named, Pick
  <2> HIDE DEF p, ref
  <2>4. PICK T : p.chain \in Seq(T)
    BY <2>3 DEF WellNamed, IsChain
  <2>5. Len(d.chain) = Len(p.chain) + 1 /\ \A j \in 1..Len(p.chain) : d.chain[j] = p.chain[j]
    BY <2>2, <2>4
  <2>6. Len(p.chain) = Len(d.chain) - 1 /\ i \in DOMAIN p.chain /\ d.chain[i] = p.chain[i]
    BY <2>1, <2>4, <2>5
  <2>7. KeepsAncestors(p, defs)
    BY <2>3, <2>6
  <2>8. /\ d.chain[i] \in Named(defs)
        /\ d.chain[i][1] \in {p.name[1], CorePack}
        /\ Pick(defs, d.chain[i]).kind = p.kind
        /\ Carries(p, Pick(defs, d.chain[i]))
    BY <2>6, <2>7 DEF KeepsAncestors
  <2>9. \A q : Carries(p, q) => Carries(d, q)
    BY <2>2 DEF Carries
  <2> QED BY <2>2, <2>3, <2>8, <2>9
<1> QED BY <1>7, <1>8

(* The check against the parent alone is enough, up the whole chain.          *)
LEMMA BuiltKeeps ==
  ASSUME NEW defs, WellNamed(defs), BuildTemplates(defs)
  PROVE  \A d \in defs : KeepsAncestors(d, defs)
<1>1. \A d \in defs : Len(d.chain) \in Nat
  <2> SUFFICES ASSUME NEW d \in defs PROVE Len(d.chain) \in Nat
    OBVIOUS
  <2>1. PICK S : d.chain \in Seq(S)
    BY DEF WellNamed, IsChain
  <2> QED BY <2>1
<1> DEFINE Bad == {d \in defs : ~KeepsAncestors(d, defs)}
           Lens == {Len(d.chain) : d \in Bad}
<1> SUFFICES ASSUME Bad # {} PROVE FALSE
  OBVIOUS
<1>2. Lens \in SUBSET Nat /\ Lens # {}
  BY <1>1
<1>3. PICK n \in Lens : \A x \in Lens : n <= x
  BY <1>2, LeastNatural, Zenon
<1>4. PICK d \in Bad : n = Len(d.chain)
  BY <1>3
<1>5. ASSUME NEW p \in defs, Len(p.chain) = Len(d.chain) - 1 PROVE KeepsAncestors(p, defs)
  <2> SUFFICES ASSUME p \in Bad PROVE FALSE
    OBVIOUS
  <2>1. n <= Len(p.chain) /\ Len(p.chain) = n - 1 /\ n \in Nat
    BY <1>2, <1>3, <1>4, <1>5
  <2> QED BY <2>1
<1> QED BY <1>4, <1>5, KeepsThroughParent

(* The registry is always one that built, of definitions named once; what is  *)
(* sent, altered or not, is the Builder's pack with each name once.           *)
RegistryBuilt ==
  /\ coreNow \in DOMAIN CoreSources /\ source.core \in DOMAIN CoreSources
  /\ WellNamed(upload) /\ \A d \in upload : d.name[1] = Own /\ Shaped(d)
  /\ WellNamed(registry) /\ BuildTemplates(registry)

(* Core with a pack that has each name once has each name once.               *)
LEMMA WithCoreWellNamed ==
  ASSUME NEW v \in DOMAIN CoreSources, NEW pack, WellNamed(pack), \A d \in pack : d.name[1] = Own
  PROVE  WellNamed(CoreAt(v) \cup pack)
BY CoreWellNamed DEF WellNamed, Own, CorePack

(* An alteration keeps the name, and a chain a sequence.                      *)
LEMMA AlteredShape ==
  ASSUME NEW d, Shaped(d), IsChain(d.chain), NEW e \in Altered(d)
  PROVE  e.name = d.name /\ IsChain(e.chain) /\ Shaped(e)
<1>1. PICK n, k, c, cs, pr : d = [name |-> n, kind |-> k, chain |-> c, comps |-> cs, prov |-> pr] /\ n = d.name /\ c = d.chain
  BY DEF Shaped
<1>2. \E k1, c1, cs1, pr1 : e = [name |-> n, kind |-> k1, chain |-> c1, comps |-> cs1, prov |-> pr1] /\ IsChain(c1)
  <2>1. CASE e = [d EXCEPT !.chain = <<d.name>>]
    BY <1>1, <2>1, ChainsOfChains
  <2>2. CASE e = [d EXCEPT !.kind = "item"]
    BY <1>1, <2>2
  <2>3. CASE e = [d EXCEPT !.chain = SubSeq(d.chain, 2, Len(d.chain))]
    BY <1>1, <2>3, ChainsOfChains
  <2>4. ASSUME NEW r, e = [d EXCEPT !.chain = <<r>> \o d.chain]
        PROVE  \E k1, c1, cs1, pr1 : e = [name |-> n, kind |-> k1, chain |-> c1, comps |-> cs1, prov |-> pr1] /\ IsChain(c1)
    BY <1>1, <2>4, ChainsOfChains
  <2>5. ASSUME NEW x, NEW y, e = [d EXCEPT !.comps = x, !.prov = y]
        PROVE  \E k1, c1, cs1, pr1 : e = [name |-> n, kind |-> k1, chain |-> c1, comps |-> cs1, prov |-> pr1] /\ IsChain(c1)
    BY <1>1, <2>5
  <2> QED BY <2>1, <2>2, <2>3, <2>4, <2>5 DEF Altered
<1> QED BY <1>1, <1>2 DEF Shaped

(* One step.                                                                  *)
LEMMA RegistryBuiltStep ==
  RegistryBuilt /\ [TemplatesNext]_templateVars => RegistryBuilt'
<1> SUFFICES ASSUME RegistryBuilt, [TemplatesNext]_templateVars PROVE RegistryBuilt'
  OBVIOUS
<1> USE DEF RegistryBuilt
<1>1. CASE CompileSource
  <2>1. upload' = CompilePack(source.decls, Own, CoreAt(source.core)).defs
    BY <1>1 DEF CompileSource
  <2>2. \A d \in CoreAt(source.core) : IsChain(d.chain)
    BY CoreWellNamed DEF WellNamed
  <2>3. WellNamed(upload') /\ \A d \in upload' : d.name[1] = Own /\ Shaped(d)
    BY <2>1, <2>2, CompiledWellNamed
  <2> QED BY <1>1, <2>3 DEF CompileSource
<1>2. CASE AlterUpload
  <2>1. PICK d \in upload : \E e \in Altered(d) : upload' = (upload \ {d}) \cup {e}
    BY <1>2 DEF AlterUpload
  <2>2. PICK e \in Altered(d) : upload' = (upload \ {d}) \cup {e}
    BY <2>1
  <2>3. e.name = d.name /\ IsChain(e.chain) /\ Shaped(e)
    BY <2>1, <2>2, AlteredShape DEF WellNamed
  <2>4. WellNamed(upload') /\ \A f \in upload' : f.name[1] = Own /\ Shaped(f)
    BY <2>1, <2>2, <2>3 DEF WellNamed
  <2> QED BY <1>2, <2>4 DEF AlterUpload
<1>3. CASE LoadPack
  BY <1>3, WithCoreWellNamed DEF LoadPack
<1>4. CASE MoveCore
  <2> DEFINE pack == {d \in registry : d.name[1] = Own}
  <2>1. PICK v \in DOMAIN CoreSources :
          /\ BuildTemplates(CoreAt(v) \cup pack)
          /\ coreNow' = v /\ registry' = CoreAt(v) \cup pack
          /\ UNCHANGED <<source, compiled, upload>>
    BY <1>4 DEF MoveCore
  <2>2. WellNamed(pack) /\ \A d \in pack : d.name[1] = Own
    BY DEF WellNamed
  <2> HIDE DEF pack
  <2> QED BY <2>1, <2>2, WithCoreWellNamed
<1>5. CASE UNCHANGED templateVars
  BY <1>5 DEF templateVars
<1> QED BY <1>1, <1>2, <1>3, <1>4, <1>5 DEF TemplatesNext

(* It begins so, since the server starts on a core that builds.               *)
LEMMA RegistryBuiltInit == TemplatesInit => RegistryBuilt
<1> SUFFICES ASSUME TemplatesInit PROVE RegistryBuilt
  OBVIOUS
<1>1. 1 \in DOMAIN CoreSources /\ BuildTemplates(CoreAt(1))
  BY CoreAssumption
<1>2. WellNamed({})
  BY DEF WellNamed
<1> QED BY <1>1, <1>2, CoreWellNamed DEF TemplatesInit, RegistryBuilt

(* And so the ancestors are kept.                                             *)
LEMMA RegistryBuiltSafe == RegistryBuilt => AncestorsKept
BY BuiltKeeps, Zenon DEF RegistryBuilt, AncestorsKept, KeepsAncestors

--------------------------------------------------------------------------------
(* The World that is built from the packs in effect. *)

(* A World every Exit of which lands, and every Zone of which has its fallback. *)
ExitLands(zones, e) == e.zone \in DOMAIN zones /\ e.room \in DOMAIN zones[e.zone].rooms
WholeZones(zones) ==
  \A z \in DOMAIN zones :
    /\ zones[z].fallback \in DOMAIN zones[z].rooms
    /\ \A r \in DOMAIN zones[z].rooms : \A e \in zones[z].rooms[r] : ExitLands(zones, e)

(* A fallback that is no Room refuses the build. *)
LEMMA FallbackRefuses ==
  ASSUME NEW zones, NEW in, zones[in[2].id].fallback \notin DOMAIN zones[in[2].id].rooms
  PROVE  Finding("fallback_missing", in, zones[in[2].id].fallback, "") \in ResolveFindings(zones, in)
BY DEF ResolveFindings

(* An Exit that does not land refuses it. *)
LEMMA ExitRefuses ==
  ASSUME NEW zones, NEW in, NEW r \in DOMAIN zones[in[2].id].rooms, NEW e \in zones[in[2].id].rooms[r],
         ~ExitLands(zones, e)
  PROVE  \/ Finding("unknown_zone", in, r, e.dir) \in ResolveFindings(zones, in)
         \/ Finding("unknown_room", in, r, e.dir) \in ResolveFindings(zones, in)
<1> DEFINE zone == zones[in[2].id]
           NoZone(q) == {Finding("unknown_zone", in, q, x.dir) : x \in {y \in zone.rooms[q] : y.zone \notin DOMAIN zones}}
           NoRoom(q) == {Finding("unknown_room", in, q, x.dir) : x \in {y \in zone.rooms[q] :
                           y.zone \in DOMAIN zones /\ ~(y.zone \in DOMAIN zones /\ y.room \in DOMAIN zones[y.zone].rooms)}}
<1>1. CASE e.zone \notin DOMAIN zones
  <2>1. Finding("unknown_zone", in, r, e.dir) \in NoZone(r)
    BY <1>1
  <2>2. UNION {NoZone(q) : q \in DOMAIN zone.rooms} \subseteq ResolveFindings(zones, in)
    BY Zenon DEF ResolveFindings
  <2> HIDE DEF NoZone
  <2>3. NoZone(r) \subseteq UNION {NoZone(q) : q \in DOMAIN zone.rooms}
    OBVIOUS
  <2> QED BY <2>1, <2>2, <2>3
<1>2. CASE e.zone \in DOMAIN zones
  <2>1. Finding("unknown_room", in, r, e.dir) \in NoRoom(r)
    BY <1>2 DEF ExitLands
  <2>2. UNION {NoRoom(q) : q \in DOMAIN zone.rooms} \subseteq ResolveFindings(zones, in)
    BY Zenon DEF ResolveFindings
  <2> HIDE DEF NoRoom
  <2>3. NoRoom(r) \subseteq UNION {NoRoom(q) : q \in DOMAIN zone.rooms}
    OBVIOUS
  <2> QED BY <2>1, <2>2, <2>3
<1> QED BY <1>1, <1>2

(* A build that reports no error is whole. *)
LEMMA BuiltIsWhole ==
  ASSUME NEW inputs, BuildWorld(inputs).errors = {}
  PROVE  WholeZones(Zones(inputs)) /\ BuildWorld(inputs).zones = Zones(inputs)
<1>1. Refusing(AllFindings(inputs)) = {} /\ BuildWorld(inputs).zones = Zones(inputs)
  <2>1. CASE Refusing(AllFindings(inputs)) = {}
    BY <2>1 DEF BuildWorld
  <2>2. CASE Refusing(AllFindings(inputs)) # {}
    BY <2>2 DEF BuildWorld
  <2> QED BY <2>1, <2>2
<1>2. \A i \in KeptInputs(inputs) : ResolveFindings(Zones(inputs), inputs[i]) \subseteq AllFindings(inputs)
  <2> DEFINE Of(i) == ResolveFindings(Zones(inputs), inputs[i])
  <2>1. UNION {Of(i) : i \in KeptInputs(inputs)} \subseteq AllFindings(inputs)
    BY Zenon DEF AllFindings
  <2> HIDE DEF Of
  <2>2. \A i \in KeptInputs(inputs) : Of(i) \subseteq UNION {Of(j) : j \in KeptInputs(inputs)}
    OBVIOUS
  <2>3. \A i \in KeptInputs(inputs) : Of(i) \subseteq AllFindings(inputs)
    BY <2>1, <2>2
  <2> QED BY <2>3 DEF Of
<1>3. ASSUME NEW f \in AllFindings(inputs) PROVE f.code \in Warnings
  BY <1>1 DEF Refusing
<1>4. ASSUME NEW in, NEW r, NEW x
      PROVE  /\ Finding("fallback_missing", in, r, x).code = "fallback_missing"
             /\ Finding("unknown_zone", in, r, x).code = "unknown_zone"
             /\ Finding("unknown_room", in, r, x).code = "unknown_room"
  BY DEF Finding
<1>5. {"fallback_missing", "unknown_zone", "unknown_room"} \cap Warnings = {}
  BY DEF Warnings
<1>6. ASSUME NEW z \in DOMAIN Zones(inputs) PROVE \E i \in KeptInputs(inputs) : z = inputs[i][2].id
  BY DEF Zones
<1> DEFINE zones == Zones(inputs)
<1>7. zones = Zones(inputs)
  OBVIOUS
<1> HIDE DEF zones
<1>8. WholeZones(zones)
  <2> SUFFICES ASSUME NEW z \in DOMAIN zones
               PROVE  /\ zones[z].fallback \in DOMAIN zones[z].rooms
                      /\ \A r \in DOMAIN zones[z].rooms : \A e \in zones[z].rooms[r] : ExitLands(zones, e)
    BY DEF WholeZones
  <2>1. PICK i \in KeptInputs(inputs) : z = inputs[i][2].id
    BY <1>6, <1>7
  <2> DEFINE in == inputs[i]
  <2>2. z = in[2].id /\ ResolveFindings(zones, in) \subseteq AllFindings(inputs)
    BY <1>2, <1>7, <2>1
  <2> HIDE DEF in
  <2>3. zones[z].fallback \in DOMAIN zones[z].rooms
    <3> SUFFICES ASSUME zones[z].fallback \notin DOMAIN zones[z].rooms PROVE FALSE
      OBVIOUS
    <3>1. Finding("fallback_missing", in, zones[z].fallback, "") \in AllFindings(inputs)
      BY <2>2, FallbackRefuses
    <3> QED BY <1>3, <1>4, <1>5, <3>1
  <2>4. ASSUME NEW r \in DOMAIN zones[z].rooms, NEW e \in zones[z].rooms[r], ~ExitLands(zones, e) PROVE FALSE
    <3>1. \/ Finding("unknown_zone", in, r, e.dir) \in AllFindings(inputs)
          \/ Finding("unknown_room", in, r, e.dir) \in AllFindings(inputs)
      BY <2>2, <2>4, ExitRefuses
    <3> QED BY <1>3, <1>4, <1>5, <3>1
  <2> QED BY <2>3, <2>4
<1> QED BY <1>1, <1>7, <1>8

(* The loader's guards: the move leaves a World, whole and with the spawn Room. *)
LEMMA MoveIsWhole ==
  ASSUME DOMAIN servedVersions = ContentPacks, MovePack
  PROVE  WorldWhole' /\ DOMAIN servedVersions' = ContentPacks
<1>1. PICK p \in ContentPacks, zones \in PackZones :
        /\ zones # servedVersions[p] /\ AcceptsMove(p, zones) /\ servedVersions' = [servedVersions EXCEPT ![p] = zones]
  BY DEF MovePack
<1> DEFINE with == [servedVersions EXCEPT ![p] = zones]
           inputs == InputsOf(with, PackOrder)
<1>2. builtWorld' = Zones(inputs) /\ DOMAIN with = ContentPacks /\ with[p] = zones
  BY <1>1 DEF MovePack
<1>3. BuildWorld(inputs).errors = {} /\ (HasZones(servedVersions) => HasZones(with))
      /\ (HasZones(with) => SpawnIn(BuildWorld(inputs).zones))
  BY <1>1 DEF AcceptsMove
<1>4. HasZones(with)
  <2>1. CASE HasZones(servedVersions)
    BY <1>3, <2>1
  <2>2. CASE ~HasZones(servedVersions)
    <3>1. zones # <<>>
      BY <1>1, <2>2 DEF HasZones
    <3> QED BY <1>2, <3>1 DEF HasZones
  <2> QED BY <2>1, <2>2
<1> HIDE DEF inputs
<1>5. WholeZones(builtWorld') /\ SpawnIn(builtWorld')
  BY <1>2, <1>3, <1>4, BuiltIsWhole
<1> QED BY <1>1, <1>2, <1>5 DEF WorldWhole, WholeZones, ExitLands

(* What is in effect is whole, of versions of the packs there are.            *)
WorldBuilt == WorldWhole /\ DOMAIN servedVersions = ContentPacks

(* No World is whole.                                                         *)
LEMMA WorldBuiltInit == WorldsInit => WorldBuilt
BY DEF WorldsInit, WorldBuilt, WorldWhole, NoWorld

(* One step.                                                                  *)
LEMMA WorldBuiltStep ==
  WorldBuilt /\ [WorldsNext]_worldsVars => WorldBuilt'
<1> SUFFICES ASSUME WorldBuilt, [WorldsNext]_worldsVars PROVE WorldBuilt'
  OBVIOUS
<1>1. CASE MovePack
  BY <1>1, MoveIsWhole DEF WorldBuilt
<1>2. CASE UNCHANGED <<servedVersions, builtWorld>>
  BY <1>2 DEF WorldBuilt, WorldWhole, SpawnIn
<1> QED BY <1>1, <1>2 DEF WorldsNext, CheckPublish, PublishAnswered, worldsVars

--------------------------------------------------------------------------------
(* The theorems. *)

(* ContentInv holds of every behaviour of the loader: the types always, and     *)
(* while nothing disturbs a swap, where every version waits.                    *)
THEOREM ContentInvariant == ContentSpec => []ContentInv
BY ContentInvInit, ContentInvStep, PTL DEF ContentSpec

(* Nothing the loader does takes its state out of its types.                    *)
THEOREM ContentTypesAlways == ContentSpec => []ContentTypeOK
<1>1. ContentInv => ContentTypeOK
  BY ContentTypesHold DEF ContentInv
<1> QED BY <1>1, ContentInvariant, PTL

(* GenesisInv holds of every behaviour of the genesis: for any directory and    *)
(* edits of it, any boots, deaths and swaps that land late.                     *)
THEOREM GenesisInvariant == GenesisSpec => []GenesisInv
BY GenesisInvInit, GenesisInvStep, PTL DEF GenesisSpec

(* A Template in effect keeps every component and field of every ancestor of  *)
(* its chain, of its kind and in its own pack or core (validateChain), for    *)
(* chains of any length, any packs, and however what is sent was altered and  *)
(* core has moved.                                                            *)
THEOREM AncestorsStay == TemplatesSpec => []AncestorsKept
BY RegistryBuiltInit, RegistryBuiltStep, RegistryBuiltSafe, PTL DEF TemplatesSpec

(* However the packs of a World move, what is in effect is whole: every Exit   *)
(* lands, every fallback is a Room of its Zone, and new Characters have a      *)
(* spawn Room (sim.BuildWorld, Loader.build), for any packs and any versions   *)
(* of them.                                                                    *)
THEOREM WorldStaysWhole == WorldsSpec => []WorldWhole
<1>1. WorldBuilt => WorldWhole
  BY DEF WorldBuilt
<1> QED BY <1>1, WorldBuiltInit, WorldBuiltStep, PTL DEF WorldsSpec

(* ContentSafe: in a process in which no wait for the World Partition ran out  *)
(* and no ReloadContent ran beside Follow (Undisturbed), what is in effect is   *)
(* what was built for it (checkSwap, Applied), and once the loader is quiet     *)
(* core is served at its pointer or was refused for what it names, and so is    *)
(* the Builder pack, or it is held for a newer core (Follow, releaseHeld), but  *)
(* for the one case of `outlived`: since the last move of the Builder pack was  *)
(* read, an older version of it went back to the retries.  There loader.go:1361 *)
(* says more than the code does, and the run NewestMove refutes it.  Last, a    *)
(* World whose content is a directory begins once, and a boot that serves has   *)
(* it in effect (dirContent.Reconcile).                                         *)
THEOREM ContentIsSafe == Spec => []ContentSafe
<1>1. Init => ContentInv /\ GenesisInv
  BY ContentInvInit, GenesisInvInit DEF Init
<1>2. [Next]_vars => [ContentNext]_contentVars
  BY DEF Next, vars, partVars
<1>3. [Next]_vars => [GenesisNext]_genesisVars
  BY DEF Next, vars, partVars
<1>4. ContentInv /\ GenesisInv /\ [Next]_vars => ContentInv' /\ GenesisInv'
  BY <1>2, <1>3, ContentInvStep, GenesisInvStep
<1>5. ContentInv /\ GenesisInv => ContentSafe
  BY ContentInvSafe, GenesisInvSafe DEF ContentSafe
<1> QED BY <1>1, <1>4, <1>5, PTL DEF Spec

(* LanguageSafe, in part: a Template in effect has what every ancestor of its   *)
(* chain has though each is checked against its parent alone (validateChain),   *)
(* and the World that is built is whole (BuildWorld, Loader.build).             *)
THEOREM LanguageKept ==
  Spec => [](/\ part = "templates" => AncestorsKept
             /\ part = "worlds" => WorldWhole)
<1>1. Init => RegistryBuilt /\ WorldBuilt
  <2> SUFFICES ASSUME Init PROVE RegistryBuilt /\ WorldBuilt
    OBVIOUS
  <2>1. WorldsInit
    BY Zenon DEF Init
  <2>2. CASE part = "templates"
    <3>1. TemplatesInit
      BY <2>2, Zenon DEF Init
    <3> QED BY <2>1, <3>1, RegistryBuiltInit, WorldBuiltInit
  <2>3. CASE part # "templates"
    <3>1. source = [decls |-> <<>>, core |-> 1] /\ upload = {} /\ coreNow = 1 /\ registry = {}
      BY <2>3, Zenon DEF Init
    <3>2. 1 \in DOMAIN CoreSources
      BY CoreAssumption
    <3>3. RegistryBuilt
      BY <3>1, <3>2 DEF RegistryBuilt, WellNamed, BuildTemplates
    <3> QED BY <2>1, <3>3, WorldBuiltInit
  <2> QED BY <2>2, <2>3
<1>2. [Next]_vars => [TemplatesNext]_templateVars
  BY DEF Next, vars, partVars
<1>3. [Next]_vars => [WorldsNext]_worldsVars
  BY DEF Next, vars, partVars
<1>4. RegistryBuilt /\ WorldBuilt /\ [Next]_vars => RegistryBuilt' /\ WorldBuilt'
  BY <1>2, <1>3, RegistryBuiltStep, WorldBuiltStep
<1>5. RegistryBuilt => AncestorsKept
  BY RegistryBuiltSafe
<1>6. WorldBuilt => WorldWhole
  BY DEF WorldBuilt
<1> QED BY <1>1, <1>4, <1>5, <1>6, PTL DEF Spec

================================================================================
