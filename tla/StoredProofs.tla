------------------------------ MODULE StoredProofs ------------------------------
(******************************************************************************)
(* Proofs about what is kept outside the World, and its readers.  The         *)
(* registry of content (Publish), for every set of publishers, sources and    *)
(* Accounts, any number of versions, and whatever fails.  The readers of the  *)
(* Partitions (LogScan, CommandFeed, BoundaryReader), for logs of any length, *)
(* batches and windows of any size, and whatever is appended, compacted,      *)
(* trimmed or garbled under them.  The snapshots (Retention), for every       *)
(* number of Zones, rounds, sweeps, tags and faults: a tag that was answered  *)
(* keeps its round, and the sweep never deletes what a recovery would start   *)
(* from.  The projected topic (Projector), for every set of Characters and    *)
(* Rooms, any number of ticks, batches and faults: it holds what the replica  *)
(* is.  The theorems on Spec are about MCStored's behaviours, each of which   *)
(* follows one part while the others stay as they begin.                      *)
(******************************************************************************)
EXTENDS MCStored, FiniteSetTheorems, SequenceTheorems, WellFoundedInduction, TLAPS

--------------------------------------------------------------------------------
(* The least and the greatest of a set of naturals. *)

(* A set of naturals that is not empty has a least element. *)
LEMMA LeastNatural ==
  ASSUME NEW S \in SUBSET Nat, S # {}
  PROVE  \E n \in S : \A x \in S : n <= x
<1> DEFINE R == {r \in Nat \X Nat : r[1] < r[2]}
<1>1. IsWellFoundedOn(R, Nat)
  <2>1. OpToRel(<, Nat) = R
    BY DEF OpToRel
  <2> QED BY <2>1, NatLessThanWellFounded
<1>2. PICK n \in S : \A x \in S : <<x, n>> \notin R
  BY <1>1, WFMin, Zenon
<1>3. \A x \in S : ~(x < n)
  BY <1>2
<1> QED BY <1>3

(* A set of naturals below a bound that is not empty has a greatest element. *)
LEMMA GreatestNatural ==
  ASSUME NEW N \in Nat, NEW S \in SUBSET (0..N), S # {}
  PROVE  \E n \in S : \A x \in S : x <= n
<1> DEFINE T == {N - x : x \in S}
<1>1. \A x \in S : x \in Nat /\ N - x \in Nat
  OBVIOUS
<1>2. T \in SUBSET Nat /\ T # {}
  BY <1>1, Zenon
<1>3. PICK n \in T : \A x \in T : n <= x
  BY <1>2, LeastNatural
<1>4. PICK m \in S : n = N - m
  BY <1>3
<1>5. ASSUME NEW x \in S PROVE x <= m
  <2>1. N - x \in T
    OBVIOUS
  <2>2. n <= N - x
    BY <2>1, <1>3
  <2>3. x \in Nat /\ m \in Nat /\ N - m <= N - x
    BY <2>2, <1>1, <1>4
  <2> QED BY <2>3
<1> QED BY <1>5

(* What Min returns. *)
LEMMA MinIsLeast ==
  ASSUME NEW S \in SUBSET Nat, S # {}
  PROVE  Min(S) \in S /\ \A x \in S : Min(S) <= x
BY LeastNatural DEF Min

--------------------------------------------------------------------------------
(* The registry's invariant. *)

PublishAccounts == Holders \cup Operators

Manifests ==
  [blobs : SUBSET UNION Sources, parent : Nat, author : PublishAccounts,
   publisher : PublishAccounts, approvedBy : {<<>>} \cup {<<a>> : a \in PublishAccounts}]

(* Versions are numbered from 1 without a gap, and the index is at most behind. *)
NumberedInv ==
  /\ NewestVersion(versionIndex) \in Nat /\ NewestVersion(versionTopic) \in Nat
  /\ NewestVersion(versionIndex) <= NewestVersion(versionTopic)
  /\ NewestVersion(versionTopic) <= MaxPackVersions
  /\ versionIndex \in [1..NewestVersion(versionIndex) -> Manifests]
  /\ versionTopic \in [1..NewestVersion(versionTopic) -> Manifests]

(* A publish command: what it was checked to have is on the blob topic. *)
CommandInv ==
  /\ terminal \in [Terminals -> [pc : {"idle", "listed", "checked"}, by : Principals \cup {<<>>},
                                 blobs : SUBSET UNION Sources, parent : Nat]]
  /\ \A t \in Terminals :
       /\ terminal[t].pc # "idle" => terminal[t].by \in Principals
       /\ terminal[t].pc = "checked" => terminal[t].blobs \subseteq blobTopic

BlobInv == blobIndex \subseteq blobTopic /\ blobCache \subseteq blobTopic

(* An approval by somebody else, or by an Operator who may. *)
TwoPeople(m) ==
  m.approvedBy # <<>> =>
    \/ m.approvedBy[1] \notin {m.author, m.publisher}
    \/ OperatorSelf /\ m.approvedBy[1] \in Operators

ManifestOK(v, m) == m.blobs \subseteq blobTopic /\ m.parent = v - 1 /\ TwoPeople(m)

(* A manifest, but for its approval. *)
SameVersion(m, n) ==
  m.blobs = n.blobs /\ m.parent = n.parent /\ m.author = n.author /\ m.publisher = n.publisher

(* The index holds what the topic does, except an approval reported failed that landed. *)
IndexInv ==
  /\ \A v \in DOMAIN versionTopic : ManifestOK(v, versionTopic[v])
  /\ \A v \in DOMAIN versionIndex :
       /\ SameVersion(versionIndex[v], versionTopic[v]) /\ TwoPeople(versionIndex[v])
       /\ versionIndex[v].approvedBy # <<>> => versionTopic[v].approvedBy # <<>>

AnsweredInv ==
  /\ \A a \in published : a[1] \in DOMAIN versionIndex /\ versionIndex[a[1]].blobs = a[2]
  /\ pointerTopic # 0 =>
       /\ pointerTopic \in DOMAIN versionIndex
       /\ pointerTopic \in overridden \/ versionTopic[pointerTopic].approvedBy # <<>>

PublishInv == NumberedInv /\ CommandInv /\ BlobInv /\ IndexInv /\ AnsweredInv

--------------------------------------------------------------------------------
(* Writing a manifest. *)

(* A manifest put under the next number. *)
LEMMA ManifestPutIs ==
  ASSUME NEW n \in Nat, NEW f \in [1..n -> Manifests], NEW v \in 1..(n + 1), NEW m \in Manifests,
         NEW g, g = ManifestPut(f, v, m)
  PROVE  /\ g[v] = m /\ \A u \in 1..n : u # v => g[u] = f[u]
         /\ NewestVersion(g) = IF v = n + 1 THEN n + 1 ELSE n
         /\ g \in [1..NewestVersion(g) -> Manifests]
<1>1. g = [u \in (1..n) \cup {v} |-> IF u = v THEN m ELSE f[u]]
  BY DEF ManifestPut
<1>2. g[v] = m /\ \A u \in 1..n : u # v => g[u] = f[u]
  BY <1>1
<1>3. PICK k : k = IF v = n + 1 THEN n + 1 ELSE n
  OBVIOUS
<1>4. k \in Nat /\ (1..n) \cup {v} = 1..k
  BY <1>3
<1>5. DOMAIN g = 1..k
  BY <1>1, <1>4
<1>6. Cardinality(1..k) = k
  BY <1>4, FS_Interval
<1>7. NewestVersion(g) = k
  BY <1>5, <1>6 DEF NewestVersion
<1>8. g \in [1..k -> Manifests]
  BY <1>1, <1>4
<1> QED BY <1>2, <1>3, <1>7, <1>8

(* What a written manifest leaves: everything the index held, and whatever was approved. *)
KeepsVersions ==
  /\ DOMAIN versionIndex \subseteq DOMAIN versionIndex'
  /\ \A u \in DOMAIN versionIndex :
       /\ versionIndex'[u].blobs = versionIndex[u].blobs
       /\ versionTopic[u].approvedBy # <<>> => versionTopic'[u].approvedBy # <<>>

(* The version is on the topic before it is in the index. *)
LEMMA WriteManifestKeeps ==
  ASSUME NumberedInv, IndexInv, NEW v \in 1..(NewestVersion(versionIndex) + 1),
         v <= MaxPackVersions, NEW m \in Manifests, ManifestOK(v, m), blobTopic' = blobTopic,
         v \in DOMAIN versionIndex => SameVersion(m, versionIndex[v]) /\ m.approvedBy # <<>>,
         WriteManifest(v, m)
  PROVE  NumberedInv' /\ IndexInv' /\ KeepsVersions
<1>1. PICK a, b : a = NewestVersion(versionIndex) /\ b = NewestVersion(versionTopic)
  OBVIOUS
<1>2. /\ a \in Nat /\ b \in Nat /\ a <= b /\ b <= MaxPackVersions /\ MaxPackVersions \in Nat
      /\ versionIndex \in [1..a -> Manifests] /\ versionTopic \in [1..b -> Manifests]
      /\ v \in 1..(a + 1) /\ v \in 1..(b + 1)
  BY <1>1, PublishAssumption DEF NumberedInv
<1>3. PICK g : g = ManifestPut(versionIndex, v, m)
  OBVIOUS
<1>4. PICK h : h = ManifestPut(versionTopic, v, m)
  OBVIOUS
<1>5. /\ g[v] = m /\ \A u \in 1..a : u # v => g[u] = versionIndex[u]
      /\ NewestVersion(g) = IF v = a + 1 THEN a + 1 ELSE a
      /\ g \in [1..NewestVersion(g) -> Manifests]
  <2>1. a \in Nat /\ versionIndex \in [1..a -> Manifests] /\ v \in 1..(a + 1) /\ m \in Manifests
    BY <1>2
  <2> QED BY <1>3, <2>1, ManifestPutIs, SMTT(30)
<1>6. /\ h[v] = m /\ \A u \in 1..b : u # v => h[u] = versionTopic[u]
      /\ NewestVersion(h) = IF v = b + 1 THEN b + 1 ELSE b
      /\ h \in [1..NewestVersion(h) -> Manifests]
  <2>1. b \in Nat /\ versionTopic \in [1..b -> Manifests] /\ v \in 1..(b + 1) /\ m \in Manifests
    BY <1>2
  <2> QED BY <1>4, <2>1, ManifestPutIs, SMTT(30)
<1>7. \/ (versionTopic' = h /\ versionIndex' = g)
      \/ (versionTopic' = h /\ versionIndex' = versionIndex)
      \/ (versionTopic' = versionTopic /\ versionIndex' = versionIndex)
  BY <1>3, <1>4 DEF WriteManifest
<1>8. /\ DOMAIN versionIndex = 1..a /\ DOMAIN versionTopic = 1..b /\ 1..a \subseteq 1..b
      /\ DOMAIN g = 1..NewestVersion(g) /\ DOMAIN h = 1..NewestVersion(h)
  BY <1>2, <1>5, <1>6
<1>9. /\ \A u \in 1..b : ManifestOK(u, versionTopic[u])
      /\ \A u \in 1..a : /\ SameVersion(versionIndex[u], versionTopic[u])
                         /\ TwoPeople(versionIndex[u])
                         /\ versionIndex[u].approvedBy # <<>> => versionTopic[u].approvedBy # <<>>
  BY <1>8 DEF IndexInv
<1>10. /\ \A u \in DOMAIN h : u = v \/ (u \in 1..b /\ h[u] = versionTopic[u])
       /\ \A u \in DOMAIN g : u = v \/ (u \in 1..a /\ u \in 1..b /\ g[u] = versionIndex[u] /\ h[u] = versionTopic[u])
       /\ v \in DOMAIN g /\ v \in DOMAIN h /\ 1..a \subseteq DOMAIN g /\ 1..b \subseteq DOMAIN h
       /\ NewestVersion(g) \in Nat /\ NewestVersion(h) \in Nat
       /\ NewestVersion(g) <= NewestVersion(h) /\ a <= NewestVersion(h)
       /\ NewestVersion(h) <= MaxPackVersions
  BY <1>2, <1>5, <1>6, <1>8
<1>11. \A u, n : ManifestOK(u, n)' <=> ManifestOK(u, n)
  BY DEF ManifestOK, TwoPeople
<1>12. \A u \in DOMAIN h : ManifestOK(u, h[u])
  BY <1>6, <1>9, <1>10
<1>13. TwoPeople(m) /\ SameVersion(m, m)
  BY DEF ManifestOK, SameVersion
<1>14. \A u \in DOMAIN g : /\ SameVersion(g[u], h[u]) /\ TwoPeople(g[u])
                           /\ g[u].approvedBy # <<>> => h[u].approvedBy # <<>>
  BY <1>5, <1>6, <1>9, <1>10, <1>13
<1>15. \A u \in 1..a : /\ SameVersion(versionIndex[u], h[u])
                       /\ versionIndex[u].approvedBy # <<>> => h[u].approvedBy # <<>>
                       /\ versionTopic[u].approvedBy # <<>> => h[u].approvedBy # <<>>
                       /\ g[u].blobs = versionIndex[u].blobs
  <2> SUFFICES ASSUME NEW u \in 1..a
               PROVE  /\ SameVersion(versionIndex[u], h[u])
                      /\ versionIndex[u].approvedBy # <<>> => h[u].approvedBy # <<>>
                      /\ versionTopic[u].approvedBy # <<>> => h[u].approvedBy # <<>>
                      /\ g[u].blobs = versionIndex[u].blobs
    OBVIOUS
  <2>1. CASE u = v
    BY <1>5, <1>6, <1>8, <2>1 DEF SameVersion
  <2>2. CASE u # v
    BY <1>5, <1>6, <1>8, <1>9, <2>2
  <2> QED BY <2>1, <2>2
<1>16. CASE versionTopic' = h /\ versionIndex' = g
  <2>1. NewestVersion(versionIndex)' = NewestVersion(g) /\ NewestVersion(versionTopic)' = NewestVersion(h)
    BY <1>16 DEF NewestVersion
  <2>2. NumberedInv'
    BY <1>5, <1>6, <1>10, <1>16, <2>1 DEF NumberedInv
  <2>3. IndexInv'
    BY <1>11, <1>12, <1>14, <1>16 DEF IndexInv, TwoPeople, SameVersion
  <2>4. KeepsVersions
    BY <1>8, <1>10, <1>15, <1>16 DEF KeepsVersions
  <2> QED BY <2>2, <2>3, <2>4
<1>17. CASE versionTopic' = h /\ versionIndex' = versionIndex
  <2>1. NewestVersion(versionIndex)' = a /\ NewestVersion(versionTopic)' = NewestVersion(h)
    BY <1>1, <1>17 DEF NewestVersion
  <2>2. NumberedInv'
    BY <1>2, <1>6, <1>10, <1>17, <2>1 DEF NumberedInv
  <2>3. IndexInv'
    BY <1>8, <1>9, <1>11, <1>12, <1>15, <1>17 DEF IndexInv, TwoPeople, SameVersion
  <2>4. KeepsVersions
    BY <1>8, <1>15, <1>17 DEF KeepsVersions
  <2> QED BY <2>2, <2>3, <2>4
<1>18. CASE versionTopic' = versionTopic /\ versionIndex' = versionIndex
  BY <1>18, <1>11 DEF NumberedInv, NewestVersion, IndexInv, TwoPeople, SameVersion, KeepsVersions
<1> QED BY <1>7, <1>16, <1>17, <1>18

--------------------------------------------------------------------------------
(* The registry's steps. *)

(* What was answered and what is pointed at stay, over a manifest more. *)
LEMMA AnswersStay ==
  ASSUME AnsweredInv, KeepsVersions, published' = published, pointerTopic' = pointerTopic,
         overridden' = overridden
  PROVE  AnsweredInv'
BY DEF AnsweredInv, KeepsVersions

(* A second person approves. *)
LEMMA ApproveKeeps ==
  ASSUME PublishInv, NEW p \in Principals, NEW v \in 1..MaxPackVersions, ApproveVersion(p, v)
  PROVE  PublishInv'
<1>1. NumberedInv /\ CommandInv /\ BlobInv /\ IndexInv /\ AnsweredInv
  BY DEF PublishInv
<1>2. PICK m : m = [versionIndex[v] EXCEPT !.approvedBy = <<p.account>>]
  OBVIOUS
<1>3. /\ v \in DOMAIN versionIndex /\ (SelfApproval(p, versionIndex[v]) => IsOperator(p) /\ OperatorSelf)
      /\ WriteManifest(v, m)
      /\ blobTopic' = blobTopic /\ blobIndex' = blobIndex /\ blobCache' = blobCache
      /\ pointerTopic' = pointerTopic /\ overridden' = overridden /\ terminal' = terminal
      /\ published' = published
  BY <1>2 DEF ApproveVersion, Unapproved
<1>4. /\ versionIndex[v] \in Manifests /\ v \in 1..(NewestVersion(versionIndex) + 1) /\ v <= MaxPackVersions
      /\ v \in DOMAIN versionTopic
  BY <1>1, <1>3, PublishAssumption DEF NumberedInv
<1>5. p.account \in PublishAccounts /\ (p.as \in Operators => p.account \in Operators)
  BY DEF Principals, PublishAccounts
<1>6. /\ m \in Manifests /\ m.approvedBy = <<p.account>> /\ SameVersion(m, versionIndex[v])
  BY <1>2, <1>4, <1>5 DEF Manifests, SameVersion
<1>7. m.approvedBy # <<>> /\ m.approvedBy[1] = p.account
  BY <1>6
<1>8. TwoPeople(m)
  BY <1>3, <1>5, <1>6, <1>7 DEF TwoPeople, SelfApproval, IsOperator, SameVersion
<1>9. ManifestOK(v, m)
  <2>1. ManifestOK(v, versionTopic[v]) /\ SameVersion(versionIndex[v], versionTopic[v])
    BY <1>1, <1>3, <1>4 DEF IndexInv
  <2> QED BY <1>6, <1>8, <2>1 DEF ManifestOK, SameVersion
<1>10. NumberedInv' /\ IndexInv' /\ KeepsVersions
  BY <1>1, <1>3, <1>4, <1>6, <1>7, <1>9, WriteManifestKeeps
<1>11. AnsweredInv'
  BY <1>1, <1>3, <1>10, AnswersStay
<1>12. CommandInv' /\ BlobInv'
  BY <1>1, <1>3 DEF CommandInv, BlobInv
<1> QED BY <1>10, <1>11, <1>12 DEF PublishInv

(* The writes of a publish, one after the other. *)
LEMMA PublishWritesKeeps ==
  ASSUME PublishInv, registryFaults \in Nat, NEW t \in Terminals, PublishWrites(t)
  PROVE  PublishInv'
<1>1. NumberedInv /\ CommandInv /\ BlobInv /\ IndexInv /\ AnsweredInv
  BY DEF PublishInv
<1>2. PICK c, v : c = terminal[t] /\ v = NewestVersion(versionIndex) + 1
  OBVIOUS
<1>3. PICK m : m = [blobs |-> c.blobs, parent |-> c.parent, author |-> c.by.as,
                    publisher |-> c.by.account, approvedBy |-> <<>>]
  OBVIOUS
<1>4. /\ c.pc = "checked" /\ c.parent = NewestVersion(versionIndex) /\ v <= MaxPackVersions
      /\ WriteManifest(v, m)
      /\ published' = (IF registryFaults' = registryFaults THEN published \cup {<<v, c.blobs>>} ELSE published)
      /\ terminal' = [terminal EXCEPT ![t] = NoCommand]
      /\ blobTopic' = blobTopic /\ blobIndex' = blobIndex /\ blobCache' = blobCache
      /\ pointerTopic' = pointerTopic /\ overridden' = overridden
  BY <1>2, <1>3 DEF PublishWrites, ParentHeld
<1>5. /\ c \in [pc : {"idle", "listed", "checked"}, by : Principals \cup {<<>>},
                blobs : SUBSET UNION Sources, parent : Nat]
      /\ c.by \in Principals /\ c.blobs \subseteq blobTopic
  BY <1>1, <1>2, <1>4 DEF CommandInv
<1>6. c.by.as \in PublishAccounts /\ c.by.account \in PublishAccounts
  BY <1>5 DEF Principals, PublishAccounts
<1>7. m \in Manifests /\ m.approvedBy = <<>> /\ m.blobs = c.blobs /\ m.parent = c.parent
  BY <1>3, <1>5, <1>6 DEF Manifests
<1>8. /\ v \in 1..(NewestVersion(versionIndex) + 1) /\ m.parent = v - 1
      /\ v \notin DOMAIN versionIndex
  BY <1>1, <1>2, <1>4, <1>7 DEF NumberedInv
<1>9. ManifestOK(v, m)
  BY <1>5, <1>7, <1>8 DEF ManifestOK, TwoPeople
<1>10. NumberedInv' /\ IndexInv' /\ KeepsVersions
  BY <1>1, <1>4, <1>7, <1>8, <1>9, WriteManifestKeeps
<1>11. AnsweredInv'
  <2>1. CASE published' = published
    BY <1>1, <1>4, <1>10, <2>1, AnswersStay
  <2>2. CASE published' = published \cup {<<v, c.blobs>>} /\ registryFaults' = registryFaults
    <3>1. versionIndex' = ManifestPut(versionIndex, v, m)
      BY <1>1, <1>4, <2>2 DEF WriteManifest, RegistryCanFault
    <3>2. v \in DOMAIN versionIndex' /\ versionIndex'[v].blobs = c.blobs
      BY <1>7, <3>1 DEF ManifestPut
    <3>3. \A a \in published' : a[1] \in DOMAIN versionIndex' /\ versionIndex'[a[1]].blobs = a[2]
      BY <1>1, <1>10, <2>2, <3>2 DEF AnsweredInv, KeepsVersions
    <3> QED BY <1>1, <1>4, <1>10, <3>3 DEF AnsweredInv, KeepsVersions
  <2> QED BY <1>4, <2>1, <2>2
<1>12. CommandInv' /\ BlobInv'
  BY <1>1, <1>4 DEF CommandInv, BlobInv, NoCommand
<1> QED BY <1>10, <1>11, <1>12 DEF PublishInv

(* Blobs are only added. *)
LEMMA UploadsKeeps ==
  ASSUME PublishInv, NEW t \in Terminals, NEW b \in UNION Sources, Uploads(t, b)
  PROVE  PublishInv'
<1>1. NumberedInv /\ CommandInv /\ BlobInv /\ IndexInv /\ AnsweredInv
  BY DEF PublishInv
<1>2. /\ versionTopic' = versionTopic /\ versionIndex' = versionIndex /\ pointerTopic' = pointerTopic
      /\ overridden' = overridden /\ published' = published
      /\ terminal' = terminal \/ terminal' = [terminal EXCEPT ![t] = NoCommand]
  BY DEF Uploads
<1>3. blobTopic \subseteq blobTopic' /\ BlobInv'
  BY <1>1 DEF Uploads, PutBlob, BlobInv
<1>4. NumberedInv' /\ AnsweredInv'
  BY <1>1, <1>2 DEF NumberedInv, NewestVersion, AnsweredInv
<1>5. IndexInv'
  BY <1>1, <1>2, <1>3 DEF IndexInv, ManifestOK, TwoPeople, SameVersion
<1>6. CommandInv'
  BY <1>1, <1>2, <1>3 DEF CommandInv, NoCommand
<1> QED BY <1>3, <1>4, <1>5, <1>6 DEF PublishInv

(* The steps that write neither a blob nor a version. *)
LEMMA CommandKeeps ==
  ASSUME PublishInv, CommandInv',
         UNCHANGED <<blobTopic, blobIndex, blobCache, versionTopic, versionIndex, pointerTopic,
                     overridden, published>>
  PROVE  PublishInv'
BY DEF PublishInv, NumberedInv, NewestVersion, BlobInv, IndexInv, ManifestOK, TwoPeople,
       SameVersion, AnsweredInv

(* A version comes into effect. *)
LEMMA ActivateKeeps ==
  ASSUME PublishInv, NEW p \in Principals, NEW v \in 1..MaxPackVersions, NEW o \in BOOLEAN,
         ActivateVersion(p, v, o)
  PROVE  PublishInv'
<1>1. NumberedInv /\ CommandInv /\ BlobInv /\ IndexInv /\ AnsweredInv
  BY DEF PublishInv
<1>2. /\ v \in DOMAIN versionIndex /\ pointerTopic' \in {pointerTopic, v}
      /\ overridden' = (IF Unapproved(v) THEN overridden \cup {v} ELSE overridden)
      /\ UNCHANGED <<blobTopic, blobIndex, blobCache, versionTopic, versionIndex, terminal, published>>
  BY DEF ActivateVersion, PointTo
<1>3. v \in overridden' \/ versionTopic[v].approvedBy # <<>>
  BY <1>1, <1>2 DEF Unapproved, IndexInv
<1>4. AnsweredInv'
  BY <1>1, <1>2, <1>3 DEF AnsweredInv
<1>5. NumberedInv' /\ CommandInv' /\ BlobInv' /\ IndexInv'
  BY <1>1, <1>2 DEF NumberedInv, NewestVersion, CommandInv, BlobInv, IndexInv, ManifestOK,
                    TwoPeople, SameVersion
<1> QED BY <1>4, <1>5 DEF PublishInv

(* The index and the cache are built from the topics again. *)
LEMMA RestartKeeps ==
  ASSUME PublishInv, RegistryRestarts
  PROVE  PublishInv'
<1>1. NumberedInv /\ CommandInv /\ BlobInv /\ IndexInv /\ AnsweredInv
  BY DEF PublishInv
<1>2. /\ blobIndex' = blobTopic /\ versionIndex' = versionTopic /\ blobCache' \in {blobCache, {}}
      /\ terminal' = [t \in Terminals |-> NoCommand]
      /\ UNCHANGED <<blobTopic, versionTopic, pointerTopic, overridden, published, pointerMoves>>
  BY DEF RegistryRestarts
<1>3. BlobInv' /\ CommandInv'
  BY <1>1, <1>2 DEF BlobInv, CommandInv, NoCommand
<1>4. NumberedInv'
  BY <1>1, <1>2 DEF NumberedInv, NewestVersion
<1>5. IndexInv'
  BY <1>1, <1>2 DEF IndexInv, ManifestOK, TwoPeople, SameVersion
<1>6. DOMAIN versionIndex \subseteq DOMAIN versionTopic
  BY <1>1 DEF NumberedInv
<1>7. AnsweredInv'
  BY <1>1, <1>2, <1>6 DEF AnsweredInv, IndexInv, SameVersion
<1> QED BY <1>3, <1>4, <1>5, <1>7 DEF PublishInv

(* A step fails at most once. *)
LEMMA FaultsCounted ==
  ASSUME registryFaults \in Nat, PublishNext
  PROVE  registryFaults' \in Nat
<1>1. registryFaults' = registryFaults \/ registryFaults' = registryFaults + 1
  <2>1. ASSUME NEW t \in Terminals,
               \/ \E p \in Principals, S \in Sources : PublishStarts(t, p, S)
               \/ PublishChecked(t) \/ PublishEnds(t)
        PROVE  registryFaults' = registryFaults
    BY <2>1 DEF PublishStarts, PublishChecked, PublishEnds
  <2>2. ASSUME NEW t \in Terminals, \E b \in UNION Sources : Uploads(t, b)
        PROVE  registryFaults' \in {registryFaults, registryFaults + 1}
    BY <2>2 DEF Uploads, PutBlob, RegistryCanFault
  <2>3. ASSUME NEW t \in Terminals, PublishWrites(t)
        PROVE  registryFaults' \in {registryFaults, registryFaults + 1}
    BY <2>3 DEF PublishWrites, WriteManifest, RegistryCanFault
  <2>4. ASSUME NEW p \in Principals, NEW v \in 1..MaxPackVersions,
               ApproveVersion(p, v) \/ \E o \in BOOLEAN : ActivateVersion(p, v, o)
        PROVE  registryFaults' \in {registryFaults, registryFaults + 1}
    BY <2>4 DEF ApproveVersion, ActivateVersion, WriteManifest, PointTo, RegistryCanFault
  <2>5. CASE RegistryRestarts
    BY <2>5 DEF RegistryRestarts, RegistryCanFault
  <2> QED BY <2>1, <2>2, <2>3, <2>4, <2>5 DEF PublishNext
<1> QED BY <1>1

(* The registry's invariant, in whichever part a behaviour follows. *)
THEOREM RegistryInvariant == Spec => []PublishInv
<1> DEFINE Inv == PublishInv /\ registryFaults \in Nat
<1>1. Init => Inv
  <2> SUFFICES ASSUME PublishInit PROVE PublishInv /\ registryFaults \in Nat
    BY DEF Init
  <2>1. /\ blobTopic = {} /\ blobIndex = {} /\ blobCache = {} /\ versionTopic = <<>> /\ versionIndex = <<>>
        /\ pointerTopic = 0 /\ terminal = [t \in Terminals |-> NoCommand] /\ published = {}
    BY DEF PublishInit
  <2>2. DOMAIN versionTopic = {} /\ DOMAIN versionIndex = {} /\ 1..0 = {} /\ <<>> \in [{} -> Manifests]
    BY <2>1
  <2>3. NewestVersion(versionTopic) = 0 /\ NewestVersion(versionIndex) = 0
    BY <2>2, FS_EmptySet DEF NewestVersion
  <2>4. NumberedInv
    BY <2>1, <2>2, <2>3, PublishAssumption DEF NumberedInv
  <2>5. CommandInv
    BY <2>1 DEF CommandInv, NoCommand
  <2>6. BlobInv /\ IndexInv /\ AnsweredInv
    BY <2>1, <2>2 DEF BlobInv, IndexInv, AnsweredInv
  <2>7. registryFaults \in Nat
    BY DEF PublishInit
  <2> QED BY <2>4, <2>5, <2>6, <2>7 DEF PublishInv
<1>2. Inv /\ PublishNext => Inv'
  <2> SUFFICES ASSUME PublishInv, registryFaults \in Nat, PublishNext PROVE PublishInv'
    BY FaultsCounted
  <2>0. CommandInv /\ NumberedInv /\ registryFaults \in Nat
    BY DEF PublishInv
  <2>1. ASSUME NEW t \in Terminals, NEW p \in Principals, NEW S \in Sources, PublishStarts(t, p, S)
        PROVE  PublishInv'
    <3>1. NewestVersion(versionIndex) \in Nat /\ S \in SUBSET UNION Sources
      BY <2>0 DEF NumberedInv
    <3>2. /\ terminal' = [terminal EXCEPT ![t] =
               [pc |-> "listed", by |-> p, blobs |-> S, parent |-> NewestVersion(versionIndex)]]
          /\ UNCHANGED <<blobTopic, blobIndex, blobCache, versionTopic, versionIndex, pointerTopic,
                         overridden, published>>
      BY <2>1 DEF PublishStarts
    <3>3. CommandInv'
      BY <2>0, <3>1, <3>2 DEF CommandInv
    <3> QED BY <3>2, <3>3, CommandKeeps
  <2>2. ASSUME NEW t \in Terminals, NEW b \in UNION Sources, Uploads(t, b) PROVE PublishInv'
    BY <2>2, UploadsKeeps
  <2>3. ASSUME NEW t \in Terminals, PublishChecked(t) PROVE PublishInv'
    <3>1. /\ terminal' = [terminal EXCEPT ![t].pc = "checked"] /\ terminal[t].blobs \subseteq blobIndex
          /\ terminal[t].pc = "listed"
          /\ UNCHANGED <<blobTopic, blobIndex, blobCache, versionTopic, versionIndex, pointerTopic,
                         overridden, published>>
      BY <2>3 DEF PublishChecked, MissingBlobs
    <3>2. terminal[t].blobs \subseteq blobTopic
      BY <3>1 DEF PublishInv, BlobInv
    <3>3. CommandInv'
      BY <2>0, <3>1, <3>2 DEF CommandInv
    <3> QED BY <3>1, <3>3, CommandKeeps
  <2>4. ASSUME NEW t \in Terminals, PublishEnds(t) PROVE PublishInv'
    <3>1. /\ terminal' = [terminal EXCEPT ![t] = NoCommand]
          /\ UNCHANGED <<blobTopic, blobIndex, blobCache, versionTopic, versionIndex, pointerTopic,
                         overridden, published>>
      BY <2>4 DEF PublishEnds
    <3>2. CommandInv'
      BY <2>0, <3>1 DEF CommandInv, NoCommand
    <3> QED BY <3>1, <3>2, CommandKeeps
  <2>5. ASSUME NEW t \in Terminals, PublishWrites(t) PROVE PublishInv'
    BY <2>5, <2>0, PublishWritesKeeps
  <2>6. ASSUME NEW p \in Principals, NEW v \in 1..MaxPackVersions, ApproveVersion(p, v) PROVE PublishInv'
    BY <2>6, ApproveKeeps
  <2>7. ASSUME NEW p \in Principals, NEW v \in 1..MaxPackVersions, NEW o \in BOOLEAN, ActivateVersion(p, v, o)
        PROVE  PublishInv'
    BY <2>7, ActivateKeeps
  <2>8. CASE RegistryRestarts
    BY <2>8, RestartKeeps
  <2> QED BY <2>1, <2>2, <2>3, <2>4, <2>5, <2>6, <2>7, <2>8 DEF PublishNext
<1>3. Inv /\ UNCHANGED publishVars => Inv'
  <2> SUFFICES ASSUME PublishInv, UNCHANGED publishVars PROVE PublishInv'
    BY DEF publishVars
  <2>1. CommandInv'
    BY DEF PublishInv, CommandInv, publishVars
  <2> QED BY <2>1, CommandKeeps DEF publishVars
<1>4. [Next]_vars => PublishNext \/ UNCHANGED publishVars
  BY DEF Next, vars, partVars
<1> QED BY <1>1, <1>2, <1>3, <1>4, PTL DEF Spec

(* PublishSafe: every version on the topic can be loaded, was made over the   *)
(* one before it and stays what its publisher was answered, and what is in    *)
(* effect had two people behind it, for every interleaving of publishers,     *)
(* approvers and failures (Registry.Publish, ApproveVersion, ActivateVersion). *)
THEOREM RegistryIsSafe == Spec => []PublishSafe
<1>1. PublishInv => PublishSafe
  <2> SUFFICES ASSUME PublishInv PROVE VersionsWhole /\ PublishesInTurn /\ FourEyes
    BY DEF PublishSafe
  <2>1. NumberedInv /\ IndexInv /\ AnsweredInv
    BY DEF PublishInv
  <2>2. DOMAIN versionIndex \subseteq DOMAIN versionTopic
    BY <2>1 DEF NumberedInv
  <2>3. VersionsWhole
    BY <2>1 DEF VersionsWhole, IndexInv, ManifestOK
  <2>4. PublishesInTurn
    BY <2>1, <2>2 DEF PublishesInTurn, IndexInv, AnsweredInv, ManifestOK, SameVersion
  <2>5. FourEyes
    BY <2>1 DEF FourEyes, IndexInv, AnsweredInv, ManifestOK, TwoPeople
  <2> QED BY <2>3, <2>4, <2>5
<1> QED BY <1>1, RegistryInvariant, PTL

--------------------------------------------------------------------------------
(* The reader of a compacted topic. *)

ScanRecords == [key : ScanKeys, dead : BOOLEAN, gone : BOOLEAN]

(* A key's newest record below e, and that it was written at or past e. *)
LastBelow(k, o, e) ==
  /\ o \in DOMAIN topicLog /\ o < e /\ topicLog[o].key = k
  /\ \A p \in DOMAIN topicLog : p < e /\ topicLog[p].key = k => p <= o
Since(k, e) == \E o \in DOMAIN topicLog : o >= e /\ topicLog[o].key = k

(* What a key's newest record leaves with the reader. *)
Left(o) == IF topicLog[o].dead THEN 0 ELSE o

(* Compaction takes a record that a later one of its key supersedes, or a     *)
(* tombstone that is alone; the newest record of all stays.                   *)
CompactedInv ==
  /\ topicLog \in Seq(ScanRecords)
  /\ active \in 1..(Len(topicLog) + 1)
  /\ Len(topicLog) # 0 => active <= Len(topicLog)
  /\ \A o \in DOMAIN topicLog : o >= active => ~topicLog[o].gone
  /\ \A o \in DOMAIN topicLog : topicLog[o].gone =>
       \/ \E p \in DOMAIN topicLog : p > o /\ topicLog[p].key = topicLog[o].key
       \/ /\ topicLog[o].dead
          /\ \A p \in DOMAIN topicLog : p < o /\ topicLog[p].key = topicLog[o].key => topicLog[p].gone

(* What the reader holds of a key that is not written again: nothing while    *)
(* there is none, or none left; what the newest record says once it passed it. *)
ReadInv(k) ==
  ~Since(k, scan.end) =>
    /\ (\A o \in DOMAIN topicLog : topicLog[o].key # k) => scan.got[k] = 0
    /\ \A o \in DOMAIN topicLog : LastBelow(k, o, scan.end) =>
         /\ topicLog[o].gone =>
              /\ topicLog[o].dead /\ scan.got[k] = 0
              /\ \A p \in DOMAIN topicLog : topicLog[p].key = k => topicLog[p].gone
         /\ ~topicLog[o].gone /\ o < scan.pos => scan.got[k] = Left(o)

(* A finished reader's copy. *)
DoneInv(k) ==
  ~Since(k, scan.end) =>
    /\ (\A o \in DOMAIN topicLog : topicLog[o].key # k) => scan.got[k] = 0
    /\ \A o \in DOMAIN topicLog : LastBelow(k, o, scan.end) => scan.got[k] = Left(o)

ReaderTypes ==
  /\ scan \in [kind : {"none", "replay", "keys"}, at : {"idle", "reading", "done", "failed"},
               pos : Nat, end : Nat, got : [ScanKeys -> Nat]]
  /\ scan.end \in 1..(Len(topicLog) + 1)

ScanInv ==
  /\ CompactedInv /\ ReaderTypes
  /\ scan.at = "reading" =>
       /\ scan.pos \in 1..(scan.end - 1)
       /\ scan.kind = "keys" => scan.end = Len(topicLog) + 1
       /\ \A k \in ScanKeys : ReadInv(k)
  /\ scan.at = "done" => \A k \in ScanKeys : DoneInv(k)

(* The newest record of a key among some. *)
LEMMA NewestIs ==
  ASSUME topicLog \in Seq(ScanRecords), NEW S \in SUBSET DOMAIN topicLog, NEW k
  PROVE  /\ (\A o \in S : topicLog[o].key # k) => NewestOf(S, k) = 0
         /\ (\E o \in S : topicLog[o].key = k) =>
              /\ NewestOf(S, k) \in S /\ topicLog[NewestOf(S, k)].key = k
              /\ \A p \in S : topicLog[p].key = k => p <= NewestOf(S, k)
         /\ NewestOf(S, k) \in Nat
<1> DEFINE of == {o \in S : topicLog[o].key = k}
<1>1. CASE of = {}
  BY <1>1 DEF NewestOf
<1>2. CASE of # {}
  <2>1. Len(topicLog) \in Nat /\ of \in SUBSET (0..Len(topicLog))
    OBVIOUS
  <2>2. PICK n \in of : \A p \in of : p <= n
    BY <2>1, <1>2, GreatestNatural
  <2>3. NewestOf(S, k) = CHOOSE o \in of : \A p \in of : p <= o
    BY <1>2 DEF NewestOf
  <2>4. NewestOf(S, k) \in of /\ \A p \in of : p <= NewestOf(S, k)
    BY <2>2, <2>3
  <2> QED BY <2>4, <2>1
<1> QED BY <1>1, <1>2

(* Nothing is written and nobody reads. *)
LEMMA ScanBegins == ScanInit => ScanInv
<1> SUFFICES ASSUME ScanInit PROVE ScanInv
  OBVIOUS
<1>1. topicLog = <<>> /\ active = 1 /\ scan = NoScan /\ Len(topicLog) = 0 /\ DOMAIN topicLog = {}
  BY DEF ScanInit
<1>2. CompactedInv
  BY <1>1 DEF CompactedInv
<1>3. ReaderTypes
  BY <1>1 DEF ReaderTypes, NoScan
<1> QED BY <1>1, <1>2, <1>3 DEF ScanInv, NoScan

(* An append. *)
LEMMA AppendKeeps ==
  ASSUME ScanInv, NEW k \in ScanKeys, NEW dead \in BOOLEAN, AppendRecord(k, dead)
  PROVE  ScanInv'
<1> DEFINE r == [key |-> k, dead |-> dead, gone |-> FALSE]
<1>1. /\ topicLog \in Seq(ScanRecords) /\ r \in ScanRecords /\ Len(topicLog) \in Nat
      /\ topicLog' = Append(topicLog, r) /\ active' \in {active, Len(topicLog) + 1} /\ scan' = scan
      /\ ~(scan.kind = "keys" /\ scan.at = "reading")
  BY DEF AppendRecord, ScanInv, CompactedInv, ScanRecords
<1> HIDE DEF r
<1>2. /\ topicLog' \in Seq(ScanRecords) /\ Len(topicLog') = Len(topicLog) + 1
      /\ DOMAIN topicLog' = 1..(Len(topicLog) + 1) /\ DOMAIN topicLog = 1..Len(topicLog)
      /\ \A o \in DOMAIN topicLog : topicLog'[o] = topicLog[o] /\ o \in DOMAIN topicLog'
      /\ topicLog'[Len(topicLog) + 1] = r
  BY <1>1
<1>3. \A o \in DOMAIN topicLog' : o \in DOMAIN topicLog \/ o = Len(topicLog) + 1
  BY <1>1, <1>2
<1>4. r.key = k /\ ~r.gone
  BY DEF r
<1>5. CompactedInv'
  <2>1. active' \in 1..(Len(topicLog') + 1) /\ active' <= Len(topicLog') /\ active' >= active
    BY <1>1, <1>2 DEF ScanInv, CompactedInv
  <2>2. ASSUME NEW o \in DOMAIN topicLog', o >= active' PROVE ~topicLog'[o].gone
    BY <2>1, <2>2, <1>1, <1>2, <1>3, <1>4 DEF ScanInv, CompactedInv
  <2>3. ASSUME NEW o \in DOMAIN topicLog', topicLog'[o].gone
        PROVE  \/ \E p \in DOMAIN topicLog' : p > o /\ topicLog'[p].key = topicLog'[o].key
               \/ /\ topicLog'[o].dead
                  /\ \A p \in DOMAIN topicLog' : p < o /\ topicLog'[p].key = topicLog'[o].key => topicLog'[p].gone
    <3>1. o \in DOMAIN topicLog /\ topicLog'[o] = topicLog[o]
      BY <2>3, <1>2, <1>3, <1>4
    <3>2. CASE \E p \in DOMAIN topicLog : p > o /\ topicLog[p].key = topicLog[o].key
      BY <3>1, <3>2, <1>2
    <3>3. CASE /\ topicLog[o].dead
               /\ \A p \in DOMAIN topicLog : p < o /\ topicLog[p].key = topicLog[o].key => topicLog[p].gone
      <4>1. \A p \in DOMAIN topicLog' : p < o => p \in DOMAIN topicLog
        BY <3>1, <1>2, <1>3, <1>1
      <4> QED BY <3>1, <3>3, <4>1, <1>2
    <3> QED BY <3>1, <3>2, <3>3, <2>3 DEF ScanInv, CompactedInv
  <2> QED BY <2>1, <2>2, <2>3, <1>2 DEF CompactedInv
<1>6. ReaderTypes' /\ scan.end \in 1..(Len(topicLog) + 1)
  BY <1>1, <1>2 DEF ScanInv, ReaderTypes
<1>7. ASSUME NEW j \in ScanKeys, ~Since(j, scan.end)'
      PROVE  /\ ~Since(j, scan.end) /\ j # k
             /\ \A o \in DOMAIN topicLog' : LastBelow(j, o, scan.end)' => o \in DOMAIN topicLog /\ LastBelow(j, o, scan.end)
             /\ \A o \in DOMAIN topicLog' : topicLog'[o].key = j => o \in DOMAIN topicLog
  <2>1. j # k
    BY <1>1, <1>2, <1>4, <1>6, <1>7 DEF Since
  <2>2. ~Since(j, scan.end)
    BY <1>1, <1>2, <1>7 DEF Since
  <2>3. \A o \in DOMAIN topicLog' : topicLog'[o].key = j => o \in DOMAIN topicLog
    BY <2>1, <1>2, <1>3, <1>4
  <2> QED BY <2>1, <2>2, <2>3, <1>1, <1>2 DEF LastBelow
<1>8. ASSUME scan.at = "reading", NEW j \in ScanKeys PROVE ReadInv(j)'
  <2> SUFFICES ASSUME ~Since(j, scan.end)'
               PROVE  ReadInv(j)'
    BY <1>1 DEF ReadInv
  <2>1. ReadInv(j)
    BY <1>8 DEF ScanInv
  <2> QED BY <2>1, <1>1, <1>2, <1>7 DEF ReadInv, Left
<1>9. ASSUME scan.at = "done", NEW j \in ScanKeys PROVE DoneInv(j)'
  <2> SUFFICES ASSUME ~Since(j, scan.end)'
               PROVE  DoneInv(j)'
    BY <1>1 DEF DoneInv
  <2>1. DoneInv(j)
    BY <1>9 DEF ScanInv
  <2> QED BY <2>1, <1>1, <1>2, <1>7 DEF DoneInv, Left
<1> QED BY <1>1, <1>5, <1>6, <1>8, <1>9 DEF ScanInv

(* Compaction. *)
LEMMA CompactKeeps ==
  ASSUME ScanInv, NEW o \in ScanOffsets, CompactRecord(o)
  PROVE  ScanInv'
<1>1. /\ topicLog \in Seq(ScanRecords) /\ o \in DOMAIN topicLog /\ ~topicLog[o].gone /\ o < active
      /\ topicLog' = [topicLog EXCEPT ![o].gone = TRUE] /\ active' = active /\ scan' = scan
      /\ \/ \E p \in DOMAIN topicLog : p > o /\ topicLog[p].key = topicLog[o].key
         \/ /\ topicLog[o].dead /\ scan.at # "reading"
            /\ \A p \in DOMAIN topicLog : p < o /\ topicLog[p].key = topicLog[o].key => topicLog[p].gone
  BY DEF CompactRecord, Held, ScanInv, CompactedInv
<1>r. PICK r : r = [topicLog[o] EXCEPT !.gone = TRUE]
  OBVIOUS
<1>t. /\ r \in ScanRecords /\ r.key = topicLog[o].key /\ r.dead = topicLog[o].dead /\ r.gone
      /\ topicLog' = [topicLog EXCEPT ![o] = r]
  <2>1. topicLog[o] \in ScanRecords
    BY <1>1
  <2>2. r \in ScanRecords /\ r.key = topicLog[o].key /\ r.dead = topicLog[o].dead /\ r.gone
    BY <2>1, <1>r DEF ScanRecords
  <2>3. topicLog' = [topicLog EXCEPT ![o] = r]
    BY <1>1, <1>r
  <2> QED BY <2>2, <2>3
<1>2. /\ topicLog' \in Seq(ScanRecords) /\ DOMAIN topicLog' = DOMAIN topicLog /\ Len(topicLog') = Len(topicLog)
      /\ DOMAIN topicLog = 1..Len(topicLog) /\ Len(topicLog) \in Nat
  <2>1. Len(topicLog) \in Nat /\ DOMAIN topicLog = 1..Len(topicLog)
    BY <1>1
  <2>2. [topicLog EXCEPT ![o] = r] \in Seq(ScanRecords) /\ Len([topicLog EXCEPT ![o] = r]) = Len(topicLog)
    BY <2>1, <1>1, <1>t, ExceptSeq
  <2> QED BY <2>1, <2>2, <1>t
<1>3. \A p \in DOMAIN topicLog :
        /\ topicLog'[p].key = topicLog[p].key /\ topicLog'[p].dead = topicLog[p].dead
        /\ topicLog[p].gone => topicLog'[p].gone
        /\ p # o => topicLog'[p].gone = topicLog[p].gone
  <2>1. \A p \in DOMAIN topicLog : topicLog'[p] = IF p = o THEN r ELSE topicLog[p]
    BY <1>1, <1>t
  <2> QED BY <2>1, <1>t
<1>4. CompactedInv'
  <2>1. \A p \in DOMAIN topicLog : p >= active => ~topicLog'[p].gone
    BY <1>1, <1>2, <1>3 DEF ScanInv, CompactedInv
  <2>2. ASSUME NEW q \in DOMAIN topicLog, topicLog'[q].gone
        PROVE  \/ \E p \in DOMAIN topicLog : p > q /\ topicLog[p].key = topicLog[q].key
               \/ /\ topicLog[q].dead
                  /\ \A p \in DOMAIN topicLog : p < q /\ topicLog[p].key = topicLog[q].key => topicLog[p].gone
    BY <2>2, <1>1, <1>3 DEF ScanInv, CompactedInv
  <2> QED BY <2>1, <2>2, <1>1, <1>2, <1>3 DEF ScanInv, CompactedInv
<1>5. ReaderTypes'
  BY <1>1, <1>2 DEF ScanInv, ReaderTypes
<1>6. ASSUME NEW j \in ScanKeys
      PROVE  /\ Since(j, scan.end)' <=> Since(j, scan.end)
             /\ \A p \in DOMAIN topicLog : LastBelow(j, p, scan.end)' <=> LastBelow(j, p, scan.end)
  BY <1>1, <1>2, <1>3 DEF Since, LastBelow
<1>7. ASSUME scan.at = "reading", NEW j \in ScanKeys PROVE ReadInv(j)'
  <2> SUFFICES ASSUME ~Since(j, scan.end) PROVE ReadInv(j)'
    BY <1>1, <1>6 DEF ReadInv
  <2>1. ReadInv(j)
    BY <1>7 DEF ScanInv
  <2>2. \A p \in DOMAIN topicLog : LastBelow(j, p, scan.end) => p # o
    <3> SUFFICES ASSUME LastBelow(j, o, scan.end) PROVE FALSE
      OBVIOUS
    <3>1. PICK p \in DOMAIN topicLog : p > o /\ topicLog[p].key = topicLog[o].key
      BY <1>1, <1>7
    <3>2. p < scan.end
      BY <3>1, <1>2, <1>5, <1>1 DEF Since, LastBelow, ScanInv, ReaderTypes
    <3> QED BY <3>1, <3>2, <1>2 DEF LastBelow
  <2> QED BY <2>1, <2>2, <1>1, <1>2, <1>3, <1>6 DEF ReadInv, Left
<1>8. ASSUME scan.at = "done", NEW j \in ScanKeys PROVE DoneInv(j)'
  <2>1. DoneInv(j)
    BY <1>8 DEF ScanInv
  <2> QED BY <2>1, <1>1, <1>2, <1>3, <1>6 DEF DoneInv, Left
<1> QED BY <1>1, <1>2, <1>4, <1>5, <1>7, <1>8 DEF ScanInv

(* The captured end is past every record. *)
LEMMA BeginKeeps ==
  ASSUME ScanInv, NEW kind \in {"replay", "keys"}, BeginScan(kind)
  PROVE  ScanInv'
<1>1. /\ topicLog \in Seq(ScanRecords) /\ topicLog' = topicLog /\ active' = active
      /\ scan' = [kind |-> kind, at |-> IF topicLog = <<>> THEN "done" ELSE "reading", pos |-> 1,
                  end |-> Len(topicLog) + 1, got |-> [k \in ScanKeys |-> 0]]
  BY DEF BeginScan, NoScan, ScanInv, CompactedInv
<1>2. Len(topicLog) \in Nat /\ DOMAIN topicLog = 1..Len(topicLog)
  BY <1>1
<1>3. /\ scan'.kind = kind /\ scan'.pos = 1 /\ scan'.end = Len(topicLog) + 1
      /\ scan'.got = [k \in ScanKeys |-> 0] /\ scan'.at = IF topicLog = <<>> THEN "done" ELSE "reading"
  BY <1>1
<1>4. CompactedInv'
  BY <1>1 DEF ScanInv, CompactedInv
<1>5. ReaderTypes'
  BY <1>1, <1>2, <1>3 DEF ReaderTypes
<1>6. ASSUME NEW j \in ScanKeys PROVE ReadInv(j)'
  <2>1. ASSUME NEW o \in DOMAIN topicLog, LastBelow(j, o, scan'.end), topicLog[o].gone
        PROVE  /\ topicLog[o].dead
               /\ \A p \in DOMAIN topicLog : topicLog[p].key = j => topicLog[p].gone
    <3>1. ~\E p \in DOMAIN topicLog : p > o /\ topicLog[p].key = topicLog[o].key
      BY <2>1, <1>2, <1>3 DEF LastBelow
    <3>2. /\ topicLog[o].dead
          /\ \A p \in DOMAIN topicLog : p < o /\ topicLog[p].key = topicLog[o].key => topicLog[p].gone
      BY <2>1, <3>1 DEF ScanInv, CompactedInv
    <3> QED BY <3>1, <3>2, <2>1, <1>2 DEF LastBelow
  <2>2. scan'.got[j] = 0 /\ \A o \in DOMAIN topicLog : ~(o < scan'.pos)
    BY <1>2, <1>3
  <2>3. \A o \in DOMAIN topicLog : LastBelow(j, o, scan.end)' <=> LastBelow(j, o, scan'.end)
    BY <1>1 DEF LastBelow
  <2> QED BY <2>1, <2>2, <2>3, <1>1 DEF ReadInv
<1>7. ASSUME topicLog = <<>>, NEW j \in ScanKeys PROVE DoneInv(j)'
  BY <1>7, <1>1, <1>2, <1>3 DEF DoneInv
<1>8. topicLog # <<>> => scan'.pos \in 1..(scan'.end - 1)
  BY <1>1, <1>2, <1>3
<1> QED BY <1>1, <1>3, <1>4, <1>5, <1>6, <1>7, <1>8 DEF ScanInv

(* A fetch: what is read of a key that is not written again ends with its     *)
(* newest record.                                                             *)
LEMMA PollsKeeps == ASSUME ScanInv, Polls PROVE ScanInv'
<1>1. PICK last \in {o \in Held : o >= scan.pos} :
        scan' = [scan EXCEPT !.pos = last + 1,
                   !.got = Folded({o \in {o \in Held : scan.pos <= o /\ o <= last} : o < scan.end}),
                   !.at = IF Complete({o \in Held : scan.pos <= o /\ o <= last}, last) THEN "done" ELSE @]
  BY DEF Polls
<1> DEFINE read == {o \in Held : scan.pos <= o /\ o <= last}
           mine == {o \in read : o < scan.end}
<1>2. /\ topicLog' = topicLog /\ active' = active /\ scan.at = "reading"
      /\ topicLog \in Seq(ScanRecords) /\ Len(topicLog) \in Nat /\ DOMAIN topicLog = 1..Len(topicLog)
      /\ scan.pos \in 1..(scan.end - 1) /\ scan.end \in 1..(Len(topicLog) + 1)
      /\ scan.kind = "keys" => scan.end = Len(topicLog) + 1
  BY DEF Polls, ScanInv, CompactedInv, ReaderTypes
<1>3. last \in 1..Len(topicLog) /\ last >= scan.pos /\ last \in Held /\ last \in Nat
  BY <1>2 DEF Held
<1>4. /\ scan'.pos = last + 1 /\ scan'.end = scan.end /\ scan'.kind = scan.kind /\ scan'.got = Folded(mine)
      /\ scan'.at = IF Complete(read, last) THEN "done" ELSE "reading"
      /\ scan' \in [kind : {"none", "replay", "keys"}, at : {"idle", "reading", "done", "failed"},
                    pos : Nat, end : Nat, got : {Folded(mine)}]
  <2>1. PICK f : f = Folded(mine)
    OBVIOUS
  <2>2. PICK a : a = IF Complete(read, last) THEN "done" ELSE "reading"
    OBVIOUS
  <2>3. scan' = [scan EXCEPT !.pos = last + 1, !.got = f, !.at = a]
    BY <1>1, <1>2, <2>1, <2>2
  <2>4. scan \in [kind : {"none", "replay", "keys"}, at : {"idle", "reading", "done", "failed"},
                 pos : Nat, end : Nat, got : [ScanKeys -> Nat]]
    BY DEF ScanInv, ReaderTypes
  <2> HIDE DEF read, mine
  <2>5. a \in {"done", "reading"}
    BY <2>2
  <2>6. last + 1 \in Nat
    BY <1>3
  <2>7. /\ scan'.pos = last + 1 /\ scan'.end = scan.end /\ scan'.kind = scan.kind /\ scan'.got = f
        /\ scan'.at = a
    BY <2>3, <2>4
  <2>8. scan' \in [kind : {"none", "replay", "keys"}, at : {"idle", "reading", "done", "failed"},
                  pos : Nat, end : Nat, got : {f}]
    BY <2>3, <2>4, <2>5, <2>6
  <2> QED BY <2>1, <2>2, <2>7, <2>8
<1>5. mine \in SUBSET DOMAIN topicLog /\ \A o \in mine : ~topicLog[o].gone /\ scan.pos <= o /\ o <= last /\ o < scan.end
  BY DEF Held
<1>6. \A k \in ScanKeys :
        Folded(mine)[k] = LET n == NewestOf(mine, k) IN
                          IF n = 0 THEN scan.got[k] ELSE IF topicLog[n].dead THEN 0 ELSE n
  BY DEF Folded
<1>7. Folded(mine) \in [ScanKeys -> Nat]
  <2>1. \A k \in ScanKeys : NewestOf(mine, k) \in Nat
    BY <1>2, <1>5, NewestIs
  <2>2. \A k \in ScanKeys : Folded(mine)[k] \in Nat
    BY <2>1, <1>6 DEF ScanInv, ReaderTypes
  <2>3. Folded(mine) = [k \in ScanKeys |-> Folded(mine)[k]]
    BY DEF Folded
  <2> QED BY <2>2, <2>3
<1>8. ReaderTypes' /\ CompactedInv'
  BY <1>2, <1>4, <1>7 DEF ReaderTypes, CompactedInv, ScanInv
<1>9. IF Complete(read, last) THEN last + 1 >= scan.end ELSE last + 1 < scan.end
  <2>1. CASE scan.kind = "keys"
    <3>1. Complete(read, last) <=> scan.end - 1 \in read
      BY <2>1 DEF Complete, KeysComplete
    <3>2. last \in read
      BY <1>3
    <3>3. scan.end - 1 \in read => scan.end - 1 <= last
      BY <1>2
    <3> HIDE DEF read
    <3> QED BY <3>1, <3>2, <3>3, <2>1, <1>2, <1>3
  <2>2. CASE scan.kind # "keys"
    BY <2>2, <1>2, <1>3 DEF Complete, ReplayComplete
  <2> QED BY <2>1, <2>2
<1>10. ASSUME NEW k \in ScanKeys, ~Since(k, scan.end)
       PROVE  /\ (\A o \in DOMAIN topicLog : topicLog[o].key # k) => scan'.got[k] = 0
              /\ \A o \in DOMAIN topicLog : LastBelow(k, o, scan.end) =>
                   /\ topicLog[o].gone =>
                        /\ topicLog[o].dead /\ scan'.got[k] = 0
                        /\ \A p \in DOMAIN topicLog : topicLog[p].key = k => topicLog[p].gone
                   /\ ~topicLog[o].gone /\ o < scan'.pos => scan'.got[k] = Left(o)
  <2> HIDE DEF mine, read
  <2>0. ReadInv(k)
    BY <1>2 DEF ScanInv
  <2>n. /\ (\A o \in mine : topicLog[o].key # k) => NewestOf(mine, k) = 0
        /\ (\E o \in mine : topicLog[o].key = k) =>
             /\ NewestOf(mine, k) \in mine /\ topicLog[NewestOf(mine, k)].key = k
             /\ \A p \in mine : topicLog[p].key = k => p <= NewestOf(mine, k)
    BY <1>2, <1>5, NewestIs
  <2>1. (\A o \in mine : topicLog[o].key # k) => scan'.got[k] = scan.got[k]
    BY <2>n, <1>4, <1>6
  <2>2. ASSUME \A o \in DOMAIN topicLog : topicLog[o].key # k PROVE scan'.got[k] = 0
    BY <2>2, <2>1, <2>0, <1>5, <1>10 DEF ReadInv
  <2>3. ASSUME NEW o \in DOMAIN topicLog, LastBelow(k, o, scan.end), topicLog[o].gone
        PROVE  /\ topicLog[o].dead /\ scan'.got[k] = 0
               /\ \A p \in DOMAIN topicLog : topicLog[p].key = k => topicLog[p].gone
    BY <2>3, <2>1, <2>0, <1>5, <1>10 DEF ReadInv
  <2>4. ASSUME NEW o \in DOMAIN topicLog, LastBelow(k, o, scan.end), ~topicLog[o].gone, o < scan'.pos
        PROVE  scan'.got[k] = Left(o)
    <3>1. \A p \in mine : topicLog[p].key = k => p <= o
      BY <2>4, <1>5 DEF LastBelow
    <3>2. CASE o < scan.pos
      <4>1. \A p \in mine : topicLog[p].key # k
        BY <3>1, <3>2, <1>2, <1>5
      <4> QED BY <4>1, <3>2, <2>1, <2>0, <2>4, <1>10 DEF ReadInv
    <3>3. CASE ~(o < scan.pos)
      <4>1. o \in mine
        BY <3>3, <2>4, <1>2, <1>3, <1>4 DEF mine, read, Held, LastBelow
      <4>2. topicLog[o].key = k
        BY <2>4 DEF LastBelow
      <4>3. NewestOf(mine, k) \in mine /\ NewestOf(mine, k) <= o /\ o <= NewestOf(mine, k)
        BY <4>1, <4>2, <2>n, <3>1
      <4>4. NewestOf(mine, k) = o /\ o # 0
        BY <4>3, <1>2, <1>5
      <4> QED BY <4>4, <1>4, <1>6 DEF Left
    <3> QED BY <3>2, <3>3
  <2> QED BY <2>2, <2>3, <2>4
<1>11. ASSUME NEW k \in ScanKeys PROVE ReadInv(k)'
  <2>1. Since(k, scan.end)' <=> Since(k, scan.end)
    BY <1>2, <1>4 DEF Since
  <2>2. \A o \in DOMAIN topicLog : LastBelow(k, o, scan.end)' <=> LastBelow(k, o, scan.end)
    BY <1>2, <1>4 DEF LastBelow
  <2> QED BY <2>1, <2>2, <1>2, <1>10 DEF ReadInv, Left
<1>12. ASSUME Complete(read, last), NEW k \in ScanKeys PROVE DoneInv(k)'
  <2>1. last + 1 >= scan.end
    BY <1>9, <1>12
  <2>2. Since(k, scan.end)' <=> Since(k, scan.end)
    BY <1>2, <1>4 DEF Since
  <2>3. \A o \in DOMAIN topicLog : LastBelow(k, o, scan.end)' <=> LastBelow(k, o, scan.end)
    BY <1>2, <1>4 DEF LastBelow
  <2>4. \A o \in DOMAIN topicLog : LastBelow(k, o, scan.end) => o < scan'.pos
    BY <2>1, <1>2, <1>3, <1>4 DEF LastBelow
  <2>5. \A o \in DOMAIN topicLog : Left(o)' = Left(o)
    BY <1>2 DEF Left
  <2>6. \A o \in DOMAIN topicLog : topicLog[o].gone /\ topicLog[o].dead => Left(o) = 0
    BY DEF Left
  <2> QED BY <2>2, <2>3, <2>4, <2>5, <2>6, <1>2, <1>10 DEF DoneInv
<1>13. ~Complete(read, last) => scan'.pos \in 1..(scan'.end - 1)
  BY <1>2, <1>3, <1>4, <1>9
<1> HIDE DEF read, mine
<1> QED BY <1>2, <1>4, <1>8, <1>11, <1>12, <1>13 DEF ScanInv

(* A poll that fails ends the scan. *)
LEMMA PollFailsKeeps == ASSUME ScanInv, PollFails PROVE ScanInv'
<1>1. /\ topicLog' = topicLog /\ active' = active
      /\ scan' = [kind |-> scan.kind, at |-> "failed", pos |-> 1, end |-> 1, got |-> [k \in ScanKeys |-> 0]]
  BY DEF PollFails, NoScan
<1>2. Len(topicLog) \in Nat /\ scan.kind \in {"none", "replay", "keys"}
  BY DEF ScanInv, CompactedInv, ReaderTypes
<1>3. scan'.at = "failed" /\ ReaderTypes'
  BY <1>1, <1>2 DEF ReaderTypes
<1>4. CompactedInv'
  BY <1>1 DEF ScanInv, CompactedInv
<1> QED BY <1>3, <1>4 DEF ScanInv

(* What the invariant gives. *)
LEMMA ScanIsSafe == ASSUME ScanInv PROVE ScanIsCurrent /\ ScanCanFinish
<1>1. topicLog \in Seq(ScanRecords) /\ Len(topicLog) \in Nat /\ DOMAIN topicLog = 1..Len(topicLog)
      /\ scan.end \in 1..(Len(topicLog) + 1)
  BY DEF ScanInv, CompactedInv, ReaderTypes
<1>2. ASSUME scan.at = "done", NEW k \in ScanKeys, ~Since(k, scan.end)
      PROVE  LET before == {o \in DOMAIN topicLog : o < scan.end /\ topicLog[o].key = k}
                 newest == NewestOf(before, k)
             IN  scan.got[k] = IF newest = 0 \/ topicLog[newest].dead THEN 0 ELSE newest
  <2> DEFINE before == {o \in DOMAIN topicLog : o < scan.end /\ topicLog[o].key = k}
  <2>1. before \in SUBSET DOMAIN topicLog /\ DoneInv(k)
    BY <1>2 DEF ScanInv
  <2>2. /\ (\A o \in before : topicLog[o].key # k) => NewestOf(before, k) = 0
        /\ (\E o \in before : topicLog[o].key = k) =>
             /\ NewestOf(before, k) \in before /\ topicLog[NewestOf(before, k)].key = k
             /\ \A p \in before : topicLog[p].key = k => p <= NewestOf(before, k)
    BY <2>1, <1>1, NewestIs
  <2>3. CASE before = {}
    <3>1. NewestOf(before, k) = 0
      BY <2>2, <2>3
    <3>2. \A o \in DOMAIN topicLog : topicLog[o].key # k
      BY <2>3, <1>1, <1>2 DEF Since
    <3> QED BY <3>1, <3>2, <2>1, <1>2 DEF DoneInv
  <2>4. CASE before # {}
    <3>1. NewestOf(before, k) \in DOMAIN topicLog /\ LastBelow(k, NewestOf(before, k), scan.end)
      BY <2>2, <2>4 DEF LastBelow
    <3>2. scan.got[k] = Left(NewestOf(before, k)) /\ NewestOf(before, k) # 0
      BY <3>1, <2>1, <1>1, <1>2 DEF DoneInv
    <3> QED BY <3>2 DEF Left
  <2> QED BY <2>3, <2>4
<1>3. ScanIsCurrent
  BY <1>2 DEF ScanIsCurrent, Since
<1>4. ASSUME scan.at = "reading"
      PROVE  \E last \in {o \in Held : o >= scan.pos} :
               Complete({o \in Held : scan.pos <= o /\ o <= last}, last)
  <2>1. scan.pos \in 1..(scan.end - 1) /\ (scan.kind = "keys" => scan.end = Len(topicLog) + 1)
    BY <1>4 DEF ScanInv
  <2>2. Len(topicLog) # 0 /\ active <= Len(topicLog)
    BY <2>1, <1>1 DEF ScanInv, CompactedInv
  <2>3. Len(topicLog) \in Held
    BY <2>2, <1>1 DEF ScanInv, CompactedInv, Held
  <2>4. Len(topicLog) >= scan.pos /\ Len(topicLog) + 1 >= scan.end
    BY <2>1, <1>1
  <2>5. Complete({o \in Held : scan.pos <= o /\ o <= Len(topicLog)}, Len(topicLog))
    BY <2>1, <2>3, <2>4, <1>1 DEF Complete, KeysComplete, ReplayComplete
  <2> QED BY <2>3, <2>4, <2>5
<1> QED BY <1>3, <1>4 DEF ScanCanFinish

(* ScanInv holds throughout: a scan that reads on keeps, of every key that is *)
(* not written again, what its newest record says, under appends and          *)
(* compaction (recordlog's Replay and Keys).                                  *)
THEOREM ScanInvariant == Spec => []ScanInv
<1>1. Init => ScanInv
  BY ScanBegins DEF Init
<1>2. ScanInv /\ ScanNext => ScanInv'
  BY AppendKeeps, CompactKeeps, BeginKeeps, PollsKeeps, PollFailsKeeps DEF ScanNext
<1>3. ScanInv /\ UNCHANGED scanVars => ScanInv'
  BY DEF ScanInv, CompactedInv, ReaderTypes, ReadInv, DoneInv, Since, LastBelow, Left, scanVars
<1>4. [Next]_vars => ScanNext \/ UNCHANGED scanVars
  BY DEF Next, vars, partVars
<1> QED BY <1>1, <1>2, <1>3, <1>4, PTL DEF Spec

--------------------------------------------------------------------------------
(* The Command feed. *)

Counts == [Partitions -> Nat]
Buffers == [Partitions -> Seq(Nat)]

(* The source and the World: between them they hold every Command once. *)
SourceInv ==
  /\ end \in Counts /\ dropped \in Counts /\ expected \in Counts /\ applied \in Counts
  /\ buffers \in Buffers /\ batch \in Buffers
  /\ \A p \in Partitions : applied[p] <= expected[p] /\ expected[p] <= end[p]
  /\ ~inTick => batch = Nothing
  /\ FeedExact

(* The boundaries never go back. *)
RecordedInv ==
  /\ boundaries \in Seq(Counts)
  /\ \A i \in 1..Len(boundaries), p \in Partitions : boundaries[i][p] <= applied[p]
  /\ \A i, j \in 1..Len(boundaries) : i <= j => \A p \in Partitions : boundaries[i][p] <= boundaries[j][p]

(* A replica is at one of them, and its buffers follow on. *)
ReplicaInv ==
  replicaSource.is # "gap" =>
    /\ replicaSource \in [is : {"closed", "open"}, buf : Buffers, next : Counts, offsets : Counts, at : Nat]
    /\ replicaSource.at <= Len(boundaries)
    /\ replicaSource.offsets = IF replicaSource.at = 0 THEN AtZero ELSE boundaries[replicaSource.at]
    /\ \A p \in Partitions :
         /\ replicaSource.offsets[p] <= replicaSource.next[p]
         /\ replicaSource.buf[p] = Offsets(replicaSource.offsets[p], replicaSource.next[p])

FeedInv == SourceInv /\ RecordedInv /\ ReplicaInv

--------------------------------------------------------------------------------
(* Ranges of offsets, as sequences. *)

(* One sequence behind another. *)
LEMMA Joined ==
  ASSUME NEW s \in Seq(Nat), NEW t \in Seq(Nat)
  PROVE  /\ s \o t \in Seq(Nat) /\ Len(s \o t) = Len(s) + Len(t) /\ Len(s) \in Nat /\ Len(t) \in Nat
         /\ \A i \in 1..Len(s) : (s \o t)[i] = s[i]
         /\ \A i \in 1..Len(t) : (s \o t)[Len(s) + i] = t[i]
<1>1. Len(s) \in Nat /\ Len(t) \in Nat
  OBVIOUS
<1>2. /\ s \o t \in Seq(Nat) /\ Len(s \o t) = Len(s) + Len(t)
      /\ \A i \in 1..(Len(s) + Len(t)) : (s \o t)[i] = IF i <= Len(s) THEN s[i] ELSE t[i - Len(s)]
  BY ConcatProperties, Zenon
<1>3. ASSUME NEW i \in 1..Len(s) PROVE (s \o t)[i] = s[i]
  <2>1. i \in 1..(Len(s) + Len(t)) /\ i <= Len(s)
    BY <1>1
  <2> QED BY <2>1, <1>2, Zenon
<1>4. ASSUME NEW i \in 1..Len(t) PROVE (s \o t)[Len(s) + i] = t[i]
  <2>1. Len(s) + i \in 1..(Len(s) + Len(t)) /\ ~(Len(s) + i <= Len(s)) /\ (Len(s) + i) - Len(s) = i
    BY <1>1
  <2>2. (s \o t)[Len(s) + i] = t[(Len(s) + i) - Len(s)]
    BY <2>1, <1>2, Zenon
  <2> QED BY <2>1, <2>2, Zenon
<1> QED BY <1>1, <1>2, <1>3, <1>4, Zenon

(* A range of offsets, element by element. *)
LEMMA OffsetsAre ==
  ASSUME NEW a \in Nat, NEW b \in Nat, a <= b
  PROVE  /\ Offsets(a, b) \in Seq(Nat) /\ Len(Offsets(a, b)) = b - a
         /\ \A i \in 1..(b - a) : Offsets(a, b)[i] = a + i - 1
<1>1. b - a \in Nat
  OBVIOUS
<1>2. \A i \in 1..(b - a) : a + i - 1 \in Nat
  OBVIOUS
<1> QED BY <1>1, <1>2 DEF Offsets

(* An empty range. *)
LEMMA NoOffsets == ASSUME NEW a \in Nat PROVE Offsets(a, a) = <<>>
<1>1. Offsets(a, a) \in Seq(Nat) /\ Len(Offsets(a, a)) = 0
  BY OffsetsAre
<1> QED BY <1>1

(* Two ranges that meet are one. *)
LEMMA OffsetsJoin ==
  ASSUME NEW a \in Nat, NEW b \in Nat, NEW c \in Nat, a <= b, b <= c
  PROVE  Offsets(a, b) \o Offsets(b, c) = Offsets(a, c)
<1>0. a <= c
  OBVIOUS
<1>1. /\ Offsets(a, b) \in Seq(Nat) /\ Len(Offsets(a, b)) = b - a
      /\ Offsets(b, c) \in Seq(Nat) /\ Len(Offsets(b, c)) = c - b
      /\ Offsets(a, c) \in Seq(Nat) /\ Len(Offsets(a, c)) = c - a
  BY <1>0, OffsetsAre
<1>2. \A i \in 1..(c - a) : Offsets(a, c)[i] = a + i - 1
  BY <1>0, OffsetsAre
<1>3. \A i \in 1..(b - a) : Offsets(a, b)[i] = a + i - 1
  BY OffsetsAre
<1>4. \A i \in 1..(c - b) : Offsets(b, c)[i] = b + i - 1
  BY OffsetsAre
<1>5. PICK s \in Seq(Nat) : s = Offsets(a, b)
  BY <1>1
<1>6. PICK t \in Seq(Nat) : t = Offsets(b, c)
  BY <1>1
<1>j. /\ s \o t \in Seq(Nat) /\ Len(s \o t) = Len(s) + Len(t)
      /\ \A i \in 1..Len(s) : (s \o t)[i] = s[i]
      /\ \A i \in 1..Len(t) : (s \o t)[Len(s) + i] = t[i]
  BY Joined, Zenon
<1>k. Len(s) = b - a /\ Len(t) = c - b
  BY <1>1, <1>5, <1>6
<1>7. Len(s \o t) = c - a /\ s \o t \in Seq(Nat)
  BY <1>j, <1>k
<1>8. ASSUME NEW i \in 1..(c - a) PROVE (s \o t)[i] = a + i - 1
  <2>1. CASE i <= b - a
    <3>1. i \in 1..Len(s) /\ i \in 1..(b - a)
      BY <2>1, <1>k
    <3> QED BY <3>1, <1>3, <1>5, <1>j
  <2>2. CASE ~(i <= b - a)
    <3>1. i - (b - a) \in 1..(c - b)
      BY <2>2
    <3>2. (s \o t)[Len(s) + (i - (b - a))] = t[i - (b - a)]
      BY <3>1, <1>j, <1>k
    <3>3. Len(s) + (i - (b - a)) = i /\ t[i - (b - a)] = b + (i - (b - a)) - 1
      BY <3>1, <1>4, <1>6, <1>k
    <3>4. b + (i - (b - a)) - 1 = a + i - 1
      OBVIOUS
    <3> QED BY <3>2, <3>3, <3>4
  <2> QED BY <2>1, <2>2
<1>9. PICK u \in Seq(Nat) : u = Offsets(a, c) /\ Len(u) = c - a /\ \A i \in 1..(c - a) : u[i] = a + i - 1
  BY <1>1, <1>2, Zenon
<1>10. Len(s \o t) = Len(u) /\ \A i \in 1..Len(s \o t) : (s \o t)[i] = u[i]
  BY <1>7, <1>8, <1>9
<1>11. s \o t = u
  BY <1>7, <1>10, SeqEqual, Zenon
<1> QED BY <1>5, <1>6, <1>9, <1>11, Zenon

(* A sequence cut in two. *)
LEMMA CutInTwo ==
  ASSUME NEW s \in Seq(Nat), NEW k \in 0..Len(s)
  PROVE  /\ SubSeq(s, 1, k) \in Seq(Nat) /\ Len(SubSeq(s, 1, k)) = k
         /\ SubSeq(s, k + 1, Len(s)) \in Seq(Nat) /\ Len(SubSeq(s, k + 1, Len(s))) = Len(s) - k
         /\ \A i \in 1..k : SubSeq(s, 1, k)[i] = s[i]
         /\ \A i \in 1..(Len(s) - k) : SubSeq(s, k + 1, Len(s))[i] = s[k + i]
<1>1. Len(s) \in Nat /\ k \in Nat /\ k <= Len(s)
  OBVIOUS
<1>2. \A i \in 1..Len(s) : s[i] \in Nat
  OBVIOUS
<1>3. /\ SubSeq(s, 1, k) \in Seq(Nat) /\ Len(SubSeq(s, 1, k)) = IF 1 <= k THEN k - 1 + 1 ELSE 0
      /\ \A i \in 1..(k - 1 + 1) : SubSeq(s, 1, k)[i] = s[1 + i - 1]
  <2>1. 1 \in Int /\ k \in Int /\ \A i \in 1..k : s[i] \in Nat
    BY <1>1, <1>2
  <2> QED BY <2>1, SubSeqProperties
<1>4. /\ SubSeq(s, k + 1, Len(s)) \in Seq(Nat)
      /\ Len(SubSeq(s, k + 1, Len(s))) = IF k + 1 <= Len(s) THEN Len(s) - (k + 1) + 1 ELSE 0
      /\ \A i \in 1..(Len(s) - (k + 1) + 1) : SubSeq(s, k + 1, Len(s))[i] = s[(k + 1) + i - 1]
  <2>1. k + 1 \in Int /\ Len(s) \in Int /\ \A i \in (k + 1)..Len(s) : s[i] \in Nat
    BY <1>1, <1>2
  <2> QED BY <2>1, SubSeqProperties
<1>5. ASSUME NEW i \in 1..k PROVE SubSeq(s, 1, k)[i] = s[i]
  <2>1. i \in 1..(k - 1 + 1) /\ 1 + i - 1 = i
    BY <1>1
  <2> QED BY <2>1, <1>3
<1>6. ASSUME NEW i \in 1..(Len(s) - k) PROVE SubSeq(s, k + 1, Len(s))[i] = s[k + i]
  <2>1. i \in 1..(Len(s) - (k + 1) + 1) /\ (k + 1) + i - 1 = k + i
    BY <1>1
  <2> QED BY <2>1, <1>4
<1>7. Len(SubSeq(s, 1, k)) = k /\ Len(SubSeq(s, k + 1, Len(s))) = Len(s) - k
  BY <1>1, <1>3, <1>4
<1> QED BY <1>3, <1>4, <1>5, <1>6, <1>7

(* And put together again. *)
LEMMA CutRejoins ==
  ASSUME NEW s \in Seq(Nat), NEW k \in 0..Len(s)
  PROVE  SubSeq(s, 1, k) \o SubSeq(s, k + 1, Len(s)) = s
<1>1. PICK a \in Seq(Nat) : a = SubSeq(s, 1, k)
  BY CutInTwo
<1>2. PICK b \in Seq(Nat) : b = SubSeq(s, k + 1, Len(s))
  BY CutInTwo
<1>3. /\ Len(a) = k /\ Len(b) = Len(s) - k /\ k \in Nat /\ Len(s) \in Nat
      /\ \A i \in 1..k : a[i] = s[i]
      /\ \A i \in 1..(Len(s) - k) : b[i] = s[k + i]
  BY <1>1, <1>2, CutInTwo
<1>j. /\ a \o b \in Seq(Nat) /\ Len(a \o b) = Len(a) + Len(b)
      /\ \A i \in 1..Len(a) : (a \o b)[i] = a[i]
      /\ \A i \in 1..Len(b) : (a \o b)[Len(a) + i] = b[i]
  BY Joined, Zenon
<1>4. Len(a \o b) = Len(s) /\ a \o b \in Seq(Nat)
  BY <1>3, <1>j
<1>5. ASSUME NEW i \in 1..Len(s) PROVE (a \o b)[i] = s[i]
  <2>1. CASE i <= k
    BY <2>1, <1>3, <1>j
  <2>2. CASE ~(i <= k)
    <3>1. i - k \in 1..(Len(s) - k) /\ k + (i - k) = i
      BY <2>2, <1>3
    <3>2. (a \o b)[k + (i - k)] = b[i - k]
      BY <3>1, <1>3, <1>j
    <3>3. b[i - k] = s[k + (i - k)]
      BY <3>1, <1>3
    <3> QED BY <3>1, <3>2, <3>3
  <2> QED BY <2>1, <2>2
<1> QED BY <1>1, <1>2, <1>4, <1>5, SeqEqual

(* The first k of a range taken away. *)
LEMMA OffsetsDropped ==
  ASSUME NEW s \in Seq(Nat), NEW t \in Seq(Nat), NEW a \in Nat, NEW b \in Nat, a <= b,
         s \o t = Offsets(a, b), NEW k \in 0..Len(s)
  PROVE  /\ a + k <= b
         /\ SubSeq(s, k + 1, Len(s)) \o t = Offsets(a + k, b)
<1>1. /\ Offsets(a, b) \in Seq(Nat) /\ Len(Offsets(a, b)) = b - a
      /\ \A i \in 1..(b - a) : Offsets(a, b)[i] = a + i - 1
  BY OffsetsAre
<1>j. /\ Len(s \o t) = Len(s) + Len(t) /\ Len(s) \in Nat /\ Len(t) \in Nat
      /\ \A i \in 1..Len(s) : (s \o t)[i] = s[i]
      /\ \A i \in 1..Len(t) : (s \o t)[Len(s) + i] = t[i]
  BY Joined, Zenon
<1>2. Len(s) \in Nat /\ Len(t) \in Nat /\ k \in Nat /\ k <= Len(s) /\ Len(s) + Len(t) = b - a
  <2>1. Len(s \o t) = b - a
    BY <1>1, Zenon
  <2>2. Len(s) + Len(t) = b - a /\ Len(s) \in Nat /\ Len(t) \in Nat
    BY <2>1, <1>j, Zenon
  <2> QED BY <2>2
<1>3. a + k <= b /\ a + k \in Nat
  BY <1>2
<1>4. /\ Offsets(a + k, b) \in Seq(Nat) /\ Len(Offsets(a + k, b)) = b - (a + k)
      /\ \A i \in 1..(b - (a + k)) : Offsets(a + k, b)[i] = (a + k) + i - 1
  BY <1>3, OffsetsAre
<1>5. PICK r \in Seq(Nat) : r = SubSeq(s, k + 1, Len(s))
  BY CutInTwo
<1>6. Len(r) = Len(s) - k /\ \A i \in 1..(Len(s) - k) : r[i] = s[k + i]
  BY <1>5, CutInTwo
<1>i. /\ r \o t \in Seq(Nat) /\ Len(r \o t) = Len(r) + Len(t)
      /\ \A i \in 1..Len(r) : (r \o t)[i] = r[i]
      /\ \A i \in 1..Len(t) : (r \o t)[Len(r) + i] = t[i]
  BY Joined, Zenon
<1>7. r \o t \in Seq(Nat) /\ Len(r \o t) = b - (a + k)
  BY <1>2, <1>6, <1>i
<1>8. ASSUME NEW i \in 1..(b - (a + k)) PROVE (r \o t)[i] = (a + k) + i - 1
  <2>1. k + i \in 1..(b - a)
    BY <1>2, <1>3
  <2>2. (s \o t)[k + i] = a + (k + i) - 1
    BY <2>1, <1>1
  <2>3. CASE i <= Len(r)
    <3>0. i \in Nat /\ 1 <= i /\ Len(r) \in Nat
      BY <1>3
    <3>1. i \in 1..Len(r) /\ i \in 1..(Len(s) - k) /\ k + i \in 1..Len(s)
      BY <3>0, <2>3, <1>2, <1>6
    <3>2. (r \o t)[i] = r[i] /\ r[i] = s[k + i] /\ (s \o t)[k + i] = s[k + i]
      BY <3>1, <1>i, <1>6, <1>j
    <3>3. a + (k + i) - 1 = (a + k) + i - 1
      BY <1>2
    <3> QED BY <3>2, <3>3, <2>2
  <2>4. CASE ~(i <= Len(r))
    <3>1. PICK j \in 1..Len(t) : Len(r) + j = i /\ Len(s) + j = k + i
      <4>1. i - Len(r) \in 1..Len(t) /\ Len(r) + (i - Len(r)) = i /\ Len(s) + (i - Len(r)) = k + i
        BY <2>4, <1>2, <1>6
      <4> QED BY <4>1
    <3>2. (r \o t)[i] = t[j] /\ (s \o t)[k + i] = t[j]
      BY <3>1, <1>i, <1>j
    <3>3. a + (k + i) - 1 = (a + k) + i - 1
      BY <1>2
    <3> QED BY <3>2, <3>3, <2>2
  <2> QED BY <2>3, <2>4
<1> QED BY <1>3, <1>4, <1>5, <1>7, <1>8, SeqEqual

(* A range with nothing behind it. *)
LEMMA RangeDropped ==
  ASSUME NEW a \in Nat, NEW b \in Nat, a <= b, NEW k \in 0..(b - a)
  PROVE  /\ a + k <= b /\ SubSeq(Offsets(a, b), k + 1, Len(Offsets(a, b))) = Offsets(a + k, b)
<1>1. PICK s \in Seq(Nat) : s = Offsets(a, b) /\ Len(s) = b - a
  BY OffsetsAre
<1>2. s \o <<>> = s /\ <<>> \in Seq(Nat)
  BY <1>1
<1>3. a + k <= b /\ SubSeq(s, k + 1, Len(s)) \o <<>> = Offsets(a + k, b)
  <2>1. k \in 0..Len(s) /\ s \o <<>> = Offsets(a, b)
    BY <1>1, <1>2
  <2> QED BY <2>1, <1>2, OffsetsDropped
<1>4. SubSeq(s, k + 1, Len(s)) \in Seq(Nat)
  BY <1>1, CutInTwo
<1> QED BY <1>1, <1>3, <1>4

--------------------------------------------------------------------------------
(* The source. *)

(* A fetch takes what decodes. *)
LEMMA DecodedIs ==
  ASSUME NEW p \in Partitions, NEW a \in Nat, NEW b \in Nat, a <= b
  PROVE  /\ Decoded(p, a, b) \in a..b
         /\ \A o \in a..(Decoded(p, a, b) - 1) : <<p, o>> \notin garbled
<1> DEFINE G == {o \in a..(b - 1) : <<p, o>> \in garbled}
<1>1. CASE G = {}
  BY <1>1 DEF Decoded
<1>2. CASE G # {}
  <2>1. G \in SUBSET Nat
    OBVIOUS
  <2>2. Min(G) \in G /\ \A x \in G : Min(G) <= x
    BY <1>2, <2>1, MinIsLeast
  <2>3. Decoded(p, a, b) = Min(G)
    BY <1>2 DEF Decoded
  <2>4. \A o \in a..(Min(G) - 1) : o \in a..(b - 1) /\ o < Min(G)
    BY <2>1, <2>2
  <2>5. \A o \in a..(Min(G) - 1) : o \notin G
    BY <2>1, <2>2, <2>4
  <2> QED BY <2>2, <2>3, <2>4, <2>5
<1> QED BY <1>1, <1>2

(* A Partition gives no more than its buffer holds. *)
LEMMA ShareIs ==
  ASSUME buffers \in Buffers, NEW m, NEW p \in Partitions
  PROVE  Share(m)[p] \in 0..Len(buffers[p])
<1> DEFINE S == {i \in 1..Len(buffers[p]) : p \notin frozen /\ Cardinality(Before(i, p)) < m}
<1>1. Len(buffers[p]) \in Nat /\ 1 \in Int /\ Len(buffers[p]) \in Int
  BY DEF Buffers
<1>2. IsFiniteSet(1..Len(buffers[p])) /\ Cardinality(1..Len(buffers[p])) =
        IF 1 > Len(buffers[p]) THEN 0 ELSE Len(buffers[p]) - 1 + 1
  BY <1>1, FS_Interval
<1>3. Cardinality(1..Len(buffers[p])) = Len(buffers[p])
  BY <1>1, <1>2
<1>4. S \in SUBSET (1..Len(buffers[p]))
  OBVIOUS
<1> HIDE DEF S
<1>5. IsFiniteSet(S) /\ Cardinality(S) <= Len(buffers[p])
  BY <1>2, <1>3, <1>4, FS_Subset
<1>6. Cardinality(S) \in Nat
  BY <1>5, FS_CardinalityType
<1>7. Share(m)[p] = Cardinality(S)
  BY DEF Share, S
<1> QED BY <1>1, <1>5, <1>6, <1>7

(* Fetched records go behind the ones that are buffered. *)
LEMMA FetchKeeps == ASSUME FeedInv, Fetch PROVE FeedInv'
<1>1. PICK upTo \in [Partitions -> 0..MaxCommands] :
        /\ \A p \in Partitions :
             IF p \in paused THEN upTo[p] = expected[p] ELSE upTo[p] \in expected[p]..end[p]
        /\ LET lost == {p \in Partitions \ paused : expected[p] < dropped[p]}
               got  == [p \in Partitions |-> IF p \in lost THEN expected[p]
                                             ELSE Decoded(p, expected[p], upTo[p])]
               bufs == [p \in Partitions |-> buffers[p] \o Offsets(expected[p], got[p])]
           IN buffers' = bufs /\ expected' = got
  BY DEF Fetch
<1>2. UNCHANGED <<end, dropped, garbled, batch, inTick, applied, boundaries, replicaSource>>
  BY DEF Fetch, logVars, feedWorld
<1>t. /\ end \in Counts /\ dropped \in Counts /\ expected \in Counts /\ applied \in Counts
      /\ buffers \in Buffers /\ batch \in Buffers /\ FeedExact
      /\ \A p \in Partitions : applied[p] <= expected[p] /\ expected[p] <= end[p]
  BY DEF FeedInv, SourceInv
<1>3. ASSUME NEW p \in Partitions
      PROVE  /\ expected'[p] \in expected[p]..end[p]
             /\ \A o \in expected[p]..(expected'[p] - 1) : <<p, o>> \notin garbled
             /\ buffers'[p] = buffers[p] \o Offsets(expected[p], expected'[p])
  <2>0. expected[p] \in Nat /\ end[p] \in Nat /\ expected[p] <= end[p]
    BY <1>t DEF Counts
  <2>1. upTo[p] \in expected[p]..end[p] /\ upTo[p] \in Nat /\ expected[p] <= upTo[p]
    BY <1>1, <2>0
  <2>2. /\ Decoded(p, expected[p], upTo[p]) \in expected[p]..upTo[p]
        /\ \A o \in expected[p]..(Decoded(p, expected[p], upTo[p]) - 1) : <<p, o>> \notin garbled
    BY <2>0, <2>1, DecodedIs
  <2>3. expected'[p] = expected[p] \/ expected'[p] = Decoded(p, expected[p], upTo[p])
    BY <1>1
  <2>4. buffers'[p] = buffers[p] \o Offsets(expected[p], expected'[p])
    BY <1>1
  <2>5. expected[p]..(expected[p] - 1) = {}
    BY <2>0
  <2> QED BY <2>0, <2>1, <2>2, <2>3, <2>4, <2>5
<1>4. expected' \in Counts
  <2>1. ASSUME NEW p \in Partitions PROVE expected'[p] \in Nat
    <3>1. expected[p] \in Nat /\ end[p] \in Nat
      BY <1>t DEF Counts
    <3>2. expected'[p] \in expected[p]..end[p]
      BY <1>3, Zenon
    <3> QED BY <3>1, <3>2
  <2>2. DOMAIN expected' = Partitions /\ expected' = [p \in Partitions |-> expected'[p]]
    BY <1>1
  <2> QED BY <2>1, <2>2 DEF Counts
<1>5. ASSUME NEW p \in Partitions
      PROVE  buffers'[p] \in Seq(Nat) /\ batch[p] \o buffers'[p] = Offsets(applied[p], expected'[p])
  <2>1. /\ batch[p] \in Seq(Nat) /\ buffers[p] \in Seq(Nat)
        /\ applied[p] \in Nat /\ expected[p] \in Nat /\ expected'[p] \in Nat
        /\ applied[p] <= expected[p] /\ expected[p] <= expected'[p]
    BY <1>3, <1>4, <1>t DEF Counts, Buffers
  <2>2. Offsets(expected[p], expected'[p]) \in Seq(Nat)
    BY <2>1, OffsetsAre
  <2>3. batch[p] \o (buffers[p] \o Offsets(expected[p], expected'[p]))
          = (batch[p] \o buffers[p]) \o Offsets(expected[p], expected'[p])
    <3>1. PICK a \in Seq(Nat), b \in Seq(Nat), c \in Seq(Nat) :
            a = batch[p] /\ b = buffers[p] /\ c = Offsets(expected[p], expected'[p])
      BY <2>1, <2>2, Zenon
    <3>2. (a \o b) \o c = a \o (b \o c)
      BY ConcatAssociative, SMTT(30)
    <3> QED BY <3>1, <3>2, Zenon
  <2>4. batch[p] \o buffers[p] = Offsets(applied[p], expected[p])
    BY <1>t DEF FeedExact
  <2>5. Offsets(applied[p], expected[p]) \o Offsets(expected[p], expected'[p]) = Offsets(applied[p], expected'[p])
    BY <2>1, OffsetsJoin
  <2>6. buffers[p] \o Offsets(expected[p], expected'[p]) \in Seq(Nat)
    BY <2>1, <2>2, Joined, Zenon
  <2> QED BY <2>3, <2>4, <2>5, <2>6, <1>3, Zenon
<1>6. buffers' \in Buffers
  <2>1. DOMAIN buffers' = Partitions /\ buffers' = [p \in Partitions |-> buffers'[p]]
    BY <1>1
  <2> QED BY <2>1, <1>5 DEF Buffers
<1>7. ASSUME NEW p \in Partitions PROVE applied[p] <= expected'[p] /\ expected'[p] <= end[p]
  <2>1. expected[p] \in Nat /\ end[p] \in Nat /\ applied[p] \in Nat /\ applied[p] <= expected[p]
    BY <1>t DEF Counts
  <2>2. expected'[p] \in expected[p]..end[p]
    BY <1>3, Zenon
  <2> QED BY <2>1, <2>2
<1>8. ASSUME NEW p \in Partitions, NEW o \in 0..(expected'[p] - 1) PROVE <<p, o>> \notin garbled
  <2>1. expected[p] \in Nat /\ expected'[p] \in Nat
    BY <1>t, <1>4 DEF Counts
  <2>2. o \in 0..(expected[p] - 1) \/ o \in expected[p]..(expected'[p] - 1)
    BY <2>1
  <2> QED BY <2>2, <1>3, <1>t DEF FeedExact
<1>9. SourceInv'
  BY <1>2, <1>t, <1>4, <1>5, <1>6, <1>7, <1>8 DEF FeedInv, SourceInv, FeedExact, Nothing
<1> QED BY <1>2, <1>9 DEF FeedInv, RecordedInv, ReplicaInv, AtZero

(* The tick takes the front of each buffer. *)
LEMMA PollKeeps == ASSUME FeedInv, Poll PROVE FeedInv'
<1>1. PICK n : n = Share(MaxPerTick)
  OBVIOUS
<1>2. /\ batch' = [p \in Partitions |-> SubSeq(buffers[p], 1, n[p])]
      /\ buffers' = [p \in Partitions |-> SubSeq(buffers[p], n[p] + 1, Len(buffers[p]))]
      /\ ~inTick /\ inTick' = TRUE
      /\ UNCHANGED <<end, dropped, garbled, expected, applied, boundaries, replicaSource>>
  BY <1>1 DEF Poll, logVars
<1>3. buffers \in Buffers /\ batch = Nothing /\ FeedExact
  BY <1>2 DEF FeedInv, SourceInv
<1>4. ASSUME NEW p \in Partitions
      PROVE  /\ batch'[p] \in Seq(Nat) /\ buffers'[p] \in Seq(Nat)
             /\ batch'[p] \o buffers'[p] = Offsets(applied[p], expected[p])
  <2>1. n[p] \in 0..Len(buffers[p]) /\ buffers[p] \in Seq(Nat)
    BY <1>1, <1>3, ShareIs DEF Buffers
  <2>2. /\ SubSeq(buffers[p], 1, n[p]) \in Seq(Nat)
        /\ SubSeq(buffers[p], n[p] + 1, Len(buffers[p])) \in Seq(Nat)
    BY <2>1, CutInTwo
  <2>3. SubSeq(buffers[p], 1, n[p]) \o SubSeq(buffers[p], n[p] + 1, Len(buffers[p])) = buffers[p]
    BY <2>1, CutRejoins
  <2>4. batch[p] = <<>> /\ batch[p] \o buffers[p] = Offsets(applied[p], expected[p])
    BY <1>3 DEF Nothing, FeedExact
  <2>5. <<>> \o buffers[p] = buffers[p]
    BY <2>1
  <2> QED BY <2>2, <2>3, <2>4, <2>5, <1>2
<1>5. batch' \in Buffers /\ buffers' \in Buffers
  <2>1. batch' = [p \in Partitions |-> batch'[p]] /\ buffers' = [p \in Partitions |-> buffers'[p]]
    BY <1>2
  <2> QED BY <2>1, <1>4 DEF Buffers
<1>6. SourceInv'
  BY <1>2, <1>3, <1>4, <1>5 DEF FeedInv, SourceInv, FeedExact
<1> QED BY <1>2, <1>6 DEF FeedInv, RecordedInv, ReplicaInv, AtZero

(* A tick: what was applied leaves the front, the rest goes back to it. *)
LEMMA StepKeeps ==
  ASSUME FeedInv, NEW fault \in {<<>>} \cup (Partitions \X (1..MaxPerTick)), StepAll(fault)
  PROVE  FeedInv'
<1>t. /\ end \in Counts /\ dropped \in Counts /\ expected \in Counts /\ applied \in Counts
      /\ buffers \in Buffers /\ batch \in Buffers /\ FeedExact
      /\ \A p \in Partitions : applied[p] <= expected[p] /\ expected[p] <= end[p]
  BY DEF FeedInv, SourceInv
<1>1. PICK kept : kept = [p \in Partitions |-> IF fault # <<>> /\ fault[1] = p THEN fault[2] - 1 ELSE Len(batch[p])]
  OBVIOUS
<1>2. PICK now : now = [p \in Partitions |-> applied[p] + kept[p]]
  OBVIOUS
<1>3. /\ applied' = now
      /\ buffers' = [p \in Partitions |-> SubSeq(batch[p], kept[p] + 1, Len(batch[p])) \o buffers[p]]
      /\ boundaries' = IF now = applied THEN boundaries ELSE Append(boundaries, now)
      /\ batch' = [p \in Partitions |-> <<>>]
      /\ UNCHANGED <<end, dropped, garbled, expected, replicaSource>>
  <2>1. \A p \in Partitions : kept[p] = IF fault # <<>> /\ fault[1] = p THEN fault[2] - 1 ELSE Len(batch[p])
    BY <1>1
  <2>2. now = [p \in Partitions |-> applied[p] + (IF fault # <<>> /\ fault[1] = p THEN fault[2] - 1 ELSE Len(batch[p]))]
    BY <1>2, <2>1
  <2>3. \A p \in Partitions : Requeued([q \in Partitions |-> SubSeq(batch[q], kept[q] + 1, Len(batch[q]))])[p]
                              = SubSeq(batch[p], kept[p] + 1, Len(batch[p])) \o buffers[p]
    BY DEF Requeued
  <2>4. [q \in Partitions |-> SubSeq(batch[q], kept[q] + 1, Len(batch[q]))] =
        [q \in Partitions |-> SubSeq(batch[q], (IF fault # <<>> /\ fault[1] = q THEN fault[2] - 1 ELSE Len(batch[q])) + 1,
                                     Len(batch[q]))]
    BY <2>1
  <2>5. Requeued([q \in Partitions |-> SubSeq(batch[q], kept[q] + 1, Len(batch[q]))])
          = [p \in Partitions |-> SubSeq(batch[p], kept[p] + 1, Len(batch[p])) \o buffers[p]]
    BY DEF Requeued
  <2> QED BY <2>2, <2>4, <2>5, Zenon DEF StepAll, logVars
<1>4. ASSUME NEW p \in Partitions PROVE kept[p] \in 0..Len(batch[p]) /\ Len(batch[p]) \in Nat /\ batch[p] \in Seq(Nat)
  <2>1. batch[p] \in Seq(Nat) /\ Len(batch[p]) \in Nat
    BY <1>t DEF Buffers
  <2>2. fault # <<>> /\ fault[1] = p => fault[2] \in 1..Len(batch[p])
    BY DEF StepAll
  <2>3. kept[p] = IF fault # <<>> /\ fault[1] = p THEN fault[2] - 1 ELSE Len(batch[p])
    BY <1>1
  <2> QED BY <2>1, <2>2, <2>3
<1>5. ASSUME NEW p \in Partitions
      PROVE  /\ now[p] \in Nat /\ applied[p] <= now[p] /\ now[p] <= expected[p]
             /\ buffers'[p] \in Seq(Nat) /\ <<>> \o buffers'[p] = Offsets(now[p], expected[p])
  <2>1. /\ buffers[p] \in Seq(Nat) /\ applied[p] \in Nat /\ expected[p] \in Nat /\ applied[p] <= expected[p]
        /\ batch[p] \o buffers[p] = Offsets(applied[p], expected[p])
    BY <1>t DEF Buffers, Counts, FeedExact
  <2>2. now[p] = applied[p] + kept[p] /\ buffers'[p] = SubSeq(batch[p], kept[p] + 1, Len(batch[p])) \o buffers[p]
    BY <1>2, <1>3
  <2>3. /\ applied[p] + kept[p] <= expected[p]
        /\ SubSeq(batch[p], kept[p] + 1, Len(batch[p])) \o buffers[p] = Offsets(applied[p] + kept[p], expected[p])
    <3>1. PICK u \in Seq(Nat), t \in Seq(Nat), a \in Nat, b \in Nat :
            u = batch[p] /\ t = buffers[p] /\ a = applied[p] /\ b = expected[p]
      BY <2>1, <1>4, Zenon
    <3>2. PICK k : k = kept[p]
      OBVIOUS
    <3>3. a <= b /\ u \o t = Offsets(a, b) /\ k \in 0..Len(u)
      BY <3>1, <3>2, <2>1, <1>4, Zenon
    <3>4. a + k <= b /\ SubSeq(u, k + 1, Len(u)) \o t = Offsets(a + k, b)
      BY <3>3, OffsetsDropped
    <3> QED BY <3>1, <3>2, <3>4, Zenon
  <2>4. kept[p] \in Nat
    BY <1>4
  <2>5. now[p] \in Nat /\ applied[p] <= now[p] /\ now[p] <= expected[p]
    BY <2>1, <2>2, <2>3, <2>4
  <2>6. Offsets(now[p], expected[p]) \in Seq(Nat) /\ buffers'[p] = Offsets(now[p], expected[p])
    BY <2>1, <2>2, <2>3, <2>5, OffsetsAre
  <2> QED BY <2>5, <2>6
<1>6. now \in Counts /\ buffers' \in Buffers /\ batch' \in Buffers /\ batch' = Nothing
  <2>1. now = [p \in Partitions |-> now[p]] /\ buffers' = [p \in Partitions |-> buffers'[p]]
    BY <1>2, <1>3
  <2>2. now \in Counts /\ buffers' \in Buffers
    BY <2>1, <1>5 DEF Counts, Buffers
  <2> QED BY <2>2, <1>3 DEF Buffers, Nothing
<1>7. SourceInv'
  <2>1. FeedExact'
    BY <1>3, <1>5, <1>t DEF FeedExact
  <2>2. \A p \in Partitions : applied'[p] <= expected'[p] /\ expected'[p] <= end'[p]
    BY <1>3, <1>5, <1>t
  <2> QED BY <2>1, <2>2, <1>3, <1>6, <1>t DEF SourceInv
<1>8. RecordedInv'
  <2>0. /\ boundaries \in Seq(Counts) /\ Len(boundaries) \in Nat
        /\ \A i \in 1..Len(boundaries) : boundaries[i] \in Counts
        /\ \A i \in 1..Len(boundaries), p \in Partitions : boundaries[i][p] <= applied[p]
        /\ \A i, j \in 1..Len(boundaries) : i <= j => \A p \in Partitions : boundaries[i][p] <= boundaries[j][p]
    BY DEF FeedInv, RecordedInv
  <2>1. ASSUME NEW i \in 1..Len(boundaries), NEW p \in Partitions PROVE boundaries[i][p] <= now[p]
    <3>1. boundaries[i][p] \in Nat /\ applied[p] \in Nat /\ now[p] \in Nat
      BY <2>0, <1>t, <1>6 DEF Counts
    <3> QED BY <3>1, <2>0, <1>5
  <2>2. CASE now = applied
    BY <2>0, <2>2, <1>3 DEF RecordedInv
  <2>3. CASE now # applied
    <3>1. /\ boundaries' \in Seq(Counts) /\ Len(boundaries') = Len(boundaries) + 1
          /\ \A i \in 1..Len(boundaries) : boundaries'[i] = boundaries[i]
          /\ boundaries'[Len(boundaries) + 1] = now
      BY <2>0, <2>3, <1>3, <1>6
    <3>2. \A i \in 1..Len(boundaries') : i \in 1..Len(boundaries) \/ i = Len(boundaries) + 1
      BY <3>1, <2>0
    <3>3. \A p \in Partitions : now[p] <= now[p]
      BY <1>5
    <3>4. ASSUME NEW i \in 1..Len(boundaries'), NEW p \in Partitions PROVE boundaries'[i][p] <= applied'[p]
      BY <3>1, <3>2, <3>3, <2>1, <1>3
    <3>5. ASSUME NEW i \in 1..Len(boundaries'), NEW j \in 1..Len(boundaries'), i <= j, NEW p \in Partitions
          PROVE  boundaries'[i][p] <= boundaries'[j][p]
      <4>1. CASE j = Len(boundaries) + 1
        BY <4>1, <3>1, <3>4, <1>3
      <4>2. CASE j # Len(boundaries) + 1
        <5>1. i \in 1..Len(boundaries) /\ j \in 1..Len(boundaries)
          BY <4>2, <3>2, <3>5, <2>0
        <5> QED BY <5>1, <3>1, <3>5, <2>0
      <4> QED BY <4>1, <4>2
    <3> QED BY <3>1, <3>4, <3>5 DEF RecordedInv
  <2> QED BY <2>2, <2>3
<1>9. ReplicaInv'
  <2>1. /\ boundaries \in Seq(Counts) /\ Len(boundaries) \in Nat /\ Len(boundaries') \in Nat
        /\ Len(boundaries) <= Len(boundaries')
        /\ \A i \in 1..Len(boundaries) : boundaries'[i] = boundaries[i]
    BY <1>3, <1>6 DEF FeedInv, RecordedInv
  <2> SUFFICES ASSUME replicaSource.is # "gap" PROVE ReplicaInv'
    BY <1>3 DEF ReplicaInv
  <2>2. /\ replicaSource \in [is : {"closed", "open"}, buf : Buffers, next : Counts, offsets : Counts, at : Nat]
        /\ replicaSource.at <= Len(boundaries) /\ replicaSource.at \in Nat
        /\ replicaSource.offsets = IF replicaSource.at = 0 THEN AtZero ELSE boundaries[replicaSource.at]
    BY DEF FeedInv, ReplicaInv
  <2>3. replicaSource.at # 0 => boundaries'[replicaSource.at] = boundaries[replicaSource.at]
    BY <2>1, <2>2
  <2>4. replicaSource.at <= Len(boundaries')
    BY <2>1, <2>2
  <2> QED BY <2>2, <2>3, <2>4, <1>3 DEF FeedInv, ReplicaInv, AtZero
<1> QED BY <1>7, <1>8, <1>9 DEF FeedInv

(* The log grows and is cut, and what fails changes nothing that is held. *)
LEMMA FeedLogKeeps ==
  ASSUME FeedInv, NEW p \in Partitions, ProduceCommand(p) \/ ProduceGarbled(p) \/ DropOldest(p)
  PROVE  FeedInv'
<1>t. /\ end \in Counts /\ dropped \in Counts /\ expected \in Counts /\ applied \in Counts
      /\ \A q \in Partitions : applied[q] <= expected[q] /\ expected[q] <= end[q]
      /\ FeedExact
  BY DEF FeedInv, SourceInv
<1>1. /\ UNCHANGED <<buffers, expected, batch, inTick, applied, boundaries, replicaSource>>
      /\ end' = end \/ end' = [end EXCEPT ![p] = @ + 1]
      /\ dropped' = dropped \/ dropped' = [dropped EXCEPT ![p] = @ + 1]
      /\ garbled' \subseteq garbled \cup {<<p, end[p]>>}
  BY DEF ProduceCommand, ProduceGarbled, DropOldest, sourceVars, feedWorld
<1>2. end' \in Counts /\ dropped' \in Counts /\ \A q \in Partitions : expected[q] <= end'[q]
  BY <1>1, <1>t DEF Counts
<1>3. ASSUME NEW q \in Partitions, NEW o \in 0..(expected[q] - 1) PROVE <<q, o>> \notin garbled'
  <2>1. <<q, o>> \notin garbled
    BY <1>t DEF FeedExact
  <2>2. <<q, o>> # <<p, end[p]>>
    BY <1>t DEF Counts
  <2> QED BY <2>1, <2>2, <1>1
<1>4. FeedExact'
  BY <1>1, <1>3, <1>t DEF FeedExact
<1>5. SourceInv'
  BY <1>1, <1>2, <1>4 DEF FeedInv, SourceInv, Nothing
<1> QED BY <1>1, <1>5 DEF FeedInv, RecordedInv, ReplicaInv, AtZero

(* A step of the replica leaves the source and the World alone. *)
LEMMA FeedStays ==
  ASSUME FeedInv,
         UNCHANGED <<end, dropped, garbled, buffers, expected, batch, inTick, applied, boundaries>>, ReplicaInv'
  PROVE  FeedInv'
BY DEF FeedInv, SourceInv, FeedExact, Nothing, RecordedInv

(* The replica reads on. *)
LEMMA ReplicaPollKeeps ==
  ASSUME FeedInv, NEW p \in Partitions, ReplicaPoll(p)
  PROVE  FeedInv'
<1>1. PICK n, f, g :
        /\ n \in (replicaSource.next[p] + 1)..end[p] /\ g \in BOOLEAN
        /\ f = replicaSource.buf[p] \o Offsets(replicaSource.next[p], n)
        /\ replicaSource' = [replicaSource EXCEPT
             !.is = IF g THEN "gap" ELSE "open", !.buf[p] = IF g THEN @ ELSE f, !.next[p] = n]
  <2>1. PICK n \in (replicaSource.next[p] + 1)..end[p] :
          LET got == Decoded(p, replicaSource.next[p], n)
          IN replicaSource' = [replicaSource EXCEPT
               !.is      = IF replicaSource.next[p] < dropped[p] \/ got < n THEN "gap" ELSE "open",
               !.buf[p]  = IF replicaSource.next[p] < dropped[p] \/ got < n THEN @
                           ELSE @ \o Offsets(replicaSource.next[p], n),
               !.next[p] = n]
    BY DEF ReplicaPoll
  <2>2. PICK f : f = replicaSource.buf[p] \o Offsets(replicaSource.next[p], n)
    OBVIOUS
  <2> DEFINE lost == replicaSource.next[p] < dropped[p] \/ Decoded(p, replicaSource.next[p], n) < n
  <2>3. replicaSource' = [replicaSource EXCEPT
          !.is = IF lost THEN "gap" ELSE "open", !.buf[p] = IF lost THEN @ ELSE f, !.next[p] = n]
    BY <2>1, <2>2, Zenon
  <2> HIDE DEF lost
  <2>4. CASE lost
    <3>1. replicaSource' = [replicaSource EXCEPT
            !.is = IF TRUE THEN "gap" ELSE "open", !.buf[p] = IF TRUE THEN @ ELSE f, !.next[p] = n]
      BY <2>3, <2>4
    <3> QED BY <2>2, <3>1
  <2>5. CASE ~lost
    <3>1. replicaSource' = [replicaSource EXCEPT
            !.is = IF FALSE THEN "gap" ELSE "open", !.buf[p] = IF FALSE THEN @ ELSE f, !.next[p] = n]
      BY <2>3, <2>5
    <3> QED BY <2>2, <3>1
  <2> QED BY <2>4, <2>5
<1>2. /\ UNCHANGED <<end, dropped, garbled, buffers, expected, batch, inTick, applied, boundaries>>
      /\ replicaSource.is = "open"
  BY DEF ReplicaPoll, logVars, sourceVars, feedWorld
<1>3. /\ replicaSource \in [is : {"closed", "open"}, buf : Buffers, next : Counts, offsets : Counts, at : Nat]
      /\ replicaSource.at <= Len(boundaries)
      /\ replicaSource.offsets = IF replicaSource.at = 0 THEN AtZero ELSE boundaries[replicaSource.at]
      /\ \A q \in Partitions :
           /\ replicaSource.offsets[q] <= replicaSource.next[q]
           /\ replicaSource.buf[q] = Offsets(replicaSource.offsets[q], replicaSource.next[q])
  BY <1>2 DEF FeedInv, ReplicaInv
<1>4. CASE g
  BY <1>1, <1>2, <1>3, <1>4, FeedStays DEF ReplicaInv
<1>5. CASE ~g
  <2>1. /\ replicaSource.next[p] \in Nat /\ replicaSource.offsets[p] \in Nat /\ end[p] \in Nat
        /\ n \in Nat /\ replicaSource.next[p] <= n
    BY <1>1, <1>3 DEF FeedInv, SourceInv, Counts
  <2>2. f = Offsets(replicaSource.offsets[p], n) /\ f \in Seq(Nat) /\ replicaSource.offsets[p] <= n
    <3>1. PICK a \in Nat, b \in Nat : a = replicaSource.offsets[p] /\ b = replicaSource.next[p]
      BY <2>1, Zenon
    <3>2. a <= b /\ b <= n /\ replicaSource.buf[p] = Offsets(a, b) /\ f = Offsets(a, b) \o Offsets(b, n)
      BY <3>1, <2>1, <1>1, <1>3, Zenon
    <3>3. a <= n /\ n \in Nat
      BY <3>2, <2>1
    <3>4. Offsets(a, b) \o Offsets(b, n) = Offsets(a, n) /\ Offsets(a, n) \in Seq(Nat)
      BY <3>2, <3>3, OffsetsJoin, OffsetsAre
    <3> QED BY <3>1, <3>2, <3>3, <3>4, Zenon
  <2>3. /\ replicaSource'.is = "open" /\ replicaSource'.at = replicaSource.at
        /\ replicaSource'.offsets = replicaSource.offsets
        /\ replicaSource'.buf = [replicaSource.buf EXCEPT ![p] = f]
        /\ replicaSource'.next = [replicaSource.next EXCEPT ![p] = n]
        /\ replicaSource' = [is |-> "open", buf |-> [replicaSource.buf EXCEPT ![p] = f],
                             next |-> [replicaSource.next EXCEPT ![p] = n],
                             offsets |-> replicaSource.offsets, at |-> replicaSource.at]
    BY <1>1, <1>3, <1>5
  <2>4. replicaSource.buf \in Buffers /\ replicaSource.next \in Counts /\ replicaSource.offsets \in Counts
        /\ replicaSource.at \in Nat
    BY <1>3
  <2>5. [replicaSource.buf EXCEPT ![p] = f] \in Buffers /\ [replicaSource.next EXCEPT ![p] = n] \in Counts
    BY <2>1, <2>2, <2>4 DEF Buffers, Counts
  <2>6. replicaSource' \in [is : {"closed", "open"}, buf : Buffers, next : Counts, offsets : Counts, at : Nat]
    BY <2>3, <2>4, <2>5
  <2>7. ASSUME NEW q \in Partitions
        PROVE  /\ replicaSource'.offsets[q] <= replicaSource'.next[q]
               /\ replicaSource'.buf[q] = Offsets(replicaSource'.offsets[q], replicaSource'.next[q])
    BY <2>2, <2>3, <2>4, <1>3 DEF Buffers, Counts
  <2>8. ReplicaInv'
    BY <2>3, <2>6, <2>7, <1>2, <1>3 DEF ReplicaInv, AtZero
  <2> QED BY <2>8, <1>2, FeedStays
<1> QED BY <1>4, <1>5

(* The replica takes the range of the next boundary. *)
LEMMA ReplicaServeKeeps == ASSUME FeedInv, ReplicaServe PROVE FeedInv'
<1>2. /\ UNCHANGED <<end, dropped, garbled, buffers, expected, batch, inTick, applied, boundaries>>
      /\ replicaSource.is = "open" /\ replicaSource.at < Len(boundaries)
      /\ \A p \in Partitions : ~(Len(replicaSource.buf[p]) < boundaries[replicaSource.at + 1][p] - replicaSource.offsets[p])
  BY DEF ReplicaServe, logVars, sourceVars, feedWorld, Short, Range1, Range2
<1>3. /\ replicaSource \in [is : {"closed", "open"}, buf : Buffers, next : Counts, offsets : Counts, at : Nat]
      /\ replicaSource.offsets = IF replicaSource.at = 0 THEN AtZero ELSE boundaries[replicaSource.at]
      /\ \A q \in Partitions :
           /\ replicaSource.offsets[q] <= replicaSource.next[q]
           /\ replicaSource.buf[q] = Offsets(replicaSource.offsets[q], replicaSource.next[q])
  BY <1>2 DEF FeedInv, ReplicaInv
<1>4. PICK to : to = boundaries[replicaSource.at + 1]
  OBVIOUS
<1>5. PICK f : f = [p \in Partitions |-> SubSeq(replicaSource.buf[p], to[p] - replicaSource.offsets[p] + 1,
                                                Len(replicaSource.buf[p]))]
  OBVIOUS
<1>6. PICK is \in {"gap", "open"} :
        replicaSource' = [replicaSource EXCEPT !.is = is, !.buf = f, !.offsets = to, !.at = @ + 1]
  BY <1>4, <1>5 DEF ReplicaServe, Range1, Range2
<1>7. /\ boundaries \in Seq(Counts) /\ Len(boundaries) \in Nat /\ replicaSource.at \in Nat
      /\ replicaSource.at + 1 \in 1..Len(boundaries) /\ to \in Counts
      /\ \A i, j \in 1..Len(boundaries) : i <= j => \A p \in Partitions : boundaries[i][p] <= boundaries[j][p]
  <2>1. /\ boundaries \in Seq(Counts) /\ Len(boundaries) \in Nat /\ replicaSource.at \in Nat
        /\ \A i, j \in 1..Len(boundaries) : i <= j => \A p \in Partitions : boundaries[i][p] <= boundaries[j][p]
    BY <1>3 DEF FeedInv, RecordedInv
  <2>2. replicaSource.at + 1 \in 1..Len(boundaries)
    BY <2>1, <1>2
  <2> QED BY <2>1, <2>2, <1>4
<1>8. ASSUME NEW p \in Partitions
      PROVE  to[p] <= replicaSource.next[p] /\ f[p] = Offsets(to[p], replicaSource.next[p]) /\ f[p] \in Seq(Nat)
  <2>1. /\ to[p] \in Nat /\ replicaSource.offsets[p] \in Nat /\ replicaSource.next[p] \in Nat
        /\ replicaSource.offsets[p] <= replicaSource.next[p]
    BY <1>3, <1>7 DEF Counts
  <2>2. replicaSource.offsets[p] <= to[p]
    <3>1. CASE replicaSource.at = 0
      BY <3>1, <2>1, <1>3 DEF AtZero
    <3>2. CASE replicaSource.at # 0
      <4>1. replicaSource.at \in 1..Len(boundaries) /\ replicaSource.at <= replicaSource.at + 1
        BY <3>2, <1>7
      <4> QED BY <4>1, <3>2, <1>3, <1>4, <1>7
    <3> QED BY <3>1, <3>2
  <2>3. Len(Offsets(replicaSource.offsets[p], replicaSource.next[p])) = replicaSource.next[p] - replicaSource.offsets[p]
    BY <2>1, OffsetsAre
  <2>4. to[p] - replicaSource.offsets[p] \in 0..(replicaSource.next[p] - replicaSource.offsets[p])
    <3>1. ~(Len(replicaSource.buf[p]) < to[p] - replicaSource.offsets[p])
      BY <1>2, <1>4
    <3>2. Len(replicaSource.buf[p]) = replicaSource.next[p] - replicaSource.offsets[p]
      BY <2>3, <1>3
    <3> QED BY <3>1, <3>2, <2>1, <2>2
  <2>5. PICK k \in 0..(replicaSource.next[p] - replicaSource.offsets[p]) : k = to[p] - replicaSource.offsets[p]
    BY <2>4
  <2>6. /\ replicaSource.offsets[p] + k <= replicaSource.next[p]
        /\ SubSeq(replicaSource.buf[p], k + 1, Len(replicaSource.buf[p]))
             = Offsets(replicaSource.offsets[p] + k, replicaSource.next[p])
    <3>1. PICK a \in Nat, b \in Nat : a = replicaSource.offsets[p] /\ b = replicaSource.next[p]
      BY <2>1, Zenon
    <3>2. a <= b /\ k \in 0..(b - a)
      BY <3>1, <2>1, <2>5, Zenon
    <3>3. a + k <= b /\ SubSeq(Offsets(a, b), k + 1, Len(Offsets(a, b))) = Offsets(a + k, b)
      BY <3>2, RangeDropped
    <3> QED BY <3>1, <3>3, <1>3, Zenon
  <2>7. replicaSource.offsets[p] + k = to[p]
    BY <2>1, <2>5
  <2>8. f[p] = SubSeq(replicaSource.buf[p], k + 1, Len(replicaSource.buf[p]))
    BY <2>5, <1>5
  <2>9. to[p] <= replicaSource.next[p] /\ f[p] = Offsets(to[p], replicaSource.next[p])
    BY <2>6, <2>7, <2>8
  <2> QED BY <2>9, <2>1, OffsetsAre
<1>9. f \in Buffers
  <2>1. f = [p \in Partitions |-> f[p]]
    BY <1>5
  <2> QED BY <2>1, <1>8 DEF Buffers
<1>10. /\ replicaSource' = [is |-> is, buf |-> f, next |-> replicaSource.next, offsets |-> to, at |-> replicaSource.at + 1]
       /\ replicaSource.next \in Counts
  BY <1>3, <1>6
<1>11. ReplicaInv'
  <2> SUFFICES ASSUME is = "open" PROVE ReplicaInv'
    BY <1>10 DEF ReplicaInv
  <2>1. replicaSource.at + 1 \in Nat /\ replicaSource.at + 1 <= Len(boundaries) /\ replicaSource.at + 1 # 0
    BY <1>7
  <2>2. replicaSource' \in [is : {"closed", "open"}, buf : Buffers, next : Counts, offsets : Counts, at : Nat]
    BY <2>1, <1>7, <1>9, <1>10
  <2>3. /\ replicaSource'.at = replicaSource.at + 1 /\ replicaSource'.offsets = to
        /\ replicaSource'.next = replicaSource.next /\ replicaSource'.buf = f
    BY <1>10
  <2> QED BY <2>1, <2>2, <2>3, <1>2, <1>4, <1>8 DEF ReplicaInv
<1> QED BY <1>2, <1>11, FeedStays

(* Every step of the feed. *)
LEMMA FeedKeeps == ASSUME FeedInv, FeedNext PROVE FeedInv'
<1>1. ASSUME FetchFails \/ FetchDenied PROVE FeedInv'
  <2>1. UNCHANGED <<end, dropped, garbled, buffers, expected, batch, inTick, applied, boundaries, replicaSource>>
    BY <1>1 DEF FetchFails, FetchDenied, logVars, feedWorld
  <2>2. ReplicaInv'
    BY <2>1 DEF FeedInv, ReplicaInv, AtZero
  <2> QED BY <2>1, <2>2, FeedStays
<1>2. CASE ReplicaOpen
  <2>1. PICK is \in {"gap", "open"} : replicaSource' = [replicaSource EXCEPT !.is = is]
    BY <1>2 DEF ReplicaOpen
  <2>2. /\ UNCHANGED <<end, dropped, garbled, buffers, expected, batch, inTick, applied, boundaries>>
        /\ replicaSource.is = "closed"
    BY <1>2 DEF ReplicaOpen, logVars, sourceVars, feedWorld
  <2>3. ReplicaInv'
    BY <2>1, <2>2 DEF FeedInv, ReplicaInv, AtZero
  <2> QED BY <2>2, <2>3, FeedStays
<1> QED BY <1>1, <1>2, FeedLogKeeps, FetchKeeps, PollKeeps, StepKeeps, ReplicaPollKeeps, ReplicaServeKeeps DEF FeedNext

(* Nothing is written, fetched or applied. *)
LEMMA FeedBegins == ASSUME FeedInit PROVE FeedInv
<1>1. /\ end = AtZero /\ dropped = AtZero /\ garbled = {} /\ buffers = Nothing /\ expected = AtZero
      /\ batch = Nothing /\ applied = AtZero /\ boundaries = <<>>
      /\ replicaSource = [is |-> "closed", buf |-> Nothing, next |-> AtZero, offsets |-> AtZero, at |-> 0]
  BY DEF FeedInit
<1>2. AtZero \in Counts /\ Nothing \in Buffers
  BY DEF AtZero, Nothing, Counts, Buffers
<1>3. \A p \in Partitions : AtZero[p] = 0 /\ Nothing[p] = <<>>
  BY DEF AtZero, Nothing
<1>4. Offsets(0, 0) = <<>>
  BY NoOffsets
<1>5. SourceInv
  <2>1. FeedExact
    <3>1. <<>> \o <<>> = <<>>
      OBVIOUS
    <3>2. ASSUME NEW p \in Partitions PROVE batch[p] \o buffers[p] = Offsets(applied[p], expected[p])
      BY <3>1, <1>1, <1>3, <1>4, Zenon
    <3>3. \A p \in Partitions : \A o \in 0..(expected[p] - 1) : <<p, o>> \notin garbled
      BY <1>1
    <3> QED BY <3>2, <3>3 DEF FeedExact
  <2> QED BY <2>1, <1>1, <1>2, <1>3 DEF SourceInv
<1>6. RecordedInv
  BY <1>1 DEF RecordedInv
<1>7. ReplicaInv
  BY <1>1, <1>2, <1>3, <1>4 DEF ReplicaInv
<1> QED BY <1>5, <1>6, <1>7 DEF FeedInv

(* FeedInv holds throughout: the batch and the buffers are the offsets from   *)
(* the World's to the fetcher's, the boundaries never go back, and a replica  *)
(* follows them range by range (KafkaSource.Poll, Requeue, CommandSource).    *)
THEOREM FeedInvariant == Spec => []FeedInv
<1>1. Init => FeedInv
  BY FeedBegins DEF Init
<1>2. FeedInv /\ FeedNext => FeedInv'
  BY FeedKeeps
<1>3. FeedInv /\ UNCHANGED feedVars => FeedInv'
  <2> SUFFICES ASSUME FeedInv, UNCHANGED feedVars PROVE FeedInv'
    OBVIOUS
  <2>1. ReplicaInv'
    BY DEF FeedInv, ReplicaInv, AtZero, feedVars
  <2> QED BY <2>1, FeedStays DEF feedVars
<1>4. [Next]_vars => FeedNext \/ UNCHANGED feedVars
  BY DEF Next, vars, partVars
<1> QED BY <1>1, <1>2, <1>3, <1>4, PTL DEF Spec

(* What the invariant says of the source and of the replica. *)
LEMMA FeedIsSafe == ASSUME FeedInv PROVE FeedExact /\ ReplicaExact
BY DEF FeedInv, SourceInv, ReplicaInv, ReplicaExact

--------------------------------------------------------------------------------
(* The reader of the boundary Partition. *)

Phases == {"idle", "seek", "round", "head", "replay", "done", "gap"}

(* Without a late write the boundaries ascend with their offsets, and none of *)
(* the ticks before one is missing before it.                                 *)
InTickOrder ==
  /\ \A o, q \in 0..(LogEnd - 1) : o < q /\ IsBoundary(o) /\ IsBoundary(q) => Record(o) < Record(q)
  /\ \A q \in 0..(LogEnd - 1) : \A t \in 1..Record(q) : \E o \in 0..q : Record(o) = t

PartitionInv ==
  /\ partition \in Seq(Nat) /\ trimmed \in Nat /\ trimmed <= LogEnd /\ lateWrites \in Nat
  /\ \A o \in 0..(LogEnd - 1) : Record(o) <= LogEnd
  /\ lateWrites = 0 => InTickOrder

(* What the caller needs is on the log, in order. *)
Intact(s) == lateWrites = 0 /\ trimmed <= s.so

(* The reader has still to hand out what is at o. *)
Ahead(r, o) == o \in r.buf \/ r.next <= o

ShapeInv(s, r, c, l) ==
  /\ s \in [lo : 0..LogEnd, hi : 0..LogEnd, so : 0..LogEnd, eo : 0..LogEnd]
  /\ r \in [next : 0..LogEnd, hwm : Nat, start : 0..LogEnd, expect : Nat, buf : SUBSET (0..(LogEnd - 1))]
  /\ c \in [phase : Phases, round : Nat, tick : Nat, head : Nat]
  /\ \A o \in r.buf : o < r.next /\ IsBoundary(o)

(* The search: the round's boundary is listed, it and its successors are at  *)
(* or past lo, and from hi on there are no earlier ones.                      *)
SeekInv(s, c) ==
  c.phase = "seek" /\ Intact(s) =>
    /\ c.round > 0 /\ s.so <= s.lo
    /\ \E o \in 0..(LogEnd - 1) : o < s.eo /\ Record(o) = c.round
    /\ \A o \in 0..(LogEnd - 1) : Record(o) >= c.round => s.lo <= o
    /\ \A o \in 0..(LogEnd - 1) : s.hi <= o /\ IsBoundary(o) => Record(o) >= c.round

(* The round's boundary is the first that the reader hands out. *)
RoundInv(s, r, c) ==
  c.phase = "round" /\ Intact(s) =>
    /\ c.round > 0 /\ r.expect = c.round /\ s.so <= r.next
    /\ \E o \in 0..(LogEnd - 1) : Record(o) = c.round
    /\ \A o \in 0..(LogEnd - 1) : IsBoundary(o) => (Ahead(r, o) <=> Record(o) >= c.round)

(* The replay: what is not applied up to the head is still to be handed out. *)
ReplayInv(s, r, c, l) ==
  /\ c.phase \in {"head", "replay", "done"} => r.expect = 0
  /\ c.phase = "head" => c.tick = c.round
  /\ c.phase \in {"replay", "done"} =>
       /\ c.head = l /\ c.round <= c.tick /\ (c.tick = c.round \/ c.tick <= c.head)
       /\ c.head = 0 \/ \E o \in 0..(LogEnd - 1) : Record(o) = c.head
  /\ c.phase = "done" => c.head <= c.tick
  /\ c.phase \in {"head", "replay"} /\ Intact(s) =>
       /\ s.so <= r.next
       /\ \A o \in 0..(LogEnd - 1) :
            Record(o) > c.tick /\ (c.phase = "head" \/ Record(o) <= c.head) => Ahead(r, o)

(* And none was refused that need not be. *)
Reads(s, r, c, l) ==
  /\ ShapeInv(s, r, c, l) /\ SeekInv(s, c) /\ RoundInv(s, r, c) /\ ReplayInv(s, r, c, l)
  /\ c.phase = "gap" => ~Intact(s)

ReaderInv == PartitionInv /\ Reads(seek, reader, replica, listed)

--------------------------------------------------------------------------------
(* The Partition's offsets and records. *)

(* A record is a tick, or zero. *)
LEMMA RecordIs ==
  ASSUME PartitionInv
  PROVE  LogEnd \in Nat /\ \A o \in 0..(LogEnd - 1) : Record(o) \in Nat
BY DEF PartitionInv, LogEnd, Record

(* The boundaries of a stretch of the log. *)
LEMMA BoundariesAre ==
  ASSUME PartitionInv, NEW a \in Nat, NEW b \in 0..LogEnd
  PROVE  /\ Boundaries(a, b) \in SUBSET (0..(LogEnd - 1))
         /\ \A o \in 0..(LogEnd - 1) : o \in Boundaries(a, b) <=> a <= o /\ o < b /\ IsBoundary(o)
<1>1. LogEnd \in Nat
  BY RecordIs
<1> QED BY <1>1 DEF Boundaries

(* A probe finds the first boundary at or after an offset, if there is one. *)
LEMMA ProbeIs ==
  ASSUME PartitionInv, NEW a \in Nat, NEW e
  PROVE  \/ /\ ProbeAt(a, e) = -1
            /\ \A o \in 0..(LogEnd - 1) : a <= o => ~IsBoundary(o)
         \/ /\ ProbeAt(a, e) \in 0..(LogEnd - 1) /\ a <= ProbeAt(a, e) /\ IsBoundary(ProbeAt(a, e))
            /\ \A o \in 0..(LogEnd - 1) : a <= o /\ IsBoundary(o) => ProbeAt(a, e) <= o
<1>1. LogEnd \in Nat /\ LogEnd \in 0..LogEnd
  BY RecordIs
<1>2. PICK F : F = Boundaries(a, LogEnd)
  OBVIOUS
<1>3. /\ F \in SUBSET (0..(LogEnd - 1)) /\ F \in SUBSET Nat
      /\ \A o \in 0..(LogEnd - 1) : o \in F <=> a <= o /\ o < LogEnd /\ IsBoundary(o)
  <2>1. /\ F \in SUBSET (0..(LogEnd - 1))
        /\ \A o \in 0..(LogEnd - 1) : o \in F <=> a <= o /\ o < LogEnd /\ IsBoundary(o)
    BY <1>1, <1>2, BoundariesAre
  <2> QED BY <2>1, <1>1
<1>4. ProbeAt(a, e) = IF F = {} THEN -1 ELSE CHOOSE q \in F : \A x \in F : q <= x
  BY <1>2 DEF ProbeAt
<1>5. CASE F = {}
  <2>1. \A o \in 0..(LogEnd - 1) : o < LogEnd
    BY <1>1
  <2> QED BY <1>3, <1>4, <1>5, <2>1
<1>6. CASE F # {}
  <2>1. \E q \in F : \A x \in F : q <= x
    BY <1>3, <1>6, LeastNatural
  <2>2. PICK q : q = ProbeAt(a, e)
    OBVIOUS
  <2>3. q \in F /\ \A x \in F : q <= x
    BY <2>1, <2>2, <1>4, <1>6
  <2>4. q \in 0..(LogEnd - 1) /\ a <= q /\ IsBoundary(q)
    BY <2>3, <1>3
  <2>5. \A o \in 0..(LogEnd - 1) : a <= o /\ IsBoundary(o) => q <= o
    BY <2>3, <1>1, <1>3
  <2> QED BY <2>2, <2>4, <2>5
<1> QED BY <1>5, <1>6

(* The last boundary from an offset on is the last of the log. *)
LEMMA LastTickIs ==
  ASSUME PartitionInv, NEW a \in Nat
  PROVE  \/ /\ LastTick(a, LogEnd) = 0
            /\ \A o \in 0..(LogEnd - 1) : a <= o => ~IsBoundary(o)
         \/ \E o \in 0..(LogEnd - 1) :
              /\ a <= o /\ IsBoundary(o) /\ LastTick(a, LogEnd) = Record(o)
              /\ \A q \in 0..(LogEnd - 1) : IsBoundary(q) => q <= o
<1>1. LogEnd \in Nat /\ LogEnd \in 0..LogEnd
  BY RecordIs
<1>2. PICK F : F = Boundaries(a, LogEnd)
  OBVIOUS
<1>3. /\ F \in SUBSET (0..(LogEnd - 1)) /\ F \in SUBSET (0..LogEnd)
      /\ \A o \in 0..(LogEnd - 1) : o \in F <=> a <= o /\ o < LogEnd /\ IsBoundary(o)
  <2>1. /\ F \in SUBSET (0..(LogEnd - 1))
        /\ \A o \in 0..(LogEnd - 1) : o \in F <=> a <= o /\ o < LogEnd /\ IsBoundary(o)
    BY <1>1, <1>2, BoundariesAre
  <2> QED BY <2>1, <1>1
<1>4. LastTick(a, LogEnd) = IF F = {} THEN 0 ELSE Record(CHOOSE o \in F : \A q \in F : q <= o)
  BY <1>2 DEF LastTick
<1>5. CASE F = {}
  <2>1. \A o \in 0..(LogEnd - 1) : o < LogEnd
    BY <1>1
  <2> QED BY <1>3, <1>4, <1>5, <2>1
<1>6. CASE F # {}
  <2>1. \E o \in F : \A q \in F : q <= o
    BY <1>1, <1>3, <1>6, GreatestNatural
  <2>2. PICK o : o = CHOOSE x \in F : \A q \in F : q <= x
    OBVIOUS
  <2>3. o \in F /\ \A q \in F : q <= o
    BY <2>1, <2>2
  <2>4. o \in 0..(LogEnd - 1) /\ a <= o /\ IsBoundary(o) /\ LastTick(a, LogEnd) = Record(o)
    BY <2>2, <2>3, <1>3, <1>4, <1>6
  <2>5. ASSUME NEW q \in 0..(LogEnd - 1), IsBoundary(q) PROVE q <= o
    <3>1. CASE a <= q
      BY <3>1, <2>3, <2>5, <1>1, <1>3
    <3>2. CASE ~(a <= q)
      BY <3>2, <2>4, <1>1
    <3> QED BY <3>1, <3>2
  <2> QED BY <2>4, <2>5
<1> QED BY <1>5, <1>6

(* HeadTick's windows find the last boundary there is. *)
LEMMA HeadTickIs == ASSUME PartitionInv PROVE HeadTick = LastTick(trimmed, LogEnd)
<1> DEFINE from(w) == IF LogEnd - w < trimmed THEN trimmed ELSE LogEnd - w
<1> DEFINE W == {w \in {HeadWindow, 4 * HeadWindow, 16 * HeadWindow, LogEnd} : Boundaries(from(w), LogEnd) # {}}
<1>1. LogEnd \in Nat /\ trimmed \in Nat /\ trimmed <= LogEnd /\ LogEnd \in 0..LogEnd
  BY RecordIs DEF PartitionInv
<1>2. HeadWindow \in Nat
  BY ReaderAssumption
<1>3. W \in SUBSET Nat
  BY <1>1, <1>2
<1>4. \A w \in Nat : from(w) \in Nat /\ trimmed <= from(w)
  BY <1>1
<1>5. from(LogEnd) = trimmed
  BY <1>1
<1>6. HeadTick = IF W = {} THEN 0 ELSE LastTick(from(CHOOSE w \in W : \A v \in W : w <= v), LogEnd)
  BY DEF HeadTick, LastBoundary
<1>7. LogEnd \in W \/ Boundaries(trimmed, LogEnd) = {}
  BY <1>5
<1>8. \A w \in W : Boundaries(from(w), LogEnd) # {}
  OBVIOUS
<1> HIDE DEF from, W
<1>9. CASE W = {}
  <2>1. Boundaries(trimmed, LogEnd) = {}
    BY <1>7, <1>9
  <2> QED BY <2>1, <1>6, <1>9 DEF LastTick
<1>10. CASE W # {}
  <2>1. PICK w \in W : w = CHOOSE x \in W : \A v \in W : x <= v
    <3>1. \E x \in W : \A v \in W : x <= v
      BY <1>3, <1>10, LeastNatural
    <3> QED BY <3>1
  <2>2. PICK a \in Nat : a = from(w) /\ trimmed <= a
    BY <1>3, <1>4
  <2>3. HeadTick = LastTick(a, LogEnd) /\ Boundaries(a, LogEnd) # {}
    BY <2>1, <2>2, <1>6, <1>8, <1>10
  <2>4. PICK x \in 0..(LogEnd - 1) : a <= x /\ IsBoundary(x)
    BY <2>3, <1>1, BoundariesAre
  <2>5. trimmed <= x
    BY <2>2, <2>4, <1>1
  <2>6. PICK o \in 0..(LogEnd - 1) : /\ IsBoundary(o) /\ LastTick(a, LogEnd) = Record(o)
                                     /\ \A q \in 0..(LogEnd - 1) : IsBoundary(q) => q <= o
    BY <2>4, LastTickIs
  <2>7. PICK u \in 0..(LogEnd - 1) : /\ IsBoundary(u) /\ LastTick(trimmed, LogEnd) = Record(u)
                                     /\ \A q \in 0..(LogEnd - 1) : IsBoundary(q) => q <= u
    BY <2>4, <2>5, <1>1, LastTickIs
  <2>8. o <= u /\ u <= o
    BY <2>6, <2>7
  <2>9. o = u
    BY <2>8, <1>1
  <2> QED BY <2>3, <2>6, <2>7, <2>9
<1> QED BY <1>9, <1>10

(* The newest tick on the log. *)
LEMMA NewestTickIs ==
  ASSUME PartitionInv
  PROVE  /\ Newest \in Nat /\ \A o \in 0..(LogEnd - 1) : Record(o) <= Newest
         /\ Newest = 0 \/ \E o \in 0..(LogEnd - 1) : Record(o) = Newest
<1> DEFINE T == {partition[i] : i \in 1..Len(partition)} \cup {0}
<1>0. LogEnd \in Nat /\ \A o \in 0..(LogEnd - 1) : Record(o) \in 0..LogEnd
  BY RecordIs DEF PartitionInv
<1>2. Newest = CHOOSE t \in T : \A u \in T : u <= t
  BY DEF Newest
<1>3. \A o \in 0..(LogEnd - 1) : Record(o) \in T
  <2>1. \A o \in 0..(LogEnd - 1) : o + 1 \in 1..Len(partition)
    BY RecordIs DEF LogEnd
  <2> QED BY <2>1 DEF Record
<1>4. \A t \in T : t = 0 \/ \E o \in 0..(LogEnd - 1) : Record(o) = t
  <2>1. ASSUME NEW i \in 1..Len(partition) PROVE \E o \in 0..(LogEnd - 1) : Record(o) = partition[i]
    <3>1. i - 1 \in 0..(LogEnd - 1) /\ (i - 1) + 1 = i
      BY RecordIs DEF LogEnd
    <3>2. Record(i - 1) = partition[i]
      BY <3>1 DEF Record
    <3> QED BY <3>1, <3>2
  <2> QED BY <2>1
<1>1. T # {} /\ 0 \in T
  OBVIOUS
<1> HIDE DEF T
<1>t. T \in SUBSET (0..LogEnd)
  BY <1>0, <1>4
<1>5. PICK t \in T : \A u \in T : u <= t
  BY <1>0, <1>1, <1>t, GreatestNatural
<1>6. Newest \in T /\ \A u \in T : u <= Newest
  BY <1>2, <1>5
<1> QED BY <1>0, <1>t, <1>3, <1>4, <1>6

--------------------------------------------------------------------------------
(* The log grows and is trimmed under the reader. *)

(* A record more: an Event, the next boundary, or one that is late. *)
LEMMA LogAppendKeeps ==
  ASSUME ReaderInv, NEW t \in Nat, partition' = Append(partition, t), t <= LogEnd + 1,
         UNCHANGED <<trimmed, seek, reader, replica, listed>>, lateWrites' \in Nat, lateWrites <= lateWrites',
         lateWrites' = 0 => t = 0 \/ t = Newest + 1
  PROVE  ReaderInv'
<1> DEFINE Rec(o) == partition'[o + 1]
<1>0. PartitionInv /\ Reads(seek, reader, replica, listed)
  BY DEF ReaderInv
<1>1. LogEnd \in Nat /\ LogEnd' \in Nat /\ LogEnd' = LogEnd + 1 /\ partition' \in Seq(Nat)
  BY <1>0, RecordIs DEF PartitionInv, LogEnd
<1>2. \A o \in 0..(LogEnd - 1) : Rec(o) = Record(o) /\ Record(o) \in Nat /\ Record(o) <= LogEnd
  <2>1. \A o \in 0..(LogEnd - 1) : o + 1 \in 1..Len(partition)
    BY <1>1 DEF LogEnd
  <2>2. \A i \in 1..Len(partition) : partition'[i] = partition[i]
    BY <1>0 DEF PartitionInv
  <2> QED BY <2>1, <2>2, <1>0, RecordIs DEF Record, PartitionInv
<1>3. Rec(LogEnd) = t
  BY <1>0 DEF PartitionInv, LogEnd
<1>4. \A o \in 0..(LogEnd' - 1) : o \in 0..(LogEnd - 1) \/ o = LogEnd
  BY <1>1
<1>5. \A o \in 0..(LogEnd - 1) : o \in 0..(LogEnd' - 1)
  BY <1>1
<1> HIDE DEF Rec
<1>6. /\ lateWrites \in Nat /\ trimmed \in Nat /\ trimmed <= LogEnd
      /\ lateWrites' = 0 => lateWrites = 0 /\ InTickOrder
  BY <1>0 DEF PartitionInv
<1>7. /\ Newest \in Nat /\ \A o \in 0..(LogEnd - 1) : Record(o) <= Newest
      /\ Newest = 0 \/ \E o \in 0..(LogEnd - 1) : Record(o) = Newest
  BY <1>0, NewestTickIs
<1>8. lateWrites' = 0 =>
        /\ \A o, q \in 0..(LogEnd' - 1) : o < q /\ Rec(o) > 0 /\ Rec(q) > 0 => Rec(o) < Rec(q)
        /\ \A q \in 0..(LogEnd' - 1) : \A u \in 1..Rec(q) : \E o \in 0..q : Rec(o) = u
  <2> SUFFICES ASSUME lateWrites' = 0 
               PROVE  /\ \A o, q \in 0..(LogEnd' - 1) : o < q /\ Rec(o) > 0 /\ Rec(q) > 0 => Rec(o) < Rec(q)
                      /\ \A q \in 0..(LogEnd' - 1) : \A u \in 1..Rec(q) : \E o \in 0..q : Rec(o) = u
    OBVIOUS
  <2>0. t = 0 \/ t = Newest + 1
    OBVIOUS
  <2>i. /\ \A o, q \in 0..(LogEnd - 1) : o < q /\ Record(o) > 0 /\ Record(q) > 0 => Record(o) < Record(q)
        /\ \A q \in 0..(LogEnd - 1) : \A u \in 1..Record(q) : \E o \in 0..q : Record(o) = u
    BY <1>6 DEF InTickOrder, IsBoundary
  <2>1. ASSUME NEW o \in 0..(LogEnd' - 1), NEW q \in 0..(LogEnd' - 1), o < q, Rec(o) > 0, Rec(q) > 0
        PROVE  Rec(o) < Rec(q)
    <3>1. o \in 0..(LogEnd - 1)
      BY <2>1, <1>1
    <3>2. CASE q = LogEnd
      <4>1. Rec(q) = Newest + 1 /\ Rec(o) <= Newest /\ Rec(o) \in Nat
        BY <3>1, <3>2, <2>0, <2>1, <1>2, <1>3, <1>7
      <4> QED BY <4>1, <1>7
    <3>3. CASE q \in 0..(LogEnd - 1)
      BY <3>1, <3>3, <2>1, <2>i, <1>2
    <3> QED BY <3>2, <3>3, <1>4
  <2>2. ASSUME NEW q \in 0..(LogEnd - 1), NEW u \in 1..Record(q) PROVE \E o \in 0..q : Rec(o) = u
    <3>1. PICK o \in 0..q : Record(o) = u
      BY <2>i
    <3>2. o \in 0..(LogEnd - 1)
      BY <1>1
    <3> QED BY <3>1, <3>2, <1>2
  <2>3. ASSUME NEW u \in 1..t PROVE \E o \in 0..LogEnd : Rec(o) = u
    <3>0. t = Newest + 1 /\ LogEnd \in 0..LogEnd
      BY <2>0, <1>1
    <3>1. CASE u = Newest + 1
      BY <3>0, <3>1, <1>3
    <3>2. CASE u # Newest + 1
      <4>1. Newest # 0 /\ u \in 1..Newest
        BY <3>0, <3>2, <1>7
      <4>2. PICK q \in 0..(LogEnd - 1) : Record(q) = Newest
        BY <4>1, <1>7
      <4>3. PICK o \in 0..q : Rec(o) = u
        BY <4>1, <4>2, <2>2
      <4>4. o \in 0..LogEnd
        BY <1>1
      <4> QED BY <4>3, <4>4
    <3> QED BY <3>1, <3>2
  <2>4. ASSUME NEW q \in 0..(LogEnd' - 1), NEW u \in 1..Rec(q) PROVE \E o \in 0..q : Rec(o) = u
    <3>1. CASE q = LogEnd
      BY <3>1, <2>3, <1>3
    <3>2. CASE q \in 0..(LogEnd - 1)
      BY <3>2, <2>2, <1>2
    <3> QED BY <3>1, <3>2, <1>4
  <2> QED BY <2>1, <2>4
<1>9. PartitionInv'
  <2>1. \A o \in 0..(LogEnd' - 1) : Rec(o) <= LogEnd'
    BY <1>1, <1>2, <1>3, <1>4
  <2>2. trimmed' \in Nat /\ trimmed' <= LogEnd'
    BY <1>1, <1>6
  <2>3. lateWrites' = 0 => InTickOrder'
    BY <1>8 DEF InTickOrder, IsBoundary, Record, Rec
  <2> QED BY <2>1, <2>2, <2>3, <1>1 DEF PartitionInv, Record, Rec
<1>10. Intact(seek)' => Intact(seek) /\ lateWrites' = 0
  BY <1>6 DEF Intact
<1>11. ShapeInv(seek, reader, replica, listed)'
  <2>1. /\ seek \in [lo : 0..LogEnd, hi : 0..LogEnd, so : 0..LogEnd, eo : 0..LogEnd]
        /\ reader \in [next : 0..LogEnd, hwm : Nat, start : 0..LogEnd, expect : Nat, buf : SUBSET (0..(LogEnd - 1))]
        /\ replica \in [phase : Phases, round : Nat, tick : Nat, head : Nat]
        /\ \A o \in reader.buf : o < reader.next /\ Record(o) > 0
    BY <1>0 DEF Reads, ShapeInv, IsBoundary
  <2>2. 0..LogEnd \subseteq 0..LogEnd' /\ 0..(LogEnd - 1) \subseteq 0..(LogEnd' - 1)
    BY <1>1
  <2>3. seek \in [lo : 0..LogEnd', hi : 0..LogEnd', so : 0..LogEnd', eo : 0..LogEnd']
    BY <2>1, <2>2
  <2>4. reader \in [next : 0..LogEnd', hwm : Nat, start : 0..LogEnd', expect : Nat, buf : SUBSET (0..(LogEnd' - 1))]
    BY <2>1, <2>2
  <2>5. \A o \in reader.buf : o < reader.next /\ Rec(o) > 0
    BY <2>1, <1>2
  <2> QED BY <2>1, <2>3, <2>4, <2>5 DEF ShapeInv, IsBoundary, Record, Rec, Phases
<1>t. /\ replica.round \in Nat /\ replica.tick \in Nat /\ seek.lo \in 0..LogEnd /\ seek.eo \in 0..LogEnd
      /\ reader.next \in 0..LogEnd
  BY <1>0 DEF Reads, ShapeInv
<1>12. SeekInv(seek, replica)'
  <2> SUFFICES ASSUME replica.phase = "seek", Intact(seek)'
               PROVE  /\ replica.round > 0 /\ seek.so <= seek.lo
                      /\ \E o \in 0..(LogEnd' - 1) : o < seek.eo /\ Rec(o) = replica.round
                      /\ \A o \in 0..(LogEnd' - 1) : Rec(o) >= replica.round => seek.lo <= o
                      /\ \A o \in 0..(LogEnd' - 1) : seek.hi <= o /\ Rec(o) > 0 => Rec(o) >= replica.round
    BY DEF SeekInv, IsBoundary, Record, Rec
  <2>1. /\ replica.round > 0 /\ seek.so <= seek.lo
        /\ \E o \in 0..(LogEnd - 1) : o < seek.eo /\ Record(o) = replica.round
        /\ \A o \in 0..(LogEnd - 1) : Record(o) >= replica.round => seek.lo <= o
        /\ \A o \in 0..(LogEnd - 1) : seek.hi <= o /\ Record(o) > 0 => Record(o) >= replica.round
    BY <1>0, <1>10 DEF Reads, SeekInv, IsBoundary
  <2>2. \E o \in 0..(LogEnd' - 1) : o < seek.eo /\ Rec(o) = replica.round
    BY <2>1, <1>2, <1>5
  <2>3. Rec(LogEnd) > 0 => Rec(LogEnd) >= replica.round
    <3>1. PICK o \in 0..(LogEnd - 1) : Record(o) = replica.round
      BY <2>1
    <3>2. replica.round <= Newest
      BY <3>1, <1>7
    <3>3. t = 0 \/ t = Newest + 1
      BY <1>10
    <3> QED BY <3>2, <3>3, <1>3, <1>7, <1>t
  <2>4. seek.lo <= LogEnd
    BY <1>1, <1>t
  <2>5. ASSUME NEW o \in 0..(LogEnd' - 1), Rec(o) >= replica.round PROVE seek.lo <= o
    BY <2>1, <2>4, <2>5, <1>2, <1>4
  <2>6. ASSUME NEW o \in 0..(LogEnd' - 1), seek.hi <= o, Rec(o) > 0 PROVE Rec(o) >= replica.round
    BY <2>1, <2>3, <2>6, <1>2, <1>4
  <2> QED BY <2>1, <2>2, <2>5, <2>6
<1>13. RoundInv(seek, reader, replica)'
  <2> SUFFICES ASSUME replica.phase = "round", Intact(seek)'
               PROVE  /\ replica.round > 0 /\ reader.expect = replica.round /\ seek.so <= reader.next
                      /\ \E o \in 0..(LogEnd' - 1) : Rec(o) = replica.round
                      /\ \A o \in 0..(LogEnd' - 1) :
                           Rec(o) > 0 => ((o \in reader.buf \/ reader.next <= o) <=> Rec(o) >= replica.round)
    BY DEF RoundInv, IsBoundary, Record, Rec, Ahead
  <2>1. /\ replica.round > 0 /\ reader.expect = replica.round /\ seek.so <= reader.next
        /\ \E o \in 0..(LogEnd - 1) : Record(o) = replica.round
        /\ \A o \in 0..(LogEnd - 1) :
             Record(o) > 0 => ((o \in reader.buf \/ reader.next <= o) <=> Record(o) >= replica.round)
    BY <1>0, <1>10 DEF Reads, RoundInv, IsBoundary, Ahead
  <2>2. \E o \in 0..(LogEnd' - 1) : Rec(o) = replica.round
    BY <2>1, <1>2, <1>5
  <2>3. Rec(LogEnd) > 0 => Rec(LogEnd) >= replica.round
    <3>1. PICK o \in 0..(LogEnd - 1) : Record(o) = replica.round
      BY <2>1
    <3>2. replica.round <= Newest
      BY <3>1, <1>7
    <3>3. t = 0 \/ t = Newest + 1
      BY <1>10
    <3> QED BY <3>2, <3>3, <1>3, <1>7, <1>t
  <2>4. reader.next <= LogEnd
    BY <1>1, <1>t
  <2>5. ASSUME NEW o \in 0..(LogEnd' - 1), Rec(o) > 0
        PROVE  (o \in reader.buf \/ reader.next <= o) <=> Rec(o) >= replica.round
    <3>1. CASE o = LogEnd
      BY <3>1, <2>3, <2>4, <2>5
    <3>2. CASE o \in 0..(LogEnd - 1)
      BY <3>2, <2>1, <2>5, <1>2
    <3> QED BY <3>1, <3>2, <1>4
  <2> QED BY <2>1, <2>2, <2>5
<1>14. ReplayInv(seek, reader, replica, listed)'
  <2>1. /\ replica.phase \in {"head", "replay", "done"} => reader.expect = 0
        /\ replica.phase = "head" => replica.tick = replica.round
        /\ replica.phase \in {"replay", "done"} =>
             /\ replica.head = listed /\ replica.round <= replica.tick
             /\ (replica.tick = replica.round \/ replica.tick <= replica.head)
             /\ replica.head = 0 \/ \E o \in 0..(LogEnd - 1) : Record(o) = replica.head
        /\ replica.phase = "done" => replica.head <= replica.tick
    BY <1>0 DEF Reads, ReplayInv
  <2>2. (\E o \in 0..(LogEnd - 1) : Record(o) = replica.head)
          => \E o \in 0..(LogEnd' - 1) : Rec(o) = replica.head
    BY <1>2, <1>5
  <2>3. ASSUME replica.phase \in {"head", "replay"}, Intact(seek)'
        PROVE  /\ seek.so <= reader.next
               /\ \A o \in 0..(LogEnd' - 1) :
                    Rec(o) > replica.tick /\ (replica.phase = "head" \/ Rec(o) <= replica.head)
                      => o \in reader.buf \/ reader.next <= o
    <3>1. /\ seek.so <= reader.next
          /\ \A o \in 0..(LogEnd - 1) :
               Record(o) > replica.tick /\ (replica.phase = "head" \/ Record(o) <= replica.head)
                 => o \in reader.buf \/ reader.next <= o
      BY <2>3, <1>0, <1>10 DEF Reads, ReplayInv, Ahead
    <3>2. reader.next <= LogEnd
      BY <1>1, <1>t
    <3> QED BY <3>1, <3>2, <1>2, <1>4
  <2> QED BY <2>1, <2>2, <2>3 DEF ReplayInv, Ahead, Record, Rec
<1>15. replica.phase = "gap" => ~(Intact(seek)')
  BY <1>0, <1>10 DEF Reads
<1>16. Reads(seek, reader, replica, listed)'
  BY <1>11, <1>12, <1>13, <1>14, <1>15 DEF Reads
<1> QED BY <1>9, <1>16 DEF ReaderInv

(* Each of the three writers. *)
LEMMA LogStepKeeps ==
  ASSUME ReaderInv, AppendEvent \/ AppendBoundary \/ LateWrite
  PROVE  ReaderInv'
<1>1. /\ PartitionInv /\ LogEnd \in Nat /\ lateWrites \in Nat /\ Newest \in Nat /\ Newest <= LogEnd
  <2>1. PartitionInv
    BY DEF ReaderInv
  <2>2. Newest \in Nat /\ (Newest = 0 \/ \E o \in 0..(LogEnd - 1) : Record(o) = Newest)
    BY <2>1, NewestTickIs
  <2>3. LogEnd \in Nat
    BY <2>1, RecordIs
  <2> QED BY <2>1, <2>2, <2>3, NewestTickIs DEF PartitionInv
<1>2. CASE AppendEvent
  <2>1. 0 \in Nat /\ 0 <= LogEnd + 1 /\ lateWrites <= lateWrites
    BY <1>1
  <2> QED BY <2>1, <1>1, <1>2, LogAppendKeeps DEF AppendEvent
<1>3. CASE AppendBoundary
  <2>1. PICK t \in Nat : t = Newest + 1 /\ t <= LogEnd + 1
    BY <1>1
  <2> QED BY <2>1, <1>1, <1>3, LogAppendKeeps DEF AppendBoundary
<1>4. CASE LateWrite
  <2>1. PICK t \in 1..(Newest - 1) : partition' = Append(partition, t)
    BY <1>4 DEF LateWrite
  <2>2. t \in Nat /\ t <= LogEnd + 1
    BY <1>1
  <2>3. /\ lateWrites' = lateWrites + 1 /\ UNCHANGED <<trimmed, seek, reader, replica, listed>>
    BY <1>4 DEF LateWrite
  <2>4. lateWrites' \in Nat /\ lateWrites <= lateWrites' /\ lateWrites' # 0
    BY <2>3, <1>1
  <2> QED BY <2>1, <2>2, <2>3, <2>4, LogAppendKeeps
<1> QED BY <1>2, <1>3, <1>4

(* A record less. *)
LEMMA TrimKeeps == ASSUME ReaderInv, Trim PROVE ReaderInv'
<1>1. /\ trimmed < LogEnd /\ trimmed' = trimmed + 1
      /\ UNCHANGED <<partition, lateWrites, seek, reader, replica, listed>>
  BY DEF Trim
<1>2. PartitionInv /\ Reads(seek, reader, replica, listed) /\ LogEnd \in Nat /\ trimmed \in Nat
  BY RecordIs DEF ReaderInv, PartitionInv
<1>3. PartitionInv'
  <2>1. trimmed' \in Nat /\ trimmed' <= LogEnd
    BY <1>1, <1>2
  <2> QED BY <2>1, <1>1, <1>2 DEF PartitionInv, InTickOrder, IsBoundary, Record, LogEnd
<1>4. Intact(seek)' => Intact(seek)
  BY <1>1, <1>2 DEF Intact, Reads, ShapeInv
<1>5. ShapeInv(seek, reader, replica, listed)'
  BY <1>1, <1>2 DEF Reads, ShapeInv, IsBoundary, Record, LogEnd, Phases
<1>6. SeekInv(seek, replica)'
  BY <1>1, <1>2, <1>4 DEF Reads, SeekInv, IsBoundary, Record, LogEnd
<1>7. RoundInv(seek, reader, replica)'
  BY <1>1, <1>2, <1>4 DEF Reads, RoundInv, IsBoundary, Record, LogEnd, Ahead
<1>8. ReplayInv(seek, reader, replica, listed)'
  BY <1>1, <1>2, <1>4 DEF Reads, ReplayInv, Record, LogEnd, Ahead
<1> QED BY <1>1, <1>2, <1>3, <1>4, <1>5, <1>6, <1>7, <1>8 DEF ReaderInv, Reads

--------------------------------------------------------------------------------
(* The search. *)

(* A step of the reader leaves the log alone. *)
LEMMA ReadsStay ==
  ASSUME ReaderInv, UNCHANGED <<partition, trimmed, lateWrites>>,
         Reads(seek', reader', replica', listed')
  PROVE  ReaderInv'
<1>1. PartitionInv'
  BY DEF ReaderInv, PartitionInv, InTickOrder, IsBoundary, Record, LogEnd
<1>2. LogEnd' = LogEnd /\ \A o : partition'[o + 1] = partition[o + 1]
  BY DEF LogEnd
<1>3. (Intact(seek))' <=> Intact(seek')
  BY DEF Intact
<1>4. ShapeInv(seek, reader, replica, listed)'
  BY <1>2 DEF Reads, ShapeInv, IsBoundary, Record, Phases
<1>5. SeekInv(seek, replica)'
  BY <1>2, <1>3 DEF Reads, SeekInv, IsBoundary, Record
<1>6. RoundInv(seek, reader, replica)'
  BY <1>2, <1>3 DEF Reads, RoundInv, IsBoundary, Record, Ahead
<1>7. ReplayInv(seek, reader, replica, listed)'
  BY <1>2, <1>3 DEF Reads, ReplayInv, Record, Ahead
<1>8. replica'.phase = "gap" => ~(Intact(seek)')
  BY <1>3 DEF Reads
<1> QED BY <1>1, <1>4, <1>5, <1>6, <1>7, <1>8 DEF ReaderInv, Reads

(* The offsets are listed; the boundary is between them. *)
LEMMA SeekBeginKeeps == ASSUME ReaderInv, NEW t \in 1..MaxOffset, SeekBegin(t) PROVE ReaderInv'
<1>1. /\ replica.phase = "idle" /\ t \in {partition[i] : i \in (trimmed + 1)..LogEnd} \ {0}
      /\ seek' = [lo |-> trimmed, hi |-> LogEnd, so |-> trimmed, eo |-> LogEnd]
      /\ replica' = [replica EXCEPT !.phase = "seek", !.round = t]
      /\ UNCHANGED <<partition, trimmed, lateWrites, reader, listed>>
  BY DEF SeekBegin
<1>2. PartitionInv /\ ShapeInv(seek, reader, replica, listed)
  BY DEF ReaderInv, Reads
<1>3. LogEnd \in Nat /\ trimmed \in Nat /\ trimmed <= LogEnd /\ (\A o \in 0..(LogEnd - 1) : Record(o) \in Nat)
  BY <1>2, RecordIs DEF PartitionInv
<1>4. PICK x \in 0..(LogEnd - 1) : Record(x) = t /\ trimmed <= x /\ x < LogEnd
  <2>1. PICK i \in (trimmed + 1)..LogEnd : partition[i] = t
    BY <1>1
  <2>2. PICK x \in 0..(LogEnd - 1) : x + 1 = i /\ trimmed <= x /\ x < LogEnd
    <3>1. i - 1 \in 0..(LogEnd - 1) /\ (i - 1) + 1 = i /\ trimmed <= i - 1 /\ i - 1 < LogEnd
      BY <1>3
    <3> QED BY <3>1
  <2> QED BY <2>1, <2>2 DEF Record
<1>5. t \in Nat /\ t > 0
  BY ReaderAssumption
<1>6. /\ replica'.phase = "seek" /\ replica'.round = t
      /\ replica' \in [phase : Phases, round : Nat, tick : Nat, head : Nat]
  BY <1>1, <1>2, <1>5 DEF ShapeInv, Phases
<1>7. ShapeInv(seek', reader', replica', listed')
  <2>1. seek' \in [lo : 0..LogEnd, hi : 0..LogEnd, so : 0..LogEnd, eo : 0..LogEnd]
    BY <1>1, <1>3
  <2> QED BY <2>1, <1>1, <1>2, <1>6 DEF ShapeInv
<1>8. SeekInv(seek', replica')
  <2> SUFFICES ASSUME Intact(seek') PROVE SeekInv(seek', replica')
    BY DEF SeekInv
  <2>1. /\ \A o, q \in 0..(LogEnd - 1) : o < q /\ Record(o) > 0 /\ Record(q) > 0 => Record(o) < Record(q)
        /\ \A q \in 0..(LogEnd - 1) : \A u \in 1..Record(q) : \E o \in 0..q : Record(o) = u
    BY <1>2 DEF Intact, PartitionInv, InTickOrder, IsBoundary
  <2>2. seek'.lo = trimmed /\ seek'.hi = LogEnd /\ seek'.so = trimmed /\ seek'.eo = LogEnd
    BY <1>1
  <2> QED BY <1>3, <1>4, <1>5, <1>6, <2>1, <2>2 DEF SeekInv, IsBoundary
<1>9. Reads(seek', reader', replica', listed')
  BY <1>6, <1>7, <1>8 DEF Reads, RoundInv, ReplayInv
<1> QED BY <1>1, <1>9, ReadsStay

(* A probe halves the interval, and keeps the boundary in it. *)
LEMMA SeekProbeKeeps == ASSUME ReaderInv, SeekProbe PROVE ReaderInv'
<1>0. /\ replica.phase = "seek" /\ seek.lo < seek.hi
      /\ UNCHANGED <<partition, trimmed, lateWrites, reader, listed>>
  BY DEF SeekProbe
<1>1. PICK mid : mid = seek.lo + (seek.hi - seek.lo) \div 2
  OBVIOUS
<1>2. PICK hit : hit = ProbeAt(mid, seek.hi)
  OBVIOUS
<1>3. IF mid < trimmed THEN Refuse /\ UNCHANGED seek
      ELSE /\ seek' = IF hit >= 0 /\ Record(hit) <= replica.round - 1
                        THEN [seek EXCEPT !.lo = hit + 1] ELSE [seek EXCEPT !.hi = mid]
           /\ UNCHANGED replica
  BY <1>1, <1>2 DEF SeekProbe
<1>4. /\ PartitionInv /\ LogEnd \in Nat /\ trimmed \in Nat /\ \A o \in 0..(LogEnd - 1) : Record(o) \in Nat
  BY RecordIs DEF ReaderInv, PartitionInv
<1>5. ShapeInv(seek, reader, replica, listed) /\ SeekInv(seek, replica)
  BY DEF ReaderInv, Reads
<1>6. /\ seek \in [lo : 0..LogEnd, hi : 0..LogEnd, so : 0..LogEnd, eo : 0..LogEnd]
      /\ replica \in [phase : Phases, round : Nat, tick : Nat, head : Nat]
  BY <1>5 DEF ShapeInv
<1>7. mid \in Nat /\ seek.lo <= mid /\ mid <= LogEnd /\ mid < seek.hi
  <2>1. PICK a \in Nat, b \in Nat : a = seek.lo /\ b = seek.hi /\ a < b /\ b <= LogEnd
    BY <1>0, <1>4, <1>6
  <2>2. mid = a + (b - a) \div 2
    BY <2>1, <1>1
  <2> QED BY <2>1, <2>2, <1>4
<1>8. CASE mid < trimmed
  <2>1. ~Intact(seek)
    BY <1>4, <1>5, <1>6, <1>7, <1>8, <1>0 DEF SeekInv, Intact
  <2>2. seek' = seek /\ replica' = [replica EXCEPT !.phase = "gap"]
    BY <1>3, <1>8 DEF Refuse
  <2>3. replica'.phase = "gap" /\ replica' \in [phase : Phases, round : Nat, tick : Nat, head : Nat]
    BY <2>2, <1>6 DEF Phases
  <2>4. Reads(seek', reader', replica', listed')
    BY <2>1, <2>2, <2>3, <1>0, <1>5 DEF Reads, ShapeInv, SeekInv, RoundInv, ReplayInv
  <2> QED BY <2>4, <1>0, ReadsStay
<1>9. CASE ~(mid < trimmed)
  <2>0. /\ replica' = replica
        /\ seek' = IF hit >= 0 /\ Record(hit) <= replica.round - 1
                     THEN [seek EXCEPT !.lo = hit + 1] ELSE [seek EXCEPT !.hi = mid]
    BY <1>3, <1>9
  <2>1. \/ hit = -1 /\ \A o \in 0..(LogEnd - 1) : mid <= o => ~IsBoundary(o)
        \/ /\ hit \in 0..(LogEnd - 1) /\ mid <= hit /\ IsBoundary(hit)
           /\ \A o \in 0..(LogEnd - 1) : mid <= o /\ IsBoundary(o) => hit <= o
    BY <1>2, <1>4, <1>7, ProbeIs
  <2>2. replica.round \in Nat
    BY <1>6
  <2>3. ShapeInv(seek', reader', replica', listed') /\ (Intact(seek') <=> Intact(seek))
    <3>1. /\ seek' \in [lo : 0..LogEnd, hi : 0..LogEnd, so : 0..LogEnd, eo : 0..LogEnd]
          /\ seek'.so = seek.so
      BY <2>0, <2>1, <1>4, <1>6, <1>7
    <3> QED BY <3>1, <2>0, <1>0, <1>5 DEF ShapeInv, Intact
  <2>4. SeekInv(seek', replica')
    <3> SUFFICES ASSUME Intact(seek) PROVE SeekInv(seek', replica')
      BY <2>3 DEF SeekInv
    <3>1. /\ replica.round > 0 /\ seek.so <= seek.lo
          /\ \E o \in 0..(LogEnd - 1) : o < seek.eo /\ Record(o) = replica.round
          /\ \A o \in 0..(LogEnd - 1) : Record(o) >= replica.round => seek.lo <= o
          /\ \A o \in 0..(LogEnd - 1) : seek.hi <= o /\ Record(o) > 0 => Record(o) >= replica.round
      BY <1>0, <1>5 DEF SeekInv, IsBoundary
    <3>2. \A o, q \in 0..(LogEnd - 1) : o < q /\ Record(o) > 0 /\ Record(q) > 0 => Record(o) < Record(q)
      BY <1>4 DEF Intact, PartitionInv, InTickOrder, IsBoundary
    <3>3. CASE hit >= 0 /\ Record(hit) <= replica.round - 1
      <4>1. hit \in 0..(LogEnd - 1) /\ mid <= hit /\ Record(hit) > 0 /\ Record(hit) < replica.round
        BY <3>3, <2>1, <2>2, <1>4 DEF IsBoundary
      <4>2. ASSUME NEW o \in 0..(LogEnd - 1), Record(o) >= replica.round PROVE hit + 1 <= o
        <5>1. Record(o) > Record(hit) /\ Record(o) > 0
          BY <4>1, <4>2, <2>2, <1>4
        <5>2. ~(o < hit) /\ o # hit
          BY <5>1, <4>1, <3>2, <1>4
        <5> QED BY <5>2, <4>1, <1>4
      <4>3. /\ seek'.lo = hit + 1 /\ seek'.hi = seek.hi /\ seek'.so = seek.so /\ seek'.eo = seek.eo
        BY <3>3, <2>0, <1>6
      <4>4. seek.so <= hit + 1
        BY <4>1, <3>1, <1>4, <1>6, <1>7
      <4> QED BY <4>2, <4>3, <4>4, <3>1, <2>0 DEF SeekInv, IsBoundary
    <3>4. CASE ~(hit >= 0 /\ Record(hit) <= replica.round - 1)
      <4>1. /\ seek'.lo = seek.lo /\ seek'.hi = mid /\ seek'.so = seek.so /\ seek'.eo = seek.eo
        BY <3>4, <2>0, <1>6
      <4>2. ASSUME NEW o \in 0..(LogEnd - 1), mid <= o, Record(o) > 0 PROVE Record(o) >= replica.round
        <5>1. hit \in 0..(LogEnd - 1) /\ Record(hit) > 0 /\ hit <= o
          BY <4>2, <2>1 DEF IsBoundary
        <5>2. Record(hit) >= replica.round
          BY <5>1, <3>4, <2>2, <1>4
        <5>3. CASE hit = o
          BY <5>2, <5>3
        <5>4. CASE hit # o
          <6>1. Record(hit) < Record(o)
            BY <5>1, <5>4, <4>2, <3>2, <1>4
          <6> QED BY <6>1, <5>1, <5>2, <2>2, <1>4
        <5> QED BY <5>3, <5>4
      <4> QED BY <4>1, <4>2, <3>1, <2>0 DEF SeekInv, IsBoundary
    <3> QED BY <3>3, <3>4
  <2>5. Reads(seek', reader', replica', listed')
    BY <2>0, <2>3, <2>4, <1>0 DEF Reads, RoundInv, ReplayInv
  <2> QED BY <2>5, <1>0, ReadsStay
<1> QED BY <1>8, <1>9

(* The search lands at or before the boundary, past all earlier ones. *)
LEMMA SeekEndKeeps == ASSUME ReaderInv, SeekEnd PROVE ReaderInv'
<1>0. /\ replica.phase = "seek" /\ seek.lo >= seek.hi
      /\ UNCHANGED <<partition, trimmed, lateWrites, seek, listed>>
  BY DEF SeekEnd
<1>1. IF seek.lo < trimmed \/ ~BoundaryAfter(seek.lo)
        THEN Refuse /\ UNCHANGED reader
        ELSE /\ reader' = [next |-> seek.lo, hwm |-> 0, start |-> seek.so,
                           expect |-> replica.round, buf |-> {}]
             /\ replica' = [replica EXCEPT !.phase = "round"]
  BY DEF SeekEnd
<1>4. /\ PartitionInv /\ LogEnd \in Nat /\ trimmed \in Nat /\ \A o \in 0..(LogEnd - 1) : Record(o) \in Nat
  BY RecordIs DEF ReaderInv, PartitionInv
<1>5. ShapeInv(seek, reader, replica, listed) /\ SeekInv(seek, replica)
  BY DEF ReaderInv, Reads
<1>6. /\ seek \in [lo : 0..LogEnd, hi : 0..LogEnd, so : 0..LogEnd, eo : 0..LogEnd]
      /\ replica \in [phase : Phases, round : Nat, tick : Nat, head : Nat]
  BY <1>5 DEF ShapeInv
<1>7. seek.lo \in Nat /\ seek.hi \in Nat /\ seek.so \in Nat /\ seek.eo \in Nat /\ replica.round \in Nat
      /\ seek.lo <= LogEnd
  BY <1>4, <1>6
<1>8. ASSUME Intact(seek)
      PROVE  /\ replica.round > 0 /\ seek.so <= seek.lo
             /\ \E o \in 0..(LogEnd - 1) : o < seek.eo /\ Record(o) = replica.round
             /\ \A o \in 0..(LogEnd - 1) : Record(o) >= replica.round => seek.lo <= o
             /\ \A o \in 0..(LogEnd - 1) : seek.hi <= o /\ Record(o) > 0 => Record(o) >= replica.round
  BY <1>0, <1>5, <1>8 DEF SeekInv, IsBoundary
<1>9. CASE seek.lo < trimmed \/ ~BoundaryAfter(seek.lo)
  <2>1. ~Intact(seek)
    <3> SUFFICES ASSUME Intact(seek) PROVE FALSE
      OBVIOUS
    <3>1. PICK x \in 0..(LogEnd - 1) : x < seek.eo /\ Record(x) = replica.round /\ seek.lo <= x /\ Record(x) > 0
      <4>1. PICK x \in 0..(LogEnd - 1) : x < seek.eo /\ Record(x) = replica.round
        BY <1>8
      <4>2. Record(x) >= replica.round
        BY <4>1, <1>7
      <4> QED BY <4>1, <4>2, <1>8
    <3>2. ~(seek.lo < trimmed)
      BY <1>4, <1>7, <1>8 DEF Intact
    <3>3. PICK hit : hit = ProbeAt(seek.lo, seek.eo)
      OBVIOUS
    <3>4. hit \in 0..(LogEnd - 1) /\ seek.lo <= hit /\ IsBoundary(hit)
      BY <3>1, <3>3, <1>4, <1>7, ProbeIs DEF IsBoundary
    <3>5. Record(hit) > replica.round - 1
      <4>1. seek.hi <= hit /\ Record(hit) > 0
        BY <3>4, <1>0, <1>7 DEF IsBoundary
      <4>2. Record(hit) >= replica.round
        BY <4>1, <3>4, <1>8
      <4> QED BY <4>2, <3>4, <1>4, <1>7
    <3>6. seek.lo < seek.eo /\ hit >= 0
      BY <3>1, <3>4, <1>4, <1>7
    <3> QED BY <1>9, <3>2, <3>3, <3>5, <3>6 DEF BoundaryAfter
  <2>2. reader' = reader /\ replica' = [replica EXCEPT !.phase = "gap"]
    BY <1>1, <1>9 DEF Refuse
  <2>3. replica'.phase = "gap" /\ replica' \in [phase : Phases, round : Nat, tick : Nat, head : Nat]
    BY <2>2, <1>6 DEF Phases
  <2>4. Reads(seek', reader', replica', listed')
    BY <2>1, <2>2, <2>3, <1>0, <1>5 DEF Reads, ShapeInv, SeekInv, RoundInv, ReplayInv
  <2> QED BY <2>4, <1>0, ReadsStay
<1>10. CASE ~(seek.lo < trimmed \/ ~BoundaryAfter(seek.lo))
  <2>1. /\ reader' = [next |-> seek.lo, hwm |-> 0, start |-> seek.so, expect |-> replica.round, buf |-> {}]
        /\ replica' = [replica EXCEPT !.phase = "round"]
    BY <1>1, <1>10
  <2>2. /\ reader'.next = seek.lo /\ reader'.expect = replica.round /\ reader'.buf = {}
        /\ replica'.phase = "round" /\ replica'.round = replica.round
        /\ replica' \in [phase : Phases, round : Nat, tick : Nat, head : Nat]
        /\ reader' \in [next : 0..LogEnd, hwm : Nat, start : 0..LogEnd, expect : Nat, buf : SUBSET (0..(LogEnd - 1))]
    BY <2>1, <1>6 DEF Phases
  <2>3. ShapeInv(seek', reader', replica', listed')
    BY <2>2, <1>0, <1>6 DEF ShapeInv
  <2>4. RoundInv(seek', reader', replica')
    <3> SUFFICES ASSUME Intact(seek) PROVE RoundInv(seek', reader', replica')
      BY <1>0 DEF RoundInv
    <3>1. ASSUME NEW o \in 0..(LogEnd - 1), Record(o) > 0 PROVE seek.lo <= o <=> Record(o) >= replica.round
      <4>1. seek.lo <= o => seek.hi <= o
        BY <1>0, <1>7
      <4> QED BY <4>1, <3>1, <1>8
    <3> QED BY <3>1, <2>2, <1>0, <1>8 DEF RoundInv, Ahead, IsBoundary
  <2>5. Reads(seek', reader', replica', listed')
    BY <2>2, <2>3, <2>4 DEF Reads, SeekInv, ReplayInv
  <2> QED BY <2>5, <1>0, ReadsStay
<1> QED BY <1>9, <1>10

--------------------------------------------------------------------------------
(* Reading on. *)

ReaderStates ==
  [next : 0..LogEnd, hwm : Nat, start : 0..LogEnd, expect : Nat, buf : SUBSET (0..(LogEnd - 1))]

(* A fetch moves boundaries into the buffer, and changes nothing of what is  *)
(* still to be handed out.                                                    *)
LEMMA FetchIs ==
  ASSUME ReaderInv, NEW n \in FetchEnds, NEW r, r = IF reader.buf = {} THEN Fetched(n) ELSE reader
  PROVE  /\ r \in ReaderStates /\ r.expect = reader.expect /\ r.start = reader.start
         /\ reader.next <= r.next
         /\ \A o \in r.buf : o < r.next /\ IsBoundary(o)
         /\ \A o \in 0..(LogEnd - 1) : IsBoundary(o) => (Ahead(r, o) <=> Ahead(reader, o))
<1>1. PartitionInv /\ reader \in ReaderStates /\ LogEnd \in Nat /\ \A o \in reader.buf : o < reader.next /\ IsBoundary(o)
  BY RecordIs DEF ReaderInv, Reads, ShapeInv, ReaderStates
<1>2. CASE reader.buf # {}
  <2>1. r = reader /\ reader.next \in 0..LogEnd
    BY <1>1, <1>2 DEF ReaderStates
  <2> QED BY <2>1, <1>1
<1>3. CASE reader.buf = {}
  <2>1. PICK a \in Nat : a = reader.next /\ a <= LogEnd
    BY <1>1 DEF ReaderStates
  <2>2. n \in 0..LogEnd /\ a <= n
    BY <2>1, <1>1, <1>3 DEF FetchEnds
  <2>3. PICK B : B = Boundaries(a, n)
    OBVIOUS
  <2>4. /\ B \in SUBSET (0..(LogEnd - 1))
        /\ \A o \in 0..(LogEnd - 1) : o \in B <=> a <= o /\ o < n /\ IsBoundary(o)
    BY <2>1, <2>2, <2>3, <1>1, BoundariesAre
  <2>5. PICK h \in Nat : r = [reader EXCEPT !.next = n, !.hwm = h, !.buf = B]
    <3>1. r = [reader EXCEPT !.next = n, !.hwm = IF LogEnd > reader.hwm THEN LogEnd ELSE reader.hwm, !.buf = B]
      BY <2>1, <2>3, <1>3 DEF Fetched
    <3>2. (IF LogEnd > reader.hwm THEN LogEnd ELSE reader.hwm) \in Nat
      BY <1>1 DEF ReaderStates
    <3> QED BY <3>1, <3>2
  <2>6. r \in ReaderStates /\ r.expect = reader.expect /\ r.start = reader.start /\ r.next = n /\ r.buf = B
    BY <2>2, <2>4, <2>5, <1>1 DEF ReaderStates
  <2>7. ASSUME NEW o \in 0..(LogEnd - 1), IsBoundary(o) PROVE Ahead(r, o) <=> Ahead(reader, o)
    <3>1. Ahead(reader, o) <=> a <= o
      BY <2>1, <1>3 DEF Ahead
    <3>2. Ahead(r, o) <=> (o \in B \/ n <= o)
      BY <2>6 DEF Ahead
    <3> QED BY <3>1, <3>2, <2>1, <2>2, <2>4, <2>7, <1>1
  <2> QED BY <2>1, <2>2, <2>4, <2>6, <2>7
<1> QED BY <1>2, <1>3

(* What is handed out is the front of the buffer. *)
LEMMA HandedOutIs ==
  ASSUME LogEnd \in Nat, NEW r \in ReaderStates, NEW max \in Nat \ {0}
  PROVE  /\ HandedOut(r, max) \in SUBSET r.buf
         /\ HandedOut(r, max) = {} => r.buf = {}
         /\ \A o \in HandedOut(r, max) : \A q \in r.buf : q <= o => q \in HandedOut(r, max)
<1> DEFINE Lower(o) == {q \in r.buf : q < o}
<1>0. r.buf \in SUBSET (0..(LogEnd - 1)) /\ r.buf \in SUBSET Nat
  BY DEF ReaderStates
<1>1. IsFiniteSet(r.buf)
  <2>1. IsFiniteSet(0..(LogEnd - 1))
    BY FS_Interval
  <2> QED BY <2>1, <1>0, FS_Subset
<1>2. \A o : IsFiniteSet(Lower(o)) /\ Cardinality(Lower(o)) \in Nat
  <2>1. \A o : Lower(o) \in SUBSET r.buf
    OBVIOUS
  <2> HIDE DEF Lower
  <2>2. \A o : IsFiniteSet(Lower(o))
    BY <2>1, <1>1, FS_Subset
  <2> QED BY <2>2, FS_CardinalityType
<1>3. ASSUME NEW o \in r.buf, NEW q \in r.buf, q <= o PROVE Cardinality(Lower(q)) <= Cardinality(Lower(o))
  <2>1. Lower(q) \in SUBSET Lower(o)
    BY <1>0, <1>3
  <2> HIDE DEF Lower
  <2> QED BY <2>1, <1>2, FS_Subset
<1>4. HandedOut(r, max) = {o \in r.buf : Cardinality(Lower(o)) < max}
  BY DEF HandedOut
<1>5. ASSUME r.buf # {} PROVE HandedOut(r, max) # {}
  <2>1. PICK m \in r.buf : \A x \in r.buf : m <= x
    BY <1>0, <1>5, LeastNatural
  <2>2. Lower(m) = {}
    BY <2>1, <1>0
  <2> HIDE DEF Lower
  <2>3. Cardinality(Lower(m)) = 0
    BY <2>2, FS_EmptySet
  <2> QED BY <2>1, <2>3, <1>4
<1> HIDE DEF Lower
<1>6. ASSUME NEW o \in HandedOut(r, max), NEW q \in r.buf, q <= o PROVE q \in HandedOut(r, max)
  <2>1. o \in r.buf /\ Cardinality(Lower(o)) < max
    BY <1>4, <1>6
  <2>2. Cardinality(Lower(q)) <= Cardinality(Lower(o))
    BY <2>1, <1>3, <1>6
  <2>3. Cardinality(Lower(q)) < max
    BY <2>1, <2>2, <1>2
  <2> QED BY <2>3, <1>4
<1> QED BY <1>4, <1>5, <1>6

(* One at a time: the first of the buffer. *)
LEMMA OneHandedOut ==
  ASSUME LogEnd \in Nat, NEW r \in ReaderStates, r.buf # {}
  PROVE  HandedOut(r, 1) = {Min(r.buf)} /\ Min(r.buf) \in r.buf /\ \A x \in r.buf : Min(r.buf) <= x
<1> DEFINE Lower(o) == {q \in r.buf : q < o}
<1>0. r.buf \in SUBSET (0..(LogEnd - 1)) /\ r.buf \in SUBSET Nat
  BY DEF ReaderStates
<1>1. Min(r.buf) \in r.buf /\ \A x \in r.buf : Min(r.buf) <= x
  BY <1>0, MinIsLeast
<1>2. IsFiniteSet(r.buf)
  <2>1. IsFiniteSet(0..(LogEnd - 1))
    BY FS_Interval
  <2> QED BY <2>1, <1>0, FS_Subset
<1>3. \A o : Cardinality(Lower(o)) \in Nat /\ (Cardinality(Lower(o)) = 0 <=> Lower(o) = {})
  <2>1. \A o : Lower(o) \in SUBSET r.buf
    OBVIOUS
  <2> HIDE DEF Lower
  <2>2. \A o : IsFiniteSet(Lower(o))
    BY <2>1, <1>2, FS_Subset
  <2> QED BY <2>2, FS_CardinalityType, FS_EmptySet
<1>4. \A o \in r.buf : Lower(o) = {} <=> o = Min(r.buf)
  BY <1>0, <1>1
<1>5. HandedOut(r, 1) = {o \in r.buf : Cardinality(Lower(o)) < 1}
  BY DEF HandedOut
<1> HIDE DEF Lower
<1>6. \A o \in r.buf : Cardinality(Lower(o)) < 1 <=> o = Min(r.buf)
  BY <1>3, <1>4
<1> QED BY <1>1, <1>5, <1>6

(* A refusal is in order only where the log lost something. *)
LEMMA RefusedKeeps ==
  ASSUME ReaderInv, ~Intact(seek), Refuse, reader' \in ReaderStates,
         \A o \in reader'.buf : o < reader'.next /\ IsBoundary(o),
         UNCHANGED <<partition, trimmed, lateWrites, seek, listed>>
  PROVE  ReaderInv'
<1>1. ShapeInv(seek, reader, replica, listed)
  BY DEF ReaderInv, Reads
<1>2. replica'.phase = "gap" /\ replica' \in [phase : Phases, round : Nat, tick : Nat, head : Nat]
  BY <1>1 DEF ShapeInv, Refuse, Phases
<1>3. Reads(seek', reader', replica', listed')
  BY <1>1, <1>2 DEF Reads, ShapeInv, SeekInv, RoundInv, ReplayInv, ReaderStates
<1> QED BY <1>3, ReadsStay

(* A call of Next, with r the reader after its fetch. *)
Called(r, n, max) ==
  /\ r.expect = reader.expect /\ reader.next <= r.next
  /\ \A o \in r.buf : o < r.next /\ IsBoundary(o)
  /\ \A o \in 0..(LogEnd - 1) : IsBoundary(o) => (Ahead(r, o) <=> Ahead(reader, o))
  /\ \/ /\ reader.buf = {} /\ reader.next < trimmed
        /\ NextBoundaries(n, max) = [reader |-> reader, batch |-> {}, refused |-> TRUE]
     \/ /\ LandedPast(r)
        /\ NextBoundaries(n, max) = [reader |-> StartOver(r), batch |-> {}, refused |-> FALSE]
        /\ StartOver(r) \in ReaderStates /\ StartOver(r).buf = {}
     \/ /\ ~LandedPast(r)
        /\ NextBoundaries(n, max) = [reader |-> HandedOver(r, max), batch |-> HandedOut(r, max), refused |-> FALSE]
        /\ HandedOver(r, max) \in ReaderStates
        /\ HandedOver(r, max).buf = r.buf \ HandedOut(r, max) /\ HandedOver(r, max).next = r.next
        /\ HandedOver(r, max).expect = IF r.buf = {} THEN r.expect ELSE 0

(* It is refused, starts over, or hands out the front of the buffer. *)
LEMMA CallIs ==
  ASSUME ReaderInv, NEW n \in FetchEnds, NEW max \in Nat \ {0}
  PROVE  \E r \in ReaderStates : Called(r, n, max)
<1>1. PICK r : r = IF reader.buf = {} THEN Fetched(n) ELSE reader
  OBVIOUS
<1>2. /\ r \in ReaderStates /\ r.expect = reader.expect
      /\ reader.next <= r.next
      /\ \A o \in r.buf : o < r.next /\ IsBoundary(o)
      /\ \A o \in 0..(LogEnd - 1) : IsBoundary(o) => (Ahead(r, o) <=> Ahead(reader, o))
  BY <1>1, FetchIs
<1>3. StartOver(r) \in ReaderStates /\ StartOver(r).buf = {}
  BY <1>2 DEF StartOver, ReaderStates
<1>4. /\ HandedOver(r, max) \in ReaderStates
      /\ HandedOver(r, max).buf = r.buf \ HandedOut(r, max) /\ HandedOver(r, max).next = r.next
      /\ HandedOver(r, max).expect = IF r.buf = {} THEN r.expect ELSE 0
  <2>1. PICK B \in SUBSET (0..(LogEnd - 1)) : B = r.buf \ HandedOut(r, max)
    BY <1>2 DEF ReaderStates
  <2>2. PICK e \in Nat : e = IF r.buf = {} THEN r.expect ELSE 0
    BY <1>2 DEF ReaderStates
  <2>3. HandedOver(r, max) = [r EXCEPT !.buf = B, !.expect = e]
    BY <2>1, <2>2 DEF HandedOver
  <2>4. [r EXCEPT !.buf = B, !.expect = e] \in ReaderStates
    BY <1>2 DEF ReaderStates
  <2> QED BY <2>1, <2>2, <2>3, <2>4, <1>2 DEF ReaderStates
<1>5. NextBoundaries(n, max) =
        IF reader.buf = {} /\ reader.next < trimmed
          THEN [reader |-> reader, batch |-> {}, refused |-> TRUE]
        ELSE IF LandedPast(r)
          THEN [reader |-> StartOver(r), batch |-> {}, refused |-> FALSE]
        ELSE [reader |-> HandedOver(r, max), batch |-> HandedOut(r, max), refused |-> FALSE]
  BY <1>1 DEF NextBoundaries
<1>6. CASE reader.buf = {} /\ reader.next < trimmed
  <2>1. NextBoundaries(n, max) = [reader |-> reader, batch |-> {}, refused |-> TRUE]
    BY <1>5, <1>6, Zenon
  <2> QED BY <2>1, <1>2, <1>6, Zenon DEF Called
<1>7. CASE ~(reader.buf = {} /\ reader.next < trimmed) /\ LandedPast(r)
  <2>1. NextBoundaries(n, max) = [reader |-> StartOver(r), batch |-> {}, refused |-> FALSE]
    BY <1>5, <1>7, Zenon
  <2> QED BY <2>1, <1>2, <1>3, <1>7, Zenon DEF Called
<1>8. CASE ~(reader.buf = {} /\ reader.next < trimmed) /\ ~LandedPast(r)
  <2>1. NextBoundaries(n, max) = [reader |-> HandedOver(r, max), batch |-> HandedOut(r, max), refused |-> FALSE]
    BY <1>5, <1>8, Zenon
  <2> QED BY <2>1, <1>2, <1>4, <1>8, Zenon DEF Called
<1> QED BY <1>6, <1>7, <1>8, Zenon

(* The round's boundary is the first one handed out. *)
LEMMA NextRoundKeeps == ASSUME ReaderInv, NextRound PROVE ReaderInv'
<1>1. PICK n \in FetchEnds :
        /\ reader' = NextBoundaries(n, 1).reader
        /\ IF NextBoundaries(n, 1).refused THEN Refuse ELSE ReaderRound(NextBoundaries(n, 1).batch)
  BY DEF NextRound
<1>2. replica.phase = "round" /\ UNCHANGED <<partition, trimmed, lateWrites, seek, listed>>
  BY DEF NextRound
<1>3. PICK r \in ReaderStates : Called(r, n, 1)
  <2>1. 1 \in Nat \ {0}
    OBVIOUS
  <2> QED BY <2>1, CallIs
<1>c. /\ r.expect = reader.expect /\ reader.next <= r.next
      /\ \A o \in r.buf : o < r.next /\ IsBoundary(o)
      /\ \A o \in 0..(LogEnd - 1) : IsBoundary(o) => (Ahead(r, o) <=> Ahead(reader, o))
  BY <1>3 DEF Called
<1>4. /\ PartitionInv /\ LogEnd \in Nat /\ trimmed \in Nat /\ \A o \in 0..(LogEnd - 1) : Record(o) \in Nat
  BY RecordIs DEF ReaderInv, PartitionInv
<1>5. /\ ShapeInv(seek, reader, replica, listed) /\ RoundInv(seek, reader, replica)
      /\ seek \in [lo : 0..LogEnd, hi : 0..LogEnd, so : 0..LogEnd, eo : 0..LogEnd]
      /\ replica \in [phase : Phases, round : Nat, tick : Nat, head : Nat]
      /\ reader \in ReaderStates /\ \A o \in reader.buf : o < reader.next /\ IsBoundary(o)
  BY DEF ReaderInv, Reads, ShapeInv, ReaderStates
<1>6. seek.so \in Nat /\ reader.next \in Nat /\ r.next \in Nat /\ replica.round \in Nat /\ r.buf \in SUBSET (0..(LogEnd - 1))
  BY <1>4, <1>5 DEF ReaderStates
<1>7. ASSUME Intact(seek)
      PROVE  /\ replica.round > 0 /\ r.expect = replica.round
             /\ seek.so <= reader.next /\ seek.so <= r.next /\ trimmed <= reader.next
             /\ \E o \in 0..(LogEnd - 1) : Record(o) = replica.round
             /\ \A o \in 0..(LogEnd - 1) : IsBoundary(o) => (Ahead(r, o) <=> Record(o) >= replica.round)
  <2>1. /\ replica.round > 0 /\ reader.expect = replica.round /\ seek.so <= reader.next
        /\ \E o \in 0..(LogEnd - 1) : Record(o) = replica.round
        /\ \A o \in 0..(LogEnd - 1) : IsBoundary(o) => (Ahead(reader, o) <=> Record(o) >= replica.round)
    BY <1>2, <1>5, <1>7 DEF RoundInv
  <2>2. trimmed <= reader.next /\ seek.so <= r.next
    BY <2>1, <1>c, <1>4, <1>6, <1>7 DEF Intact
  <2> QED BY <2>1, <2>2, <1>c
<1>8. CASE /\ reader.buf = {} /\ reader.next < trimmed
           /\ NextBoundaries(n, 1) = [reader |-> reader, batch |-> {}, refused |-> TRUE]
  <2>1. ~Intact(seek)
    BY <1>4, <1>6, <1>7, <1>8
  <2>2. reader' = reader /\ Refuse
    BY <1>1, <1>8
  <2> QED BY <2>1, <2>2, <1>2, <1>5, RefusedKeeps
(* The first boundary of the buffer is the round's. *)
<1>9. ASSUME Intact(seek), r.buf # {} PROVE Record(Min(r.buf)) = replica.round
  <2>1. PICK m : m = Min(r.buf)
    OBVIOUS
  <2>2. m \in r.buf /\ \A x \in r.buf : m <= x
    BY <2>1, <1>4, <1>9, OneHandedOut
  <2>3. m \in 0..(LogEnd - 1) /\ m < r.next /\ IsBoundary(m) /\ Record(m) \in Nat
    BY <2>2, <1>c, <1>4, <1>6
  <2>4. Record(m) >= replica.round
    BY <2>2, <2>3, <1>7, <1>9 DEF Ahead
  <2>5. PICK x \in 0..(LogEnd - 1) : Record(x) = replica.round
    BY <1>7, <1>9
  <2>6. IsBoundary(x) /\ Record(x) >= replica.round
    BY <2>5, <1>6, <1>7, <1>9 DEF IsBoundary
  <2>7. x \in r.buf \/ r.next <= x
    BY <2>6, <1>7, <1>9 DEF Ahead
  <2>8. m <= x
    BY <2>2, <2>3, <2>7, <1>4, <1>6
  <2>9. CASE m = x
    BY <2>9, <2>1, <2>5
  <2>10. CASE m # x
    <3>1. Record(m) < Record(x)
      BY <2>3, <2>6, <2>8, <2>10, <1>4, <1>9 DEF Intact, PartitionInv, InTickOrder
    <3> QED BY <3>1, <2>3, <2>4, <2>5, <1>6
  <2> QED BY <2>9, <2>10
<1>10. CASE /\ LandedPast(r)
            /\ NextBoundaries(n, 1) = [reader |-> StartOver(r), batch |-> {}, refused |-> FALSE]
            /\ StartOver(r) \in ReaderStates /\ StartOver(r).buf = {}
  <2>1. ~Intact(seek)
    <3> SUFFICES ASSUME Intact(seek) PROVE FALSE
      OBVIOUS
    <3>1. r.buf # {} /\ Record(Min(r.buf)) > replica.round
      BY <1>7, <1>10 DEF LandedPast
    <3> QED BY <3>1, <1>6, <1>9
  <2>2. reader' = StartOver(r) /\ replica' = replica
    BY <1>1, <1>10 DEF ReaderRound
  <2>3. Reads(seek', reader', replica', listed')
    BY <2>1, <2>2, <1>2, <1>5, <1>10 DEF Reads, ShapeInv, SeekInv, RoundInv, ReplayInv, ReaderStates
  <2> QED BY <2>3, <1>2, ReadsStay
<1>11. CASE /\ ~LandedPast(r)
            /\ NextBoundaries(n, 1) = [reader |-> HandedOver(r, 1), batch |-> HandedOut(r, 1), refused |-> FALSE]
            /\ HandedOver(r, 1) \in ReaderStates
            /\ HandedOver(r, 1).buf = r.buf \ HandedOut(r, 1) /\ HandedOver(r, 1).next = r.next
            /\ HandedOver(r, 1).expect = IF r.buf = {} THEN r.expect ELSE 0
  <2>1. /\ reader' \in ReaderStates /\ reader'.buf = r.buf \ HandedOut(r, 1) /\ reader'.next = r.next
        /\ reader'.expect = (IF r.buf = {} THEN r.expect ELSE 0)
        /\ ReaderRound(HandedOut(r, 1))
    BY <1>1, <1>11
  <2>2. \A o \in reader'.buf : o < reader'.next /\ IsBoundary(o)
    BY <2>1, <1>c
  <2>3. CASE r.buf = {}
    <3>1. HandedOut(r, 1) = {} /\ reader'.buf = {} /\ reader'.expect = r.expect
      BY <2>1, <2>3 DEF HandedOut
    <3>2. replica' = replica
      BY <3>1, <2>1 DEF ReaderRound
    <3>3. \A o : Ahead(reader', o) <=> Ahead(r, o)
      BY <3>1, <2>1, <2>3 DEF Ahead
    <3>4. RoundInv(seek', reader', replica')
      BY <3>1, <3>2, <3>3, <2>1, <1>2, <1>7 DEF RoundInv
    <3>5. Reads(seek', reader', replica', listed')
      BY <3>2, <3>4, <2>1, <2>2, <1>2, <1>5 DEF Reads, ShapeInv, SeekInv, ReplayInv, ReaderStates
    <3> QED BY <3>5, <1>2, ReadsStay
  <2>4. CASE r.buf # {}
    <3>1. PICK m : m = Min(r.buf)
      OBVIOUS
    <3>2. HandedOut(r, 1) = {m} /\ m \in r.buf /\ m \in 0..(LogEnd - 1) /\ Record(m) \in Nat
      BY <3>1, <2>4, <1>4, <1>6, OneHandedOut
    <3>3. reader'.expect = 0 /\ reader'.buf = r.buf \ {m}
      BY <3>2, <2>1, <2>4
    <3>4. CASE Record(m) < replica.round
      <4>1. ~Intact(seek)
        BY <3>1, <3>2, <3>4, <2>4, <1>6, <1>9
      <4>2. replica' = replica
        BY <3>2, <3>4, <2>1 DEF ReaderRound
      <4>3. Reads(seek', reader', replica', listed')
        BY <4>1, <4>2, <2>1, <2>2, <1>2, <1>5 DEF Reads, ShapeInv, SeekInv, RoundInv, ReplayInv, ReaderStates
      <4> QED BY <4>3, <1>2, ReadsStay
    <3>5. CASE Record(m) = replica.round
      <4>1. replica' = [replica EXCEPT !.phase = "head", !.tick = replica.round]
        BY <3>2, <3>5, <2>1, <1>6 DEF ReaderRound
      <4>2. /\ replica'.phase = "head" /\ replica'.tick = replica.round /\ replica'.round = replica.round
            /\ replica' \in [phase : Phases, round : Nat, tick : Nat, head : Nat]
        BY <4>1, <1>5 DEF Phases
      <4>3. ASSUME Intact(seek), NEW o \in 0..(LogEnd - 1), Record(o) > replica.round PROVE Ahead(reader', o)
        <5>1. IsBoundary(o) /\ Record(o) >= replica.round /\ o # m
          BY <4>3, <3>5, <1>4, <1>6 DEF IsBoundary
        <5>2. o \in r.buf \/ r.next <= o
          BY <5>1, <4>3, <1>7 DEF Ahead
        <5> QED BY <5>1, <5>2, <3>3, <2>1 DEF Ahead
      <4>4. ReplayInv(seek', reader', replica', listed')
        BY <4>2, <4>3, <3>3, <2>1, <1>2, <1>7 DEF ReplayInv
      <4>5. ShapeInv(seek', reader', replica', listed')
        BY <4>2, <2>1, <2>2, <1>2, <1>5 DEF ShapeInv, ReaderStates
      <4>6. Reads(seek', reader', replica', listed')
        BY <4>2, <4>4, <4>5 DEF Reads, SeekInv, RoundInv
      <4> QED BY <4>6, <1>2, ReadsStay
    <3>6. CASE Record(m) > replica.round
      <4>1. ~Intact(seek)
        BY <3>1, <3>2, <3>6, <2>4, <1>6, <1>9
      <4>2. Refuse
        BY <3>2, <3>6, <2>1, <1>6 DEF ReaderRound
      <4> QED BY <4>1, <4>2, <2>1, <2>2, <1>2, RefusedKeeps
    <3> QED BY <3>2, <3>4, <3>5, <3>6, <1>6
  <2> QED BY <2>3, <2>4
<1> QED BY <1>3, <1>8, <1>10, <1>11 DEF Called

(* The boundaries of a batch that are due. *)
Due(batchNow) == {o \in batchNow : Record(o) > replica.tick /\ Record(o) <= replica.head}

(* On an intact log they follow on from the replica's tick. *)
LEMMA DueFollowOn ==
  ASSUME PartitionInv, lateWrites = 0, replica.tick \in Nat, NEW B \in SUBSET (0..(LogEnd - 1)),
         \A o \in B, q \in 0..(LogEnd - 1) :
           q <= o /\ Record(q) > replica.tick /\ Record(q) <= replica.head => q \in B,
         replica.head \in Nat, NEW o \in Due(B)
  PROVE  Record(o) = replica.tick + Cardinality({q \in Due(B) : q <= o})
<1>1. LogEnd \in Nat /\ \A q \in 0..(LogEnd - 1) : Record(q) \in Nat
  BY RecordIs
<1>2. /\ \A p, q \in 0..(LogEnd - 1) : p < q /\ Record(p) > 0 /\ Record(q) > 0 => Record(p) < Record(q)
      /\ \A q \in 0..(LogEnd - 1) : \A u \in 1..Record(q) : \E p \in 0..q : Record(p) = u
  BY DEF PartitionInv, InTickOrder, IsBoundary
<1>3. /\ o \in B /\ o \in 0..(LogEnd - 1) /\ Record(o) \in Nat
      /\ Record(o) > replica.tick /\ Record(o) <= replica.head
  BY <1>1 DEF Due
<1>4. PICK S : S = {q \in Due(B) : q <= o}
  OBVIOUS
<1>5. \A q \in S : q \in 0..(LogEnd - 1) /\ q <= o /\ Record(q) > replica.tick /\ Record(q) \in Nat
  BY <1>1, <1>4 DEF Due
<1>6. PICK U : U = (replica.tick + 1)..Record(o)
  OBVIOUS
<1>7. ASSUME NEW q \in S PROVE Record(q) \in U
  <2>1. CASE q = o
    BY <2>1, <1>3, <1>5, <1>6
  <2>2. CASE q # o
    <3>1. q < o /\ Record(q) > 0 /\ Record(o) > 0
      BY <2>2, <1>1, <1>3, <1>5
    <3>2. Record(q) < Record(o)
      BY <3>1, <1>2, <1>3, <1>5
    <3> QED BY <3>2, <1>3, <1>5, <1>6
  <2> QED BY <2>1, <2>2
<1>8. ASSUME NEW u \in U PROVE \E q \in S : Record(q) = u
  <2>1. u \in 1..Record(o) /\ u > replica.tick /\ u <= replica.head
    BY <1>3, <1>6
  <2>2. PICK q \in 0..o : Record(q) = u
    BY <2>1, <1>2, <1>3
  <2>3. q \in 0..(LogEnd - 1) /\ q <= o
    BY <1>1, <1>3
  <2>4. q \in B
    BY <2>1, <2>2, <2>3, <1>3
  <2>5. q \in S
    BY <2>1, <2>2, <2>3, <2>4, <1>4 DEF Due
  <2> QED BY <2>2, <2>5
<1>9. ASSUME NEW p \in S, NEW q \in S, Record(p) = Record(q) PROVE p = q
  <2>1. Record(p) > 0 /\ Record(q) > 0 /\ p \in 0..(LogEnd - 1) /\ q \in 0..(LogEnd - 1)
    BY <1>5
  <2>2. ~(p < q) /\ ~(q < p)
    BY <2>1, <1>2, <1>5, <1>9
  <2> QED BY <2>1, <2>2, <1>1
<1>10. PICK f : f = [q \in S |-> Record(q)]
  OBVIOUS
<1>11. f \in Bijection(S, U)
  <2>1. f \in [S -> U] /\ \A q \in S : f[q] = Record(q)
    BY <1>7, <1>10
  <2>2. \A p, q \in S : f[p] = f[q] => p = q
    BY <2>1, <1>9
  <2>3. \A u \in U : \E q \in S : f[q] = u
    BY <2>1, <1>8
  <2> QED BY <2>1, <2>2, <2>3 DEF Bijection, Injection, Surjection, IsInjective
<1>12. ExistsBijection(S, U)
  BY <1>11 DEF ExistsBijection
<1>13. IsFiniteSet(S)
  <2>1. IsFiniteSet(0..(LogEnd - 1))
    BY <1>1, FS_Interval
  <2>2. S \in SUBSET (0..(LogEnd - 1))
    BY <1>5
  <2> QED BY <2>1, <2>2, FS_Subset
<1>14. Cardinality(U) = Cardinality(S)
  BY <1>12, <1>13, FS_Bijection
<1>15. Cardinality(U) = Record(o) - (replica.tick + 1) + 1
  <2>1. PICK a \in Int, b \in Int : a = replica.tick + 1 /\ b = Record(o) /\ a <= b
    BY <1>3
  <2>2. Cardinality(a..b) = IF a > b THEN 0 ELSE b - a + 1
    BY FS_Interval
  <2> QED BY <2>1, <2>2, <1>6
<1>16. Record(o) = replica.tick + Cardinality(S)
  BY <1>3, <1>14, <1>15
<1> QED BY <1>16, <1>4

(* What is applied ends at the last of them. *)
LEMMA DueApplied ==
  ASSUME PartitionInv, replica.tick \in Nat, replica.head \in Nat, NEW B \in SUBSET (0..(LogEnd - 1)),
         \A o \in Due(B) : Record(o) = replica.tick + Cardinality({q \in Due(B) : q <= o})
  PROVE  /\ Cardinality(Due(B)) \in Nat
         /\ Cardinality(Due(B)) = 0 \/ replica.tick + Cardinality(Due(B)) <= replica.head
         /\ \A o \in Due(B) : Record(o) <= replica.tick + Cardinality(Due(B))
<1>1. LogEnd \in Nat
  BY RecordIs
<1>2. PICK D : D = Due(B)
  OBVIOUS
<1>3. /\ D \in SUBSET (0..(LogEnd - 1)) /\ D \in SUBSET (0..LogEnd)
      /\ \A o \in D : Record(o) <= replica.head
      /\ \A o \in D : Record(o) = replica.tick + Cardinality({q \in D : q <= o})
  <2>1. D \in SUBSET (0..(LogEnd - 1)) /\ \A o \in D : Record(o) <= replica.head
    BY <1>2 DEF Due
  <2>2. D \in SUBSET (0..LogEnd)
    BY <2>1, <1>1
  <2>3. \A o \in D : Record(o) = replica.tick + Cardinality({q \in D : q <= o})
    BY <1>2, Zenon
  <2> QED BY <2>1, <2>2, <2>3
<1>4. IsFiniteSet(D) /\ Cardinality(D) \in Nat
  <2>1. IsFiniteSet(0..(LogEnd - 1))
    BY <1>1, FS_Interval
  <2>2. IsFiniteSet(D)
    BY <2>1, <1>3, FS_Subset
  <2> QED BY <2>2, FS_CardinalityType
<1>5. CASE D = {}
  <2>1. Cardinality(D) = 0
    BY <1>5, FS_EmptySet
  <2> QED BY <2>1, <1>2, <1>4, <1>5
<1>6. CASE D # {}
  <2>1. PICK m \in D : \A q \in D : q <= m
    BY <1>1, <1>3, <1>6, GreatestNatural
  <2>2. {q \in D : q <= m} = D
    BY <2>1
  <2>3. Record(m) = replica.tick + Cardinality(D) /\ Record(m) <= replica.head
    BY <2>1, <2>2, <1>3
  <2>4. ASSUME NEW o \in D PROVE Record(o) <= replica.tick + Cardinality(D)
    <3>1. PICK S \in SUBSET D : S = {q \in D : q <= o}
      OBVIOUS
    <3>2. Cardinality(S) <= Cardinality(D) /\ IsFiniteSet(S)
      BY <1>4, FS_Subset
    <3>3. Cardinality(S) \in Nat
      BY <3>2, FS_CardinalityType
    <3>4. Record(o) = replica.tick + Cardinality(S)
      BY <3>1, <1>3
    <3> QED BY <3>2, <3>3, <3>4, <1>4
  <2> QED BY <2>3, <2>4, <1>2, <1>4
<1> QED BY <1>5, <1>6

(* A batch is applied up to the head. *)
LEMMA NextReplayKeeps == ASSUME ReaderInv, NextReplay PROVE ReaderInv'
<1>1. PICK n \in FetchEnds :
        /\ reader' = NextBoundaries(n, ReplayBatch).reader
        /\ IF NextBoundaries(n, ReplayBatch).refused THEN Refuse ELSE TakeBatch(NextBoundaries(n, ReplayBatch).batch)
  BY DEF NextReplay
<1>2. /\ replica.phase = "replay" /\ UNCHANGED <<partition, trimmed, lateWrites, seek, listed>>
  BY DEF NextReplay
<1>m. PICK max \in Nat \ {0} : max = ReplayBatch
  BY ReaderAssumption
<1>3. PICK r \in ReaderStates : Called(r, n, max)
  BY CallIs
<1>c. /\ r.expect = reader.expect /\ reader.next <= r.next
      /\ \A o \in r.buf : o < r.next /\ IsBoundary(o)
      /\ \A o \in 0..(LogEnd - 1) : IsBoundary(o) => (Ahead(r, o) <=> Ahead(reader, o))
  BY <1>3 DEF Called
<1>4. /\ PartitionInv /\ LogEnd \in Nat /\ trimmed \in Nat /\ \A o \in 0..(LogEnd - 1) : Record(o) \in Nat
  BY RecordIs DEF ReaderInv, PartitionInv
<1>5. /\ ShapeInv(seek, reader, replica, listed) /\ ReplayInv(seek, reader, replica, listed)
      /\ seek \in [lo : 0..LogEnd, hi : 0..LogEnd, so : 0..LogEnd, eo : 0..LogEnd]
      /\ replica \in [phase : Phases, round : Nat, tick : Nat, head : Nat]
      /\ reader \in ReaderStates /\ \A o \in reader.buf : o < reader.next /\ IsBoundary(o)
  BY DEF ReaderInv, Reads, ShapeInv, ReaderStates
<1>6. /\ seek.so \in Nat /\ reader.next \in Nat /\ r.next \in Nat /\ r.buf \in SUBSET (0..(LogEnd - 1))
      /\ replica.round \in Nat /\ replica.tick \in Nat /\ replica.head \in Nat
  BY <1>4, <1>5 DEF ReaderStates
<1>r. /\ r.expect = 0 /\ replica.head = listed /\ replica.round <= replica.tick
      /\ replica.tick = replica.round \/ replica.tick <= replica.head
      /\ replica.head = 0 \/ \E o \in 0..(LogEnd - 1) : Record(o) = replica.head
  BY <1>2, <1>5, <1>c DEF ReplayInv
<1>7. ASSUME Intact(seek)
      PROVE  /\ trimmed <= reader.next /\ seek.so <= r.next
             /\ \A o \in 0..(LogEnd - 1) : Record(o) > replica.tick /\ Record(o) <= replica.head => Ahead(r, o)
  <2>1. /\ seek.so <= reader.next
        /\ \A o \in 0..(LogEnd - 1) : Record(o) > replica.tick /\ Record(o) <= replica.head => Ahead(reader, o)
    BY <1>2, <1>5, <1>7 DEF ReplayInv
  <2>2. trimmed <= reader.next /\ seek.so <= r.next
    BY <2>1, <1>c, <1>4, <1>6, <1>7 DEF Intact
  <2>3. \A o \in 0..(LogEnd - 1) : Record(o) > replica.tick => IsBoundary(o)
    BY <1>4, <1>6 DEF IsBoundary
  <2> QED BY <2>1, <2>2, <2>3, <1>c
<1>8. CASE /\ reader.buf = {} /\ reader.next < trimmed
           /\ NextBoundaries(n, max) = [reader |-> reader, batch |-> {}, refused |-> TRUE]
  <2>1. ~Intact(seek)
    BY <1>4, <1>6, <1>7, <1>8
  <2>2. reader' = reader /\ Refuse
    BY <1>1, <1>8, <1>m
  <2> QED BY <2>1, <2>2, <1>2, <1>5, RefusedKeeps
<1>9. ~LandedPast(r)
  BY <1>r DEF LandedPast
<1>10. CASE /\ NextBoundaries(n, max) = [reader |-> HandedOver(r, max), batch |-> HandedOut(r, max), refused |-> FALSE]
            /\ HandedOver(r, max) \in ReaderStates
            /\ HandedOver(r, max).buf = r.buf \ HandedOut(r, max) /\ HandedOver(r, max).next = r.next
            /\ HandedOver(r, max).expect = IF r.buf = {} THEN r.expect ELSE 0
  <2>1. PICK B : B = HandedOut(r, max)
    OBVIOUS
  <2>2. /\ B \in SUBSET r.buf /\ B \in SUBSET (0..(LogEnd - 1))
        /\ \A o \in B : \A q \in r.buf : q <= o => q \in B
    BY <2>1, <1>4, <1>6, HandedOutIs
  <2>3. /\ reader' \in ReaderStates /\ reader'.buf = r.buf \ B /\ reader'.next = r.next /\ reader'.expect = 0
        /\ TakeBatch(B)
    BY <2>1, <1>1, <1>10, <1>m, <1>r
  <2>4. \A o \in reader'.buf : o < reader'.next /\ IsBoundary(o)
    BY <2>3, <1>c
  <2>5. PICK D : D = Due(B)
    OBVIOUS
  <2>6. IF \A o \in D : Record(o) = replica.tick + Cardinality({q \in D : q <= o})
          THEN replica' = [replica EXCEPT !.tick = @ + Cardinality(D)]
          ELSE Refuse
    BY <2>3, <2>5 DEF TakeBatch, Due
  <2>7. CASE \A o \in D : Record(o) = replica.tick + Cardinality({q \in D : q <= o})
    <3>1. /\ Cardinality(D) \in Nat
          /\ Cardinality(D) = 0 \/ replica.tick + Cardinality(D) <= replica.head
          /\ \A o \in D : Record(o) <= replica.tick + Cardinality(D)
      BY <2>2, <2>5, <2>7, <1>4, <1>6, DueApplied
    <3>2. PICK t \in Nat : t = replica.tick + Cardinality(D)
      BY <3>1, <1>6
    <3>3. /\ replica.round <= t /\ (t = replica.round \/ t <= replica.head) /\ replica.tick <= t
          /\ \A o \in D : Record(o) <= t
      BY <3>1, <3>2, <1>6, <1>r
    <3>4. replica' = [replica EXCEPT !.tick = t]
      BY <2>6, <2>7, <3>2
    <3>5. /\ replica' \in [phase : Phases, round : Nat, tick : Nat, head : Nat]
          /\ replica'.phase = "replay" /\ replica'.tick = t /\ replica'.head = replica.head
          /\ replica'.round = replica.round
      BY <3>4, <1>2, <1>5
    <3>6. ASSUME Intact(seek), NEW o \in 0..(LogEnd - 1), Record(o) > t, Record(o) <= replica.head
          PROVE  Ahead(reader', o)
      <4>1. Record(o) > replica.tick /\ Record(o) \in Nat /\ ~(Record(o) <= t)
        BY <3>3, <3>6, <1>4, <1>6
      <4>2. o \in r.buf \/ r.next <= o
        BY <4>1, <3>6, <1>7 DEF Ahead
      <4>3. o \notin D
        BY <4>1, <3>3
      <4>4. o \notin B
        BY <4>1, <4>3, <3>6, <2>5 DEF Due
      <4> QED BY <4>2, <4>4, <2>3 DEF Ahead
    <3>7. ReplayInv(seek', reader', replica', listed')
      BY <3>3, <3>5, <3>6, <2>3, <1>2, <1>7, <1>r DEF ReplayInv
    <3>8. ShapeInv(seek', reader', replica', listed')
      BY <3>5, <2>3, <2>4, <1>2, <1>5 DEF ShapeInv, ReaderStates
    <3>9. Reads(seek', reader', replica', listed')
      BY <3>5, <3>7, <3>8 DEF Reads, SeekInv, RoundInv
    <3> QED BY <3>9, <1>2, ReadsStay
  <2>8. CASE ~(\A o \in D : Record(o) = replica.tick + Cardinality({q \in D : q <= o}))
    <3>1. Refuse
      BY <2>6, <2>8
    <3>2. ~Intact(seek)
      <4> SUFFICES ASSUME Intact(seek) PROVE FALSE
        OBVIOUS
      <4>1. ASSUME NEW o \in B, NEW q \in 0..(LogEnd - 1), q <= o, Record(q) > replica.tick, Record(q) <= replica.head
            PROVE  q \in B
        <5>1. q \in r.buf \/ r.next <= q
          BY <4>1, <1>7 DEF Ahead
        <5>2. o < r.next /\ o \in 0..(LogEnd - 1)
          BY <2>2, <1>c
        <5>3. q \in r.buf
          BY <5>1, <5>2, <4>1, <1>4, <1>6
        <5> QED BY <5>3, <4>1, <2>2
      <4>2. lateWrites = 0
        BY DEF Intact
      <4>3. \A o \in Due(B) : Record(o) = replica.tick + Cardinality({q \in Due(B) : q <= o})
        BY <4>1, <4>2, <2>2, <1>4, <1>6, DueFollowOn
      <4> QED BY <4>3, <2>5, <2>8
    <3> QED BY <3>1, <3>2, <2>3, <2>4, <1>2, RefusedKeeps
  <2> QED BY <2>7, <2>8
<1> QED BY <1>3, <1>8, <1>9, <1>10 DEF Called

(* The head is the last boundary of the log. *)
LEMMA ReadHeadKeeps == ASSUME ReaderInv, ReadHead PROVE ReaderInv'
<1>1. /\ replica.phase = "head" /\ replica' = [replica EXCEPT !.phase = "replay", !.head = HeadTick]
      /\ listed' = LastTick(trimmed, LogEnd) /\ UNCHANGED <<partition, trimmed, lateWrites, seek, reader>>
  BY DEF ReadHead
<1>2. PartitionInv /\ ShapeInv(seek, reader, replica, listed) /\ ReplayInv(seek, reader, replica, listed)
  BY DEF ReaderInv, Reads
<1>3. PICK h : h = HeadTick
  OBVIOUS
<1>4. h = listed' /\ h \in Nat /\ (h = 0 \/ \E o \in 0..(LogEnd - 1) : Record(o) = h)
  <2>1. h = LastTick(trimmed, LogEnd) /\ trimmed \in Nat
    BY <1>2, <1>3, HeadTickIs DEF PartitionInv
  <2>2. h = 0 \/ \E o \in 0..(LogEnd - 1) : Record(o) = h
    BY <2>1, <1>2, LastTickIs
  <2> QED BY <2>1, <2>2, <1>1, <1>2, RecordIs
<1>5. replica \in [phase : Phases, round : Nat, tick : Nat, head : Nat]
  BY <1>2 DEF ShapeInv
<1>6. /\ replica'.phase = "replay" /\ replica'.round = replica.round /\ replica'.tick = replica.tick
      /\ replica'.head = h /\ replica' \in [phase : Phases, round : Nat, tick : Nat, head : Nat]
  BY <1>1, <1>3, <1>4, <1>5 DEF Phases
<1>7. replica.tick = replica.round /\ reader.expect = 0 /\ replica.round <= replica.tick
  BY <1>1, <1>2, <1>5 DEF ReplayInv
<1>8. ReplayInv(seek', reader', replica', listed')
  BY <1>1, <1>2, <1>4, <1>6, <1>7 DEF ReplayInv
<1>9. Reads(seek', reader', replica', listed')
  BY <1>1, <1>2, <1>6, <1>8 DEF Reads, ShapeInv, SeekInv, RoundInv
<1> QED BY <1>1, <1>9, ReadsStay

(* The head is reached. *)
LEMMA ReplayedKeeps == ASSUME ReaderInv, Replayed PROVE ReaderInv'
<1>1. /\ replica.phase = "replay" /\ replica.tick >= replica.head
      /\ replica' = [replica EXCEPT !.phase = "done"]
      /\ UNCHANGED <<partition, trimmed, lateWrites, seek, reader, listed>>
  BY DEF Replayed
<1>2. ShapeInv(seek, reader, replica, listed) /\ ReplayInv(seek, reader, replica, listed)
  BY DEF ReaderInv, Reads
<1>3. replica \in [phase : Phases, round : Nat, tick : Nat, head : Nat]
  BY <1>2 DEF ShapeInv
<1>4. /\ replica'.phase = "done" /\ replica'.round = replica.round /\ replica'.tick = replica.tick
      /\ replica'.head = replica.head /\ replica' \in [phase : Phases, round : Nat, tick : Nat, head : Nat]
      /\ replica.head <= replica.tick
  BY <1>1, <1>3 DEF Phases
<1>5. Reads(seek', reader', replica', listed')
  BY <1>1, <1>2, <1>4 DEF Reads, ShapeInv, SeekInv, RoundInv, ReplayInv
<1> QED BY <1>1, <1>5, ReadsStay

(* An empty log and an idle caller. *)
LEMMA ReaderBegins == ASSUME ReaderInit PROVE ReaderInv
<1>1. LogEnd = 0 /\ partition \in Seq(Nat) /\ 0..(LogEnd - 1) = {} /\ LogEnd \in Nat
  BY DEF ReaderInit, LogEnd
<1>2. PartitionInv
  BY <1>1 DEF ReaderInit, PartitionInv, InTickOrder
<1>3. ShapeInv(seek, reader, replica, listed) /\ replica.phase = "idle"
  BY <1>1 DEF ReaderInit, ShapeInv, Phases
<1> QED BY <1>2, <1>3 DEF ReaderInv, Reads, SeekInv, RoundInv, ReplayInv

(* Every step of the reader. *)
LEMMA ReaderKeeps == ASSUME ReaderInv, ReaderNext PROVE ReaderInv'
BY LogStepKeeps, TrimKeeps, SeekBeginKeeps, SeekProbeKeeps, SeekEndKeeps, NextRoundKeeps,
   ReadHeadKeeps, NextReplayKeeps, ReplayedKeeps DEF ReaderNext

(* ReaderInv holds throughout: the search closes in on the round's boundary,  *)
(* and what the replica still needs is in the reader's buffer or ahead of it  *)
(* (SeekAfter, roundBoundary, HeadTick, Next).                                *)
THEOREM ReaderInvariant == Spec => []ReaderInv
<1>1. Init => ReaderInv
  BY ReaderBegins DEF Init
<1>2. ReaderInv /\ ReaderNext => ReaderInv'
  BY ReaderKeeps
<1>3. ReaderInv /\ UNCHANGED readerVars => ReaderInv'
  <2> SUFFICES ASSUME ReaderInv, UNCHANGED readerVars PROVE ReaderInv'
    OBVIOUS
  <2> QED BY ReadsStay DEF readerVars, ReaderInv
<1>4. [Next]_vars => ReaderNext \/ UNCHANGED readerVars
  BY DEF Next, vars, partVars
<1> QED BY <1>1, <1>2, <1>3, <1>4, PTL DEF Spec

(* What the invariant says of a refusal, of the end and of what is between. *)
LEMMA ReaderIsSafe == ASSUME ReaderInv PROVE NoFalseGap /\ EndsAtHead /\ NothingSkipped
<1>1. PartitionInv /\ Reads(seek, reader, replica, listed)
  BY DEF ReaderInv
<1>2. NoFalseGap
  BY <1>1 DEF NoFalseGap, Reads, Intact, PartitionInv, ShapeInv
<1>3. /\ replica.round \in Nat /\ replica.tick \in Nat /\ replica.head \in Nat /\ LogEnd \in Nat
      /\ reader.next \in Nat /\ \A o \in 0..(LogEnd - 1) : Record(o) \in Nat
  BY <1>1, RecordIs DEF Reads, ShapeInv
<1>4. EndsAtHead
  BY <1>1, <1>3 DEF EndsAtHead, Reads, ReplayInv
<1>5. NothingSkipped
  <2> SUFFICES ASSUME replica.phase = "replay", lateWrites = 0, trimmed <= seek.so,
                      NEW t \in (replica.tick + 1)..replica.head
               PROVE  \/ \E o \in reader.buf : Record(o) = t
                      \/ \E o \in reader.next..(LogEnd - 1) : Record(o) = t
    BY DEF NothingSkipped
  <2>1. PICK h \in 0..(LogEnd - 1) : Record(h) = replica.head
    BY <1>1, <1>3 DEF Reads, ReplayInv
  <2>2. t \in 1..Record(h)
    BY <2>1, <1>3
  <2>3. PICK o \in 0..h : Record(o) = t
    BY <2>2, <1>1 DEF PartitionInv, InTickOrder
  <2>4. o \in 0..(LogEnd - 1) /\ Record(o) > replica.tick /\ Record(o) <= replica.head
    BY <2>3, <1>3
  <2>5. o \in reader.buf \/ reader.next <= o
    BY <2>4, <1>1 DEF Reads, ReplayInv, Intact, Ahead
  <2>6. reader.next <= o => o \in reader.next..(LogEnd - 1)
    BY <2>4, <1>3
  <2> QED BY <2>3, <2>5, <2>6
<1> QED BY <1>2, <1>4, <1>5

--------------------------------------------------------------------------------
(* The readers together. *)

(* ReadersSafe: on a log in tick order that holds what it needs, a replica    *)
(* is refused nothing, skips no boundary and ends at the head it listed       *)
(* (BoundaryReader); the tick loop and a replica take every Command once and  *)
(* in order (KafkaSource, CommandSource); and a scan of a compacted topic     *)
(* ends with each key's newest record (recordlog), for every interleaving     *)
(* with the writers, the broker's retention and the faults.                   *)
THEOREM ReadersAreSafe == Spec => []ReadersSafe
<1>1. ReaderInv /\ FeedInv /\ ScanInv => ReadersSafe
  BY ReaderIsSafe, FeedIsSafe, ScanIsSafe DEF ReadersSafe
<1> QED BY <1>1, ReaderInvariant, FeedInvariant, ScanInvariant, PTL

--------------------------------------------------------------------------------
(* The snapshots: the types, and who holds the Sweeper's lock. *)

SnapObjects == SnapZones \X SnapRounds
SnapTags == SnapObjects \X {"deploy", "rollback"}

SweepRecords ==
  [pc : {"idle", "list", "tags", "decide", "delete"},
   todo : SUBSET (SnapZones \cup SnapObjects), found : SUBSET SnapObjects, tags : SUBSET SnapTags,
   next : Nat, keptTagged : Nat, keptUntagged : Nat]

SnapshotShape ==
  /\ objects \in SUBSET SnapObjects /\ tags \in SUBSET SnapTags
  /\ begun \in 0..MaxRounds /\ writing \in {0, begun}
  /\ sweep \in SweepRecords
  /\ incomplete \in SUBSET SnapRounds /\ caught \in SUBSET SnapRounds
  /\ sweepLock \in {"free", "sweep", "admin"}
  /\ admin \in [round : 0..MaxRounds, left : SUBSET SnapObjects]
  /\ stop \in [pc : {"idle", "forced", "taken", "tagging", "failed", "complete"},
               round : Nat, left : SUBSET SnapObjects]
  /\ promised \in SUBSET SnapRounds /\ everTagged \in SUBSET SnapRounds
  /\ sweepLock = "sweep" <=> sweep.pc = "delete"
  /\ sweepLock = "admin" <=> admin.round # 0
  /\ admin.left # {} => admin.round # 0
  /\ stop.pc \in {"taken", "tagging"} => stop.round # 0

(* What is under way: a round that was tagged, or is being, has been written.  *)
UnderWayInv ==
  /\ writing # 0 => ~CompleteIn(objects, writing)
  /\ \A o \in objects : o[2] <= begun
  /\ \A u \in everTagged : u <= begun /\ u # writing
  /\ admin.round # 0 =>
       admin.round <= begun /\ admin.round # writing /\ admin.left \subseteq RoundObjects(admin.round)
  /\ stop.pc = "tagging" =>
       stop.round <= begun /\ stop.round # writing /\ stop.left \subseteq RoundObjects(stop.round)

(* Rounds are begun one after the other, so one that is not being written and  *)
(* not complete never will be; what is remembered as incomplete is such a      *)
(* round, or was caught while a listing went through the Zones.                *)
NeverComplete(t) == t <= begun /\ t # writing /\ ~CompleteIn(objects, t)

Passed(t) == NeverComplete(t) \/ t \in caught

RoundsInv ==
  /\ \A g \in tags : g[1][2] \in everTagged
  /\ \A t \in incomplete : Passed(t)

(* While a sweep lists, what it has found is there.                            *)
ListInv ==
  sweep.pc = "list" =>
    sweep.todo \subseteq SnapZones /\ sweep.todo # {} /\ sweep.found \subseteq objects

FirstDecision == sweep.keptTagged = 0 /\ sweep.keptUntagged = 0

ListedInv ==
  /\ sweep.pc # "idle" => \A p \in sweep.found : p[2] <= begun
  /\ sweep.pc \in {"idle", "list", "tags"} => FirstDecision
  /\ sweep.pc \in {"tags", "decide"} => sweep.found \subseteq objects

(* The rounds tagged that are newer than what is still to be decided. *)
NewerTagged(F) == {u \in everTagged : \A p \in F : p[2] < u}

(* The first round to be decided, which a count keeps. *)
Young(t) ==
  /\ FirstDecision /\ \A q \in sweep.found : q[2] <= t
  /\ KeepTagged = 0 => ~ListedTagged(t)

(* What a sweep decides from.  The first round it decides may be under way or  *)
(* newly complete; a later one that is newer than the newest complete round of *)
(* the listing never completes, or was caught.                                 *)
DecideInv ==
  sweep.pc \in {"decide", "delete"} =>
    /\ FirstDecision \/ \A p \in sweep.found : p[2] < begun
    /\ sweep.next # 0 => CompleteIn(objects, sweep.next)
    /\ \A p \in sweep.found : p[2] > sweep.next => Passed(p[2]) \/ Young(p[2])
    /\ \A g \in sweep.tags : g[1][2] \in everTagged
    /\ Cardinality(NewerTagged(sweep.found)) >= sweep.keptTagged

(* A round may go: it is not what a recovery starts from, unless it was caught, *)
(* and not pinned, and a tag it was promised has been outlived.                *)
MayGo(d) ==
  /\ d # sweep.next /\ (d < sweep.next \/ Passed(d))
  /\ KeepTagged # 0 => d < begun
  /\ PinnedRound # 0 => d # PinnedRound
  /\ d \in promised => Cardinality({u \in everTagged : u > d}) >= KeepTagged

DeleteInv ==
  sweep.pc = "delete" =>
    /\ sweep.todo # {} /\ sweep.todo \subseteq sweep.found
    /\ \E d \in SnapRounds :
         /\ \A o \in sweep.todo : o[2] = d
         /\ \A o \in sweep.found : o[2] <= d /\ (o[2] = d \/ o \in objects)
         /\ MayGo(d)

(* A round is whole: every object of it is there, and tagged or about to be. *)
TagWhole(t, left) ==
  /\ CompleteIn(objects, t)
  /\ \A o \in RoundObjects(t) : o \in left \/ TagsOf(tags, o) # {}

TaggingInv ==
  /\ admin.round # 0 => TagWhole(admin.round, admin.left)
  /\ stop.round <= begun
  /\ KeepTagged # 0 /\ stop.pc = "tagging" /\ stop.round = begun => TagWhole(begun, stop.left)

RetentionInv ==
  /\ SnapshotShape /\ UnderWayInv /\ RoundsInv /\ ListInv /\ ListedInv /\ DecideInv /\ DeleteInv
  /\ TaggingInv /\ TagKeepsRound

--------------------------------------------------------------------------------
(* The choices. *)

LEMMA FirstOfIn ==
  ASSUME NEW S \in SUBSET SnapObjects, S # {}
  PROVE  FirstOf(S) \in S
<1> DEFINE Z == {o[1] : o \in S}
<1>1. Z \in SUBSET Nat /\ Z # {}
  BY DEF SnapObjects, SnapZones
<1>2. PICK z \in Z : \A y \in Z : z <= y
  BY <1>1, LeastNatural
<1>3. PICK o \in S : o[1] = z
  BY <1>2
<1>4. \A p \in S : o[1] <= p[1]
  BY <1>2, <1>3
<1>5. \E x \in S : \A p \in S : x[1] <= p[1]
  BY <1>4
<1> QED BY <1>5, Zenon DEF FirstOf

LEMMA LeastZoneIn ==
  ASSUME NEW S \in SUBSET SnapZones, S # {}
  PROVE  LeastZone(S) \in S
<1>1. S \in SUBSET Nat
  BY DEF SnapZones
<1>2. \E z \in S : \A y \in S : z <= y
  BY <1>1, LeastNatural
<1> QED BY <1>2, Zenon DEF LeastZone

(* A set of rounds that is not empty has a newest. *)
LEMMA NewestRound ==
  ASSUME NEW C \in SUBSET SnapRounds, C # {}
  PROVE  LET n == CHOOSE t \in C : \A u \in C : u <= t
         IN n \in C /\ \A u \in C : u <= n
<1>1. C \in SUBSET (0..MaxRounds) /\ MaxRounds \in Nat
  BY RetentionAssumption DEF SnapRounds
<1>2. \E t \in C : \A u \in C : u <= t
  BY <1>1, GreatestNatural
<1> QED BY <1>2, Zenon

(* The newest complete round of a set of objects. *)
LEMMA NewestInIs ==
  ASSUME NEW S
  PROVE  /\ NewestIn(S) \in Nat
         /\ NewestIn(S) # 0 => NewestIn(S) \in SnapRounds /\ CompleteIn(S, NewestIn(S))
         /\ \A t \in SnapRounds : CompleteIn(S, t) => t <= NewestIn(S)
<1> DEFINE C == {t \in SnapRounds : CompleteIn(S, t)}
<1>1. C = {} => NewestIn(S) = 0
  BY Zenon DEF NewestIn
<1>2. C # {} => NewestIn(S) \in C /\ \A u \in C : u <= NewestIn(S)
  <2> DEFINE n == CHOOSE t \in C : \A u \in C : u <= t
  <2>1. C # {} => NewestIn(S) = n
    BY Zenon DEF NewestIn
  <2>2. C # {} => n \in C /\ \A u \in C : u <= n
    BY NewestRound, Zenon
  <2> QED BY <2>1, <2>2, Zenon
<1>3. C \in SUBSET SnapRounds
  OBVIOUS
<1> HIDE DEF C
<1>4. SnapRounds \subseteq Nat
  BY DEF SnapRounds
<1>5. \A t \in SnapRounds : CompleteIn(S, t) => t \in C
  BY DEF C
<1>6. \A t \in C : CompleteIn(S, t)
  BY DEF C
<1>7. CASE C = {}
  <2>1. NewestIn(S) = 0
    BY <1>1, <1>7
  <2>2. \A t \in SnapRounds : ~CompleteIn(S, t)
    BY <1>5, <1>7, Zenon
  <2> QED BY <2>1, <2>2
<1>8. CASE C # {}
  BY <1>2, <1>3, <1>4, <1>5, <1>6, <1>8, Zenon
<1> QED BY <1>7, <1>8

(* newestComplete: of the listing, without what is remembered as incomplete. *)
LEMMA NewestListedIs ==
  ASSUME NEW S \in SUBSET SnapObjects
  PROVE  /\ NewestListed(S) \in Nat
         /\ NewestListed(S) # 0 => CompleteIn(S, NewestListed(S))
         /\ \A p \in S : CompleteIn(S, p[2]) => p[2] <= NewestListed(S) \/ p[2] \in incomplete
<1> DEFINE C == {t \in Listed(S) \ incomplete : CompleteIn(S, t)}
<1>1. C = {} => NewestListed(S) = 0
  BY Zenon DEF NewestListed
<1>2. C \in SUBSET SnapRounds
  BY DEF Listed, SnapObjects
<1>3. C # {} => NewestListed(S) \in C /\ \A u \in C : u <= NewestListed(S)
  <2> DEFINE n == CHOOSE t \in C : \A u \in C : u <= t
  <2>1. C # {} => NewestListed(S) = n
    BY Zenon DEF NewestListed
  <2>2. C # {} => n \in C /\ \A u \in C : u <= n
    BY <1>2, NewestRound, Zenon
  <2> QED BY <2>1, <2>2, Zenon
<1>4. SnapRounds \subseteq Nat
  BY DEF SnapRounds
<1>5. \A p \in S : CompleteIn(S, p[2]) => p[2] \in C \/ p[2] \in incomplete
  BY DEF Listed
<1>6. \A t \in C : CompleteIn(S, t)
  OBVIOUS
<1> HIDE DEF C
<1>7. CASE C = {}
  <2>1. NewestListed(S) = 0 /\ NewestListed(S) \in Nat
    BY <1>1, <1>7
  <2>2. \A p \in S : CompleteIn(S, p[2]) => p[2] \in incomplete
    BY <1>5, <1>7, Zenon
  <2> QED BY <2>1, <2>2, Zenon
<1>8. CASE C # {}
  BY <1>2, <1>3, <1>4, <1>5, <1>6, <1>8, Zenon
<1> QED BY <1>7, <1>8

(* The round a sweep decides is the newest of those left. *)
LEMMA DecidingIs ==
  ASSUME SnapshotShape, sweep.found # {}
  PROVE  /\ Deciding \in SnapRounds
         /\ \E o \in sweep.found : o[2] = Deciding
         /\ \A p \in sweep.found : p[2] <= Deciding
<1> DEFINE C == Listed(sweep.found)
<1>1. sweep.found \in SUBSET SnapObjects
  BY DEF SnapshotShape, SweepRecords
<1>2. C \in SUBSET SnapRounds /\ C # {}
  BY <1>1 DEF Listed, SnapObjects
<1>3. Deciding \in C /\ \A u \in C : u <= Deciding
  BY <1>2, NewestRound, Zenon DEF Deciding
<1>4. \A p \in sweep.found : p[2] \in C
  BY DEF Listed
<1>5. \E o \in sweep.found : o[2] = Deciding
  BY <1>3 DEF Listed
<1> HIDE DEF C
<1> QED BY <1>2, <1>3, <1>4, <1>5

(* Sets of tagged rounds are finite, and count as sets do. *)
LEMMA TaggedCount ==
  ASSUME NEW E \in SUBSET SnapRounds, NEW T \in SUBSET E
  PROVE  /\ IsFiniteSet(T) /\ Cardinality(T) \in Nat
         /\ \A U \in SUBSET T : Cardinality(U) <= Cardinality(T) /\ Cardinality(U) \in Nat
<1>1. IsFiniteSet(SnapRounds)
  BY RetentionAssumption, FS_Interval DEF SnapRounds
<1>2. IsFiniteSet(T)
  <2>1. T \in SUBSET SnapRounds
    OBVIOUS
  <2> QED BY <1>1, <2>1, FS_Subset
<1>3. ASSUME NEW U \in SUBSET T PROVE Cardinality(U) <= Cardinality(T) /\ Cardinality(U) \in Nat
  BY <1>2, FS_Subset, FS_CardinalityType
<1> QED BY <1>2, <1>3, FS_CardinalityType

--------------------------------------------------------------------------------
(* The types and the lock. *)

LEMMA SnapshotShapeInit == RetentionInit => SnapshotShape
BY RetentionAssumption DEF RetentionInit, SnapshotShape, SweepRecords, SweepIdle, NoTagging, StopIdle

LEMMA SnapshotShapeStep ==
  ASSUME SnapshotShape, [RetentionNext]_retentionVars
  PROVE  SnapshotShape'
<1> USE RetentionAssumption
<1>z. /\ MaxRounds \in Nat /\ SnapRounds \subseteq Nat
  BY DEF SnapRounds
<1>o. \A t \in SnapRounds : RoundObjects(t) \in SUBSET SnapObjects
  BY DEF RoundObjects, SnapObjects
<1>i. SweepIdle \in SweepRecords /\ SweepIdle.pc = "idle"
  BY DEF SweepIdle, SweepRecords
<1>n. /\ NoTagging \in [round : 0..MaxRounds, left : SUBSET SnapObjects]
      /\ NoTagging.round = 0 /\ NoTagging.left = {}
  BY <1>z DEF NoTagging
<1>1. CASE TakeRound
  <2>1. begun' \in 0..MaxRounds /\ writing' \in {0, begun'} /\ begun + 1 \in Nat /\ begun + 1 # 0
    BY <1>1 DEF TakeRound, SnapshotShape
  <2>2. /\ stop' \in [pc : {"idle", "forced", "taken", "tagging", "failed", "complete"},
                      round : Nat, left : SUBSET SnapObjects]
        /\ stop'.pc \in {"taken", "tagging"} => stop'.round # 0
    BY <1>1, <2>1 DEF TakeRound, SnapshotShape
  <2> QED BY <1>1, <2>1, <2>2 DEF TakeRound, SnapshotShape
<1>2. ASSUME NEW z \in SnapZones, PutObject(z) PROVE SnapshotShape'
  <2>1. writing \in SnapRounds
    BY <1>2 DEF PutObject, SnapshotShape, SnapRounds
  <2>2. objects' \in SUBSET SnapObjects
    BY <1>2, <2>1 DEF PutObject, SnapshotShape, SnapObjects
  <2>3. /\ stop' \in [pc : {"idle", "forced", "taken", "tagging", "failed", "complete"},
                      round : Nat, left : SUBSET SnapObjects]
        /\ stop'.pc \in {"taken", "tagging"} => stop'.round # 0
    BY <1>2, <1>o, <2>1 DEF PutObject, SnapshotShape
  <2>4. writing' \in {0, begun'}
    BY <1>2 DEF PutObject, SnapshotShape
  <2> QED BY <1>2, <2>2, <2>3, <2>4 DEF PutObject, SnapshotShape
<1>3. CASE RoundFails
  BY <1>3 DEF RoundFails, SnapshotShape, StopIdle
<1>4. CASE SweepBegins
  <2>1. sweep' \in SweepRecords /\ sweep'.pc = "list"
    BY <1>4, <1>i DEF SweepBegins, SweepStep, SweepRecords
  <2> QED BY <1>4, <2>1 DEF SweepBegins, SweepStep, SnapshotShape
<1>5. CASE SweepLists
  <2>1. sweep' \in SweepRecords /\ sweep'.pc # "delete"
    <3> DEFINE z == LeastZone(sweep.todo)
    <3>1. sweep' = [sweep EXCEPT !.found = @ \cup {o \in objects : o[1] = z},
                     !.todo = sweep.todo \ {z},
                     !.pc = IF sweep.todo \ {z} = {} THEN "tags" ELSE "list"]
      BY <1>5 DEF SweepLists, SweepStep
    <3> HIDE DEF z
    <3> QED BY <3>1 DEF SnapshotShape, SweepRecords
  <2> QED BY <1>5, <2>1 DEF SweepLists, SweepStep, SnapshotShape
<1>6. CASE SweepTags
  <2>1. NewestListed(sweep.found) \in Nat
    BY NewestListedIs DEF SnapshotShape, SweepRecords
  <2>2. sweep' \in SweepRecords /\ sweep'.pc # "delete"
    BY <1>6, <2>1 DEF SweepTags, SweepStep, SnapshotShape, SweepRecords
  <2>3. Listed(sweep.found) \in SUBSET SnapRounds
    BY DEF Listed, SnapshotShape, SweepRecords, SnapObjects
  <2>4. incomplete' \in SUBSET SnapRounds /\ caught' \in SUBSET SnapRounds
    BY <1>6, <2>3 DEF SweepTags, FoundIncomplete, Straddled, SnapshotShape
  <2> QED BY <1>6, <2>2, <2>4 DEF SweepTags, SweepStep, SnapshotShape
<1>7. ASSUME NEW t, NEW b \in BOOLEAN PROVE Kept(t, b) \in SweepRecords /\ Kept(t, b).pc = "decide"
  <2>1. /\ Decided(sweep, t) \in SweepRecords /\ Decided(sweep, t).pc = "decide"
    BY DEF Decided, SnapshotShape, SweepRecords
  <2> HIDE DEF Decided
  <2>2. CASE b
    BY <2>1, <2>2 DEF Kept, SweepRecords
  <2>3. CASE ~b
    BY <2>1, <2>3 DEF Kept, SweepRecords
  <2> QED BY <2>2, <2>3
<1>8. CASE SweepKeeps
  <2>1. sweep' \in SweepRecords /\ sweep'.pc = "decide"
    BY <1>8, <1>7 DEF SweepKeeps, SweepStep, ListedTagged
  <2> QED BY <1>8, <2>1 DEF SweepKeeps, SweepStep, SnapshotShape
<1>9. CASE SweepSpares
  <2>1. sweep' \in SweepRecords /\ sweep'.pc = "decide"
    BY <1>9, <1>7 DEF SweepSpares, SweepStep
  <2> QED BY <1>9, <2>1 DEF SweepSpares, SweepStep, SnapshotShape
<1>10. CASE SweepLocks
  <2>1. sweep' \in SweepRecords /\ sweep'.pc = "delete"
    BY <1>10 DEF SweepLocks, SweepStep, SnapshotShape, SweepRecords
  <2> QED BY <1>10, <2>1 DEF SweepLocks, SweepStep, SnapshotShape
<1>11. CASE SweepDeletesTag
  <2>1. tags' \in SUBSET SnapTags
    BY <1>11 DEF SweepDeletesTag, SnapshotShape
  <2> QED BY <1>11, <2>1 DEF SweepDeletesTag, SweepStep, SnapshotShape
<1>12. CASE SweepDeletes
  <2> DEFINE o == FirstOf(sweep.todo)
             rest == sweep.todo \ {o}
  <2>1. /\ objects' = objects \ {o} /\ sweepLock' = IF rest = {} THEN "free" ELSE "sweep"
        /\ sweep' = IF rest = {} THEN Decided(sweep, o[2]) ELSE [sweep EXCEPT !.todo = rest]
        /\ sweep.pc = "delete"
    BY <1>12 DEF SweepDeletes, SweepStep
  <2> HIDE DEF o
  <2>2. sweep' \in SweepRecords /\ sweep'.pc = IF rest = {} THEN "decide" ELSE "delete"
    BY <2>1 DEF Decided, SnapshotShape, SweepRecords
  <2> HIDE DEF rest
  <2>3. objects' \in SUBSET SnapObjects
    BY <2>1 DEF SnapshotShape
  <2>4. sweepLock' = "sweep" <=> sweep'.pc = "delete"
    BY <2>1, <2>2
  <2>5. sweepLock = "sweep" /\ sweepLock' \in {"free", "sweep"}
    BY <2>1 DEF SnapshotShape
  <2> QED BY <1>12, <2>2, <2>3, <2>4, <2>5 DEF SweepDeletes, SweepStep, SnapshotShape
<1>13. CASE SweepEnds
  BY <1>13, <1>i DEF SweepEnds, SweepStep, SnapshotShape
<1>14. CASE SweepFails
  BY <1>14, <1>i DEF SweepFails, SweepStep, SnapshotShape
<1>15. ASSUME NEW t \in SnapRounds, AdminTags(t) PROVE SnapshotShape'
  <2>1. /\ admin' \in [round : 0..MaxRounds, left : SUBSET SnapObjects]
        /\ admin'.round # 0
    <3>1. {o \in RoundObjects(t) : "rollback" \notin TagsOf(tags, o)} \in SUBSET SnapObjects
      BY <1>o
    <3>2. t \in 0..MaxRounds /\ t # 0
      BY DEF SnapRounds
    <3> QED BY <1>15, <3>1, <3>2 DEF AdminTags
  <2> QED BY <1>15, <2>1 DEF AdminTags, SnapshotShape
<1>16. ASSUME NEW o \in SnapObjects, NEW n \in {"deploy", "rollback"}, TagRoundPut(o, n)
       PROVE  tags' \in SUBSET SnapTags /\ everTagged' \in SUBSET SnapRounds
  BY <1>16 DEF TagRoundPut, SnapTags, SnapObjects, SnapshotShape
<1>17. CASE AdminPuts
  <2> DEFINE o == FirstOf(admin.left)
  <2>1. o \in SnapObjects
    BY <1>17, FirstOfIn DEF AdminPuts, SnapshotShape
  <2>2. TagRoundPut(o, "rollback") /\ admin' = [admin EXCEPT !.left = @ \ {o}]
    BY <1>17 DEF AdminPuts
  <2> HIDE DEF o
  <2>3. tags' \in SUBSET SnapTags /\ everTagged' \in SUBSET SnapRounds
    BY <1>16, <2>1, <2>2
  <2>4. /\ admin' \in [round : 0..MaxRounds, left : SUBSET SnapObjects]
        /\ admin'.round = admin.round /\ admin.round # 0
    BY <1>17, <2>2 DEF AdminPuts, SnapshotShape
  <2> QED BY <1>17, <2>3, <2>4 DEF AdminPuts, SnapshotShape
<1>18. CASE AdminAnswers
  <2>1. admin.round \in SnapRounds
    BY <1>18 DEF AdminAnswers, SnapshotShape, SnapRounds
  <2>2. promised' \in SUBSET SnapRounds
    BY <1>18, <2>1 DEF AdminAnswers, SnapshotShape
  <2> QED BY <1>18, <1>n, <2>2 DEF AdminAnswers, SnapshotShape
<1>19. CASE AdminFails
  BY <1>19, <1>n DEF AdminFails, SnapshotShape
<1>20. CASE PrepareStop
  BY <1>20 DEF PrepareStop, SnapshotShape
<1>21. CASE StopTimesOut
  BY <1>21 DEF StopTimesOut, SnapshotShape, StopIdle
<1>22. CASE StopTags
  <2> DEFINE o == FirstOf(stop.left)
  <2>1. o \in SnapObjects
    BY <1>22, FirstOfIn DEF StopTags, SnapshotShape
  <2>2. TagRoundPut(o, "deploy") /\ stop' = [stop EXCEPT !.left = @ \ {o}]
    BY <1>22 DEF StopTags
  <2> HIDE DEF o
  <2>3. tags' \in SUBSET SnapTags /\ everTagged' \in SUBSET SnapRounds
    BY <1>16, <2>1, <2>2
  <2> QED BY <1>22, <2>2, <2>3 DEF StopTags, SnapshotShape
<1>23. CASE StopAnswers
  <2>1. begun = stop.round => stop.round \in SnapRounds
    BY <1>23 DEF StopAnswers, SnapshotShape, SnapRounds
  <2>2. promised' \in SUBSET SnapRounds
    BY <1>23, <2>1 DEF StopAnswers, SnapshotShape
  <2> QED BY <1>23, <2>2 DEF StopAnswers, SnapshotShape, StopIdle
<1>24. CASE ServerRestarts
  BY <1>24, <1>i, <1>n DEF ServerRestarts, SnapshotShape, StopIdle
<1>25. CASE UNCHANGED retentionVars
  BY <1>25 DEF retentionVars, SnapshotShape
<1> QED
  BY <1>1, <1>2, <1>3, <1>4, <1>5, <1>6, <1>8, <1>9, <1>10, <1>11, <1>12, <1>13, <1>14, <1>15,
     <1>17, <1>18, <1>19, <1>20, <1>21, <1>22, <1>23, <1>24, <1>25 DEF RetentionNext

--------------------------------------------------------------------------------
(* What is about the sweep, and one promised round. *)

SweepInv == RoundsInv /\ ListInv /\ ListedInv /\ DecideInv /\ DeleteInv

TagKept(t) ==
  \/ CompleteIn(objects, t) /\ \A o \in RoundObjects(t) : TagsOf(tags, o) # {}
  \/ Cardinality({u \in everTagged : u > t}) >= KeepTagged

LEMMA TagKeepsRoundIs == TagKeepsRound <=> \A t \in promised : TagKept(t)
BY DEF TagKeepsRound, TagKept

(* Once enough newer rounds were tagged, that stays so. *)
LEMMA OutlivedStays ==
  ASSUME NEW E \in SUBSET SnapRounds, NEW F \in SUBSET SnapRounds, E \subseteq F, NEW t \in SnapRounds,
         Cardinality({u \in E : u > t}) >= KeepTagged
  PROVE  Cardinality({u \in F : u > t}) >= KeepTagged
<1> DEFINE A == {u \in E : u > t}
           B == {u \in F : u > t}
<1>1. A \in SUBSET B /\ B \in SUBSET F
  OBVIOUS
<1>2. Cardinality(A) <= Cardinality(B) /\ Cardinality(A) \in Nat /\ Cardinality(B) \in Nat
  BY <1>1, TaggedCount, Zenon
<1>3. Cardinality(A) >= KeepTagged /\ KeepTagged \in Nat
  BY RetentionAssumption
<1> HIDE DEF A, B
<1>4. Cardinality(B) >= KeepTagged
  BY <1>2, <1>3
<1> QED BY <1>4 DEF B

(* With no tagged round kept a tag promises nothing. *)
LEMMA NothingPromised ==
  ASSUME SnapshotShape, KeepTagged = 0, NEW t
  PROVE  Cardinality({u \in everTagged : u > t}) >= KeepTagged
<1> DEFINE B == {u \in everTagged : u > t}
<1>1. B \in SUBSET everTagged /\ everTagged \in SUBSET SnapRounds
  BY DEF SnapshotShape
<1>2. Cardinality(B) \in Nat
  BY <1>1, TaggedCount, Zenon
<1> HIDE DEF B
<1>3. Cardinality(B) >= KeepTagged
  BY <1>2
<1> QED BY <1>3 DEF B

(* A step that writes the newest round or tags, and leaves the sweep alone. *)
Grows ==
  /\ UNCHANGED <<sweep, incomplete, caught>>
  /\ begun' \in {begun, begun + 1} /\ writing' \in {0, writing, begun + 1}
  /\ objects \subseteq objects' /\ \A o \in objects' : o \in objects \/ o[2] = writing
  /\ tags \subseteq tags' /\ everTagged \subseteq everTagged'
  /\ \A g \in tags' : g[1][2] \in everTagged'
  /\ \A t \in promised' : t \in promised \/ t = begun \/ sweep.pc # "delete"

LEMMA GrowsKeeps ==
  ASSUME SnapshotShape, SnapshotShape', SweepInv, Grows
  PROVE  /\ SweepInv'
         /\ \A t \in promised : TagKept(t) => TagKept(t)'
         /\ \A t, S : TagWhole(t, S) => TagWhole(t, S)'
<1>t. /\ begun \in Nat /\ begun' \in Nat /\ begun <= begun' /\ SnapRounds \subseteq Nat
      /\ sweep.found \in SUBSET SnapObjects /\ sweep.next \in Nat
      /\ objects \in SUBSET SnapObjects /\ objects' \in SUBSET SnapObjects
      /\ incomplete \in SUBSET SnapRounds
      /\ everTagged \in SUBSET SnapRounds /\ everTagged' \in SUBSET SnapRounds
      /\ promised \in SUBSET SnapRounds
  BY DEF Grows, SnapshotShape, SweepRecords, SnapRounds
<1>p. \A o \in SnapObjects : o[2] \in SnapRounds /\ o[2] \in Nat
  BY <1>t DEF SnapObjects
<1>r. \A t, o : o \in RoundObjects(t) => o[2] = t
  BY DEF RoundObjects
<1>c. \A t : CompleteIn(objects, t) => CompleteIn(objects', t)
  BY DEF Grows, CompleteIn
<1>n. ASSUME NEW t \in SnapRounds, NeverComplete(t) PROVE NeverComplete(t)'
  <2>1. t <= begun' /\ t # writing /\ t # writing'
    BY <1>n, <1>t, RetentionAssumption DEF NeverComplete, Grows, SnapRounds
  <2>2. ~CompleteIn(objects', t)
    BY <1>n, <1>r, <2>1 DEF NeverComplete, CompleteIn, Grows
  <2> QED BY <2>1, <2>2 DEF NeverComplete
<1>s. sweep' = sweep /\ incomplete' = incomplete /\ caught' = caught
  BY DEF Grows
<1>a. ASSUME NEW t \in SnapRounds, Passed(t) PROVE Passed(t)'
  BY <1>n, <1>a, <1>s DEF Passed
<1>1. RoundsInv'
  <2>1. \A t \in incomplete' : Passed(t)'
    BY <1>a, <1>s, <1>t DEF SweepInv, RoundsInv
  <2> QED BY <2>1 DEF RoundsInv, Grows
<1>2. ListInv'
  BY <1>s DEF SweepInv, ListInv, Grows
<1>3. ListedInv'
  <2>1. sweep.pc # "idle" => \A p \in sweep.found : p[2] <= begun /\ p[2] <= begun'
    BY <1>t, <1>p DEF SweepInv, ListedInv
  <2> QED BY <1>s, <2>1 DEF SweepInv, ListedInv, Grows, FirstDecision
<1>4. DecideInv'
  <2>1. SUFFICES ASSUME sweep.pc \in {"decide", "delete"} PROVE DecideInv'
    BY <1>s DEF DecideInv
  <2>2. FirstDecision' <=> FirstDecision
    BY <1>s DEF FirstDecision
  <2>3. FirstDecision \/ \A p \in sweep.found : p[2] < begun'
    BY <2>1, <1>t, <1>p DEF SweepInv, DecideInv
  <2>4. sweep.next # 0 => CompleteIn(objects', sweep.next)
    BY <2>1, <1>c DEF SweepInv, DecideInv
  <2>5. ASSUME NEW p \in sweep.found, p[2] > sweep.next
        PROVE  Passed(p[2])' \/ Young(p[2])'
    <3>1. p[2] \in SnapRounds
      BY <1>t, <1>p
    <3>2. Passed(p[2]) \/ Young(p[2])
      BY <2>1, <2>5 DEF SweepInv, DecideInv
    <3>3. Young(p[2]) => Young(p[2])'
      BY <1>s DEF Young, FirstDecision, ListedTagged
    <3> QED BY <3>1, <3>2, <3>3, <1>a
  <2>6. \A g \in sweep.tags : g[1][2] \in everTagged'
    BY <2>1 DEF SweepInv, DecideInv, Grows
  <2>7. Cardinality(NewerTagged(sweep.found)') >= sweep.keptTagged
    <3>1. NewerTagged(sweep.found) \subseteq NewerTagged(sweep.found)' /\ NewerTagged(sweep.found)' \subseteq everTagged'
      BY <1>s DEF Grows, NewerTagged
    <3>2. /\ Cardinality(NewerTagged(sweep.found)) <= Cardinality(NewerTagged(sweep.found)')
          /\ Cardinality(NewerTagged(sweep.found)) \in Nat /\ Cardinality(NewerTagged(sweep.found)') \in Nat
      BY <3>1, <1>t, TaggedCount
    <3>3. Cardinality(NewerTagged(sweep.found)) >= sweep.keptTagged /\ sweep.keptTagged \in Nat
      BY <2>1 DEF SweepInv, DecideInv, SnapshotShape, SweepRecords
    <3> QED BY <3>2, <3>3
  <2>8. \A p \in sweep'.found : p[2] > sweep'.next => Passed(p[2])' \/ Young(p[2])'
    BY <1>s, <2>5
  <2> QED BY <1>s, <2>2, <2>3, <2>4, <2>6, <2>7, <2>8 DEF DecideInv
<1>5. DeleteInv'
  <2>1. SUFFICES ASSUME sweep.pc = "delete" PROVE DeleteInv'
    BY <1>s DEF DeleteInv
  <2>2. PICK d \in SnapRounds : /\ \A o \in sweep.todo : o[2] = d
                                /\ \A o \in sweep.found : o[2] <= d /\ (o[2] = d \/ o \in objects)
                                /\ MayGo(d)
    BY <2>1 DEF SweepInv, DeleteInv
  <2>3. KeepTagged # 0 => d < begun /\ d < begun' /\ d # begun
    BY <2>2, <1>t DEF MayGo
  <2>4. d < sweep.next \/ Passed(d)'
    BY <2>2, <1>a DEF MayGo
  <2>5. d \in promised' => Cardinality({u \in everTagged' : u > d}) >= KeepTagged
    <3>1. KeepTagged # 0 => (d \in promised' => d \in promised)
      BY <2>1, <2>3 DEF Grows
    <3>2. everTagged \subseteq everTagged'
      BY DEF Grows
    <3>3. KeepTagged # 0 => (d \in promised' => Cardinality({u \in everTagged' : u > d}) >= KeepTagged)
      BY <3>1, <3>2, <2>2, <1>t, OutlivedStays DEF MayGo
    <3>4. KeepTagged = 0 => Cardinality({u \in everTagged' : u > d}) >= KeepTagged
      <4>1. ASSUME KeepTagged = 0 PROVE Cardinality({u \in everTagged : u > d}) >= KeepTagged
        BY <4>1, NothingPromised
      <4> QED BY <4>1, <3>2, <1>t, OutlivedStays
    <3> QED BY <3>3, <3>4
  <2>6. MayGo(d)'
    BY <2>2, <2>3, <2>4, <2>5, <1>s DEF MayGo
  <2> QED BY <2>1, <2>2, <2>6, <1>s DEF SweepInv, DeleteInv, Grows
<1>6. \A o : TagsOf(tags, o) # {} => TagsOf(tags', o) # {}
  BY DEF Grows, TagsOf
<1>7. ASSUME NEW t \in promised, TagKept(t) PROVE TagKept(t)'
  <2>1. CASE CompleteIn(objects, t) /\ \A o \in RoundObjects(t) : TagsOf(tags, o) # {}
    BY <1>c, <1>6, <2>1 DEF TagKept
  <2>2. CASE Cardinality({u \in everTagged : u > t}) >= KeepTagged
    <3>1. everTagged \subseteq everTagged' /\ t \in SnapRounds
      BY <1>t DEF Grows
    <3>2. Cardinality({u \in everTagged' : u > t}) >= KeepTagged
      BY <1>t, <3>1, <2>2, OutlivedStays
    <3> QED BY <3>2 DEF TagKept
  <2> QED BY <1>7, <2>1, <2>2 DEF TagKept
<1>8. \A t, S : TagWhole(t, S) => TagWhole(t, S)'
  BY <1>c, <1>6 DEF TagWhole
<1> QED BY <1>1, <1>2, <1>3, <1>4, <1>5, <1>7, <1>8 DEF SweepInv

--------------------------------------------------------------------------------
(* The steps of a sweep. *)

(* A sweep that ends, fails or dies leaves what is remembered, or less. *)
LEMMA SweepToIdle ==
  ASSUME SweepInv, sweep' = SweepIdle, UNCHANGED <<objects, tags, begun, promised, everTagged>>,
         writing' \in {0, writing}, SnapshotShape,
         incomplete' = {} \/ (incomplete' \subseteq incomplete /\ UNCHANGED caught)
  PROVE  SweepInv'
<1>1. sweep'.pc = "idle" /\ FirstDecision'
  BY DEF SweepIdle, FirstDecision
<1>2. \A t \in SnapRounds : caught' = caught /\ Passed(t) => Passed(t)'
  BY RetentionAssumption DEF Passed, NeverComplete, SnapRounds
<1>3. incomplete \in SUBSET SnapRounds
  BY DEF SnapshotShape
<1>4. RoundsInv'
  BY <1>2, <1>3 DEF SweepInv, RoundsInv
<1> QED BY <1>1, <1>4 DEF SweepInv, ListInv, ListedInv, DecideInv, DeleteInv

LEMMA SweepBeginsKeeps ==
  ASSUME SnapshotShape, SweepInv, SweepBegins
  PROVE  SweepInv'
<1>1. /\ sweep'.pc = "list" /\ sweep'.todo = SnapZones /\ sweep'.found = {} /\ FirstDecision'
      /\ UNCHANGED <<objects, tags, begun, writing, everTagged, incomplete, caught>>
  BY DEF SweepBegins, SweepStep, SweepIdle, FirstDecision
<1>2. SnapZones # {}
  <2>1. 1 \in SnapZones
    BY RetentionAssumption DEF SnapZones
  <2> QED BY <2>1
<1>4. RoundsInv'
  BY <1>1 DEF SweepInv, RoundsInv, Passed, NeverComplete
<1>5. ListInv'
  BY <1>1, <1>2 DEF ListInv
<1> QED BY <1>1, <1>4, <1>5 DEF SweepInv, ListedInv, DecideInv, DeleteInv

LEMMA SweepListsKeeps ==
  ASSUME SnapshotShape, UnderWayInv, SweepInv, SweepLists
  PROVE  SweepInv'
<1> DEFINE z == LeastZone(sweep.todo)
           rest == sweep.todo \ {z}
<1>1. /\ sweep.pc = "list" /\ UNCHANGED <<objects, tags, begun, writing, everTagged, incomplete, caught>>
      /\ sweep' = [sweep EXCEPT !.found = @ \cup {o \in objects : o[1] = z},
                     !.todo = rest, !.pc = IF rest = {} THEN "tags" ELSE "list"]
  BY DEF SweepLists, SweepStep
<1>2. sweep.todo \subseteq SnapZones /\ sweep.todo # {}
  BY <1>1 DEF SweepInv, ListInv
<1>3. z \in sweep.todo
  BY <1>2, LeastZoneIn
<1> HIDE DEF z
<1>4. /\ sweep'.found = sweep.found \cup {o \in objects : o[1] = z} /\ sweep'.todo = rest
      /\ sweep'.pc = IF rest = {} THEN "tags" ELSE "list"
      /\ sweep'.keptTagged = sweep.keptTagged /\ sweep'.keptUntagged = sweep.keptUntagged
  BY <1>1 DEF SnapshotShape, SweepRecords
<1>5. FirstDecision'
  BY <1>1, <1>4 DEF SweepInv, ListedInv, FirstDecision
<1>6. sweep'.found \subseteq objects
  BY <1>1, <1>4 DEF SweepInv, ListInv
<1>8. RoundsInv'
  BY <1>1 DEF SweepInv, RoundsInv, Passed, NeverComplete
<1>9. ListInv'
  BY <1>1, <1>2, <1>4, <1>6 DEF ListInv
<1>12. ListedInv'
  BY <1>1, <1>4, <1>5, <1>6 DEF ListedInv, UnderWayInv
<1> QED BY <1>4, <1>8, <1>9, <1>12 DEF SweepInv, DecideInv, DeleteInv

(* The tags and the newest complete round of the listing: the rest of the     *)
(* sweep is decided from what holds now.                                      *)
LEMMA SweepTagsKeeps ==
  ASSUME SnapshotShape, UnderWayInv, SweepInv, SweepTags
  PROVE  SweepInv'
<1> DEFINE F == sweep.found
           n == NewestListed(sweep.found)
<1>1. /\ sweep.pc = "tags" /\ UNCHANGED <<objects, tags, begun, writing, everTagged>>
      /\ incomplete' = incomplete \cup FoundIncomplete(F)
      /\ caught' = caught \cup Straddled(F)
      /\ sweep' = [sweep EXCEPT !.tags = tags, !.pc = "decide", !.next = n]
  BY DEF SweepTags, SweepStep
<1>2. /\ sweep'.pc = "decide" /\ sweep'.found = F /\ sweep'.next = n /\ sweep'.tags = tags
      /\ sweep'.keptTagged = sweep.keptTagged /\ sweep'.keptUntagged = sweep.keptUntagged
  BY <1>1 DEF SnapshotShape, SweepRecords
<1>3. /\ F \in SUBSET SnapObjects /\ F \subseteq objects /\ begun \in Nat
      /\ \A p \in F : p[2] \in SnapRounds /\ p[2] \in Nat /\ p[2] <= begun
  BY <1>1 DEF SnapshotShape, SweepRecords, SweepInv, ListedInv, SnapObjects, SnapRounds
<1>4. /\ n \in Nat /\ (n # 0 => CompleteIn(F, n))
      /\ \A p \in F : CompleteIn(F, p[2]) => p[2] <= n \/ p[2] \in incomplete
  BY <1>3, NewestListedIs
<1>5. FirstDecision /\ FirstDecision'
  BY <1>1, <1>2 DEF SweepInv, ListedInv, FirstDecision
<1> HIDE DEF n, F
<1>w. writing \in {0, begun} /\ \A t : NeverComplete(t)' <=> NeverComplete(t)
  BY <1>1 DEF SnapshotShape, NeverComplete
(* A round found torn, when it is not what is being written. *)
<1>f. ASSUME NEW p \in F, ~CompleteIn(F, p[2]), p[2] # writing,
             KeepTagged = 0 \/ \E q \in F : q[2] > p[2]
      PROVE  Passed(p[2])'
  <2>1. CASE CompleteIn(objects, p[2])
    <3>1. p[2] \in Listed(F)
      BY DEF Listed
    <3>2. KeepTagged = 0 \/ \E u \in Listed(F) : u > p[2]
      BY <1>f DEF Listed
    <3>3. p[2] \in Straddled(F)
      BY <1>f, <2>1, <3>1, <3>2 DEF Straddled
    <3> QED BY <1>1, <3>3 DEF Passed
  <2>2. CASE ~CompleteIn(objects, p[2])
    BY <1>3, <1>f, <1>w, <2>2 DEF Passed, NeverComplete
  <2> QED BY <2>1, <2>2
<1>i. \A t \in incomplete : Passed(t)'
  BY <1>1, <1>w DEF SweepInv, RoundsInv, Passed
<1>6. ASSUME NEW p \in F, NEW q \in F, p[2] > n, q[2] > p[2]
      PROVE  Passed(p[2])'
  <2>1. p[2] # writing
    BY <1>3, <1>6, <1>w, RetentionAssumption DEF SnapRounds
  <2>2. CASE p[2] \in incomplete
    BY <1>i, <2>2
  <2>3. CASE ~CompleteIn(F, p[2])
    BY <1>6, <1>f, <2>1, <2>3
  <2> QED BY <1>3, <1>4, <1>6, <2>2, <2>3
<1>7. ASSUME NEW t \in FoundIncomplete(F) PROVE Passed(t)'
  <2>1. PICK p \in F, q \in F : t = p[2] /\ t > n /\ q[2] > t
    BY <1>7 DEF FoundIncomplete, Listed, n, F
  <2> QED BY <1>6, <2>1
<1>8. RoundsInv'
  BY <1>1, <1>7, <1>i DEF SweepInv, RoundsInv
<1>9. ListedInv'
  BY <1>1, <1>2, <1>3 DEF SweepInv, ListedInv, F
<1>10. ASSUME NEW p \in F, p[2] > n
       PROVE  Passed(p[2])' \/ Young(p[2])'
  <2>1. CASE \E q \in F : q[2] > p[2]
    BY <1>6, <1>10, <2>1
  <2>2. CASE \A q \in F : q[2] <= p[2]
    <3>1. CASE KeepTagged = 0 => ~ListedTagged(p[2])'
      BY <1>2, <1>5, <2>2, <3>1 DEF Young
    <3>2. CASE KeepTagged = 0 /\ ListedTagged(p[2])'
      <4>1. p[2] \in everTagged
        BY <1>2, <3>2 DEF ListedTagged, SweepInv, RoundsInv
      <4>2. p[2] # writing
        BY <4>1 DEF UnderWayInv
      <4>3. CASE p[2] \in incomplete
        BY <1>i, <4>3
      <4>4. CASE ~CompleteIn(F, p[2])
        BY <1>f, <3>2, <4>2, <4>4
      <4> QED BY <1>3, <1>4, <1>10, <4>3, <4>4
    <3> QED BY <3>1, <3>2
  <2> QED BY <1>3, <2>1, <2>2
<1>11. n # 0 => CompleteIn(objects, n)
  BY <1>3, <1>4 DEF CompleteIn
<1>12. Cardinality(NewerTagged(F)) >= 0
  <2>1. NewerTagged(F) \subseteq everTagged /\ everTagged \in SUBSET SnapRounds
    BY DEF NewerTagged, SnapshotShape
  <2>2. Cardinality(NewerTagged(F)) \in Nat
    BY <2>1, TaggedCount
  <2> QED BY <2>2
<1>13. Cardinality(NewerTagged(sweep.found)') >= sweep'.keptTagged
  <2>1. NewerTagged(sweep.found)' = NewerTagged(F) /\ sweep'.keptTagged = 0
    BY <1>1, <1>2, <1>5 DEF NewerTagged, FirstDecision
  <2> QED BY <2>1, <1>12
<1>14. \A p \in sweep'.found : p[2] > sweep'.next => Passed(p[2])' \/ Young(p[2])'
  BY <1>2, <1>10
<1>15. \A g \in sweep'.tags : g[1][2] \in everTagged'
  BY <1>1, <1>2 DEF SweepInv, RoundsInv
<1>16. DecideInv'
  BY <1>1, <1>2, <1>5, <1>11, <1>13, <1>14, <1>15 DEF DecideInv
<1> QED BY <1>2, <1>8, <1>9, <1>16 DEF SweepInv, ListInv, DeleteInv

(* What is left when the newest round d of the listing has been decided. *)
LEMMA DecidedLeft ==
  ASSUME SnapshotShape, SweepInv, sweep.pc = "decide", sweep.found # {}
  PROVE  LET d == Deciding
             F == {o \in sweep.found : o[2] # d}
         IN /\ \A p \in F : p[2] < d /\ p[2] < begun /\ (p[2] > sweep.next => Passed(p[2]))
            /\ NewerTagged(sweep.found) \subseteq NewerTagged(F)
            /\ Cardinality(NewerTagged(F)) >= sweep.keptTagged
            /\ d \in everTagged => Cardinality(NewerTagged(F)) >= sweep.keptTagged + 1
<1> DEFINE d == Deciding
           F == {o \in sweep.found : o[2] # d}
           A == NewerTagged(sweep.found)
           B == NewerTagged(F)
<1>1. d \in SnapRounds /\ d \in Nat /\ (\E o \in sweep.found : o[2] = d) /\ \A p \in sweep.found : p[2] <= d
  BY DecidingIs DEF SnapRounds
<1>2. /\ \A p \in sweep.found : p[2] \in Nat /\ p[2] <= begun
      /\ begun \in Nat
  BY DEF SnapshotShape, SweepRecords, SnapObjects, SnapRounds, SweepInv, ListedInv
<1> HIDE DEF d
<1>3. \A p \in F : p[2] < d /\ p[2] < begun
  BY <1>1, <1>2
<1>4. ASSUME NEW p \in F, p[2] > sweep.next PROVE Passed(p[2])
  <2>1. Passed(p[2]) \/ \A q \in sweep.found : q[2] <= p[2]
    BY <1>4 DEF SweepInv, DecideInv, Young
  <2>2. ~\A q \in sweep.found : q[2] <= p[2]
    BY <1>1, <1>2, <1>3
  <2> QED BY <2>1, <2>2
<1>5. A \subseteq B /\ B \subseteq everTagged /\ d \notin A /\ (d \in everTagged => d \in B)
  BY <1>1, <1>3 DEF NewerTagged
<1>6. /\ Cardinality(A) \in Nat /\ Cardinality(B) \in Nat /\ Cardinality(A) <= Cardinality(B)
      /\ IsFiniteSet(A)
      /\ d \in everTagged => Cardinality(A \cup {d}) <= Cardinality(B)
  <2>1. everTagged \in SUBSET SnapRounds
    BY DEF SnapshotShape
  <2>2. A \in SUBSET B /\ B \in SUBSET everTagged /\ A \in SUBSET everTagged
    BY <1>5
  <2>3. d \in everTagged => A \cup {d} \in SUBSET B
    BY <1>5
  <2> HIDE DEF A, B
  <2> QED BY <2>1, <2>2, <2>3, TaggedCount
<1>7. Cardinality(A \cup {d}) = Cardinality(A) + 1
  BY <1>5, <1>6, FS_AddElement
<1>8. Cardinality(A) >= sweep.keptTagged /\ sweep.keptTagged \in Nat
  BY DEF SweepInv, DecideInv, SnapshotShape, SweepRecords
<1> HIDE DEF A, B
<1>9. Cardinality(B) >= sweep.keptTagged /\ (d \in everTagged => Cardinality(B) >= sweep.keptTagged + 1)
  BY <1>6, <1>7, <1>8
<1> QED BY <1>3, <1>4, <1>5, <1>9 DEF A, B, d

LEMMA KeptKeeps ==
  ASSUME SnapshotShape, SweepInv, sweep.pc = "decide", sweep.found # {},
         NEW b \in BOOLEAN, b => Deciding \in everTagged, sweep' = Kept(Deciding, b),
         UNCHANGED <<objects, tags, begun, writing, everTagged, incomplete, caught>>
  PROVE  SweepInv'
<1> DEFINE d == Deciding
           F == {o \in sweep.found : o[2] # d}
<1>1. /\ sweep'.pc = "decide" /\ sweep'.found = F /\ sweep'.next = sweep.next /\ sweep'.tags = sweep.tags
      /\ sweep'.keptTagged = (IF b THEN sweep.keptTagged + 1 ELSE sweep.keptTagged)
  <2>1. /\ Decided(sweep, d) \in SweepRecords /\ Decided(sweep, d).pc = "decide"
        /\ Decided(sweep, d).found = F /\ Decided(sweep, d).next = sweep.next
        /\ Decided(sweep, d).tags = sweep.tags /\ Decided(sweep, d).keptTagged = sweep.keptTagged
    BY DEF Decided, SnapshotShape, SweepRecords
  <2> HIDE DEF d, F
  <2>2. CASE b
    BY <2>1, <2>2 DEF Kept, SweepRecords, d
  <2>3. CASE ~b
    BY <2>1, <2>3 DEF Kept, SweepRecords, d
  <2> QED BY <2>2, <2>3
<1>2. /\ \A p \in F : p[2] < begun /\ (p[2] > sweep.next => Passed(p[2]))
      /\ Cardinality(NewerTagged(F)) >= sweep.keptTagged
      /\ d \in everTagged => Cardinality(NewerTagged(F)) >= sweep.keptTagged + 1
  BY DecidedLeft
<1>3. F \subseteq sweep.found
  OBVIOUS
<1> HIDE DEF F
<1>p. \A t : Passed(t) => Passed(t)'
  BY DEF Passed, NeverComplete
<1>4. RoundsInv'
  BY <1>p DEF SweepInv, RoundsInv
<1>5. ListedInv'
  BY <1>1, <1>3 DEF SweepInv, ListedInv
<1>6. Cardinality(NewerTagged(sweep.found)') >= sweep'.keptTagged
  <2>1. NewerTagged(sweep.found)' = NewerTagged(F)
    BY <1>1 DEF NewerTagged
  <2> QED BY <1>1, <1>2, <2>1
<1>7. DecideInv'
  BY <1>1, <1>2, <1>6, <1>p DEF SweepInv, DecideInv
<1> QED BY <1>1, <1>4, <1>5, <1>7 DEF SweepInv, ListInv, DeleteInv

(* A round that was listed with a tag, or has gained one since, was tagged. *)
LEMMA KeptTagged ==
  ASSUME SnapshotShape, SweepInv, sweep.pc = "decide"
  PROVE  \A t : ListedTagged(t) \/ GainedTag(t) => t \in everTagged
<1>1. ASSUME NEW t, ListedTagged(t) PROVE t \in everTagged
  BY <1>1 DEF ListedTagged, SweepInv, DecideInv
<1>2. ASSUME NEW t, GainedTag(t) PROVE t \in everTagged
  <2>1. PICK o \in sweep.found : o[2] = t /\ Cardinality(TagsOf(tags, o)) # Cardinality(TagsOf(sweep.tags, o))
    BY <1>2 DEF GainedTag
  <2>2. TagsOf(tags, o) # TagsOf(sweep.tags, o)
    BY <2>1
  <2>3. \E n : <<o, n>> \in tags \/ <<o, n>> \in sweep.tags
    BY <2>2 DEF TagsOf
  <2>4. (\A g \in tags : g[1][2] \in everTagged) /\ \A g \in sweep.tags : g[1][2] \in everTagged
    BY DEF SweepInv, RoundsInv, DecideInv
  <2> QED BY <2>1, <2>3, <2>4
<1> QED BY <1>1, <1>2

(* A round the sweep means to delete may go: the first it decides is kept, if  *)
(* tagged rounds are, so counts are not zero; and a whole tagged round is either listed with its    *)
(* tag, and outlived, or has gained one.                                      *)
LEMMA SweepLocksKeeps ==
  ASSUME SnapshotShape, SweepInv, TagKeepsRound, SweepLocks
  PROVE  SweepInv'
<1>d. PICK d : d = Deciding
  OBVIOUS
<1> DEFINE T == {o \in sweep.found : o[2] = d}
<1>1. /\ sweep.pc = "decide" /\ sweep.found # {} /\ ~Keeps(d) /\ ~GainedTag(d)
      /\ sweep' = [sweep EXCEPT !.pc = "delete", !.todo = T]
      /\ UNCHANGED <<objects, tags, begun, writing, everTagged, incomplete, caught, promised>>
  BY <1>d DEF SweepLocks, SweepStep
<1>2. /\ sweep'.pc = "delete" /\ sweep'.todo = T /\ sweep'.found = sweep.found /\ sweep'.next = sweep.next
      /\ sweep'.tags = sweep.tags /\ sweep'.keptTagged = sweep.keptTagged
      /\ sweep'.keptUntagged = sweep.keptUntagged
  BY <1>1 DEF SnapshotShape, SweepRecords
<1>3. d \in SnapRounds /\ d \in Nat /\ (\E o \in sweep.found : o[2] = d) /\ \A p \in sweep.found : p[2] <= d
  BY <1>d, <1>1, DecidingIs DEF SnapRounds
<1>4. /\ sweep.keptTagged \in Nat /\ sweep.keptUntagged \in Nat /\ sweep.next \in Nat
      /\ KeepTagged \in Nat /\ KeepRounds \in Nat /\ KeepRounds # 0
      /\ KeepRounds >= 1
      /\ objects \in SUBSET SnapObjects /\ promised \in SUBSET SnapRounds
  BY RetentionAssumption DEF SnapshotShape, SweepRecords
<1>5. /\ d # sweep.next /\ (PinnedRound # 0 => d # PinnedRound)
      /\ ListedTagged(d) => sweep.keptTagged >= KeepTagged
      /\ ~ListedTagged(d) => sweep.keptUntagged >= KeepRounds
  BY <1>1, <1>4 DEF Keeps
<1>6. FirstDecision => KeepTagged = 0 /\ ListedTagged(d)
  BY <1>4, <1>5 DEF FirstDecision
<1>7. KeepTagged # 0 => d < begun
  BY <1>1, <1>3, <1>6 DEF SweepInv, DecideInv
<1>8. d < sweep.next \/ Passed(d)
  <2>1. ASSUME d > sweep.next PROVE Passed(d)
    <3>1. Passed(d) \/ Young(d)
      BY <1>1, <1>3, <2>1 DEF SweepInv, DecideInv
    <3>2. ~Young(d)
      BY <1>6 DEF Young
    <3> QED BY <3>1, <3>2
  <2> QED BY <1>3, <1>4, <1>5, <2>1
<1>9. ASSUME d \in promised PROVE Cardinality({u \in everTagged : u > d}) >= KeepTagged
  <2>1. CASE ListedTagged(d)
    <3> DEFINE A == NewerTagged(sweep.found)
               B == {u \in everTagged : u > d}
    <3>1. A \in SUBSET B /\ B \in SUBSET everTagged /\ everTagged \in SUBSET SnapRounds
      BY <1>3 DEF NewerTagged, SnapshotShape
    <3>2. Cardinality(A) >= sweep.keptTagged
      BY <1>1 DEF SweepInv, DecideInv
    <3>3. Cardinality(A) \in Nat /\ Cardinality(B) \in Nat /\ Cardinality(A) <= Cardinality(B)
      BY <3>1, TaggedCount, Zenon
    <3> HIDE DEF A, B
    <3>4. Cardinality(B) >= KeepTagged
      BY <1>4, <1>5, <2>1, <3>2, <3>3
    <3> QED BY <3>4 DEF B
  <2>2. CASE ~ListedTagged(d)
    <3>1. PICK o \in sweep.found : o[2] = d
      BY <1>3
    <3>2. TagsOf(sweep.tags, o) = {}
      BY <2>2, <3>1 DEF ListedTagged, TagsOf
    <3>3. o \in RoundObjects(d)
      BY <3>1 DEF SnapshotShape, SweepRecords, SnapObjects, RoundObjects
    <3>4. ASSUME TagsOf(tags, o) # {} PROVE FALSE
      <4>1. IsFiniteSet(TagsOf(tags, o))
        <5>1. IsFiniteSet({"deploy", "rollback"})
          <6>1. IsFiniteSet({"deploy"} \cup {"rollback"})
            BY FS_Singleton, FS_AddElement
          <6> QED BY <6>1
        <5>2. TagsOf(tags, o) \in SUBSET {"deploy", "rollback"}
          BY DEF TagsOf
        <5> QED BY <5>1, <5>2, FS_Subset
      <4>2. Cardinality(TagsOf(tags, o)) # 0 /\ Cardinality(TagsOf(sweep.tags, o)) = 0
        BY <3>2, <3>4, <4>1, FS_EmptySet
      <4> QED BY <1>1, <3>1, <4>2 DEF GainedTag
    <3> QED BY <1>9, <3>3, <3>4 DEF TagKeepsRound
  <2> QED BY <2>1, <2>2
<1>p. \A t : Passed(t) => Passed(t)'
  BY <1>1 DEF Passed, NeverComplete
<1>10. MayGo(d) /\ MayGo(d)'
  BY <1>1, <1>2, <1>5, <1>7, <1>8, <1>9, <1>p DEF MayGo
<1>11. DeleteInv'
  <2>1. T # {} /\ T \subseteq sweep.found /\ \A o \in T : o[2] = d
    BY <1>3
  <2>2. sweep.found \subseteq objects
    BY <1>1 DEF SweepInv, ListedInv
  <2> HIDE DEF T
  <2> QED BY <1>1, <1>2, <1>3, <1>10, <2>1, <2>2 DEF DeleteInv
<1>12. RoundsInv'
  BY <1>1, <1>p DEF SweepInv, RoundsInv
<1>13. ListedInv'
  BY <1>1, <1>2 DEF SweepInv, ListedInv
<1>14. Cardinality(NewerTagged(sweep.found)') >= sweep'.keptTagged
  BY <1>1, <1>2 DEF SweepInv, DecideInv, NewerTagged
<1>y. \A t : Young(t) => Young(t)'
  BY <1>2 DEF Young, FirstDecision, ListedTagged
<1>15. DecideInv'
  BY <1>1, <1>2, <1>14, <1>p, <1>y DEF SweepInv, DecideInv, FirstDecision
<1> QED BY <1>2, <1>11, <1>12, <1>13, <1>15 DEF SweepInv, ListInv

(* Deleting, of a round that may go, a tag or an object. *)
LEMMA SweepDeletesTagKeeps ==
  ASSUME SnapshotShape, SweepInv, TaggingInv, TagKeepsRound, SweepDeletesTag
  PROVE  SweepInv' /\ TaggingInv' /\ TagKeepsRound'
<1>1. /\ sweep.pc = "delete" /\ sweep' = sweep
      /\ UNCHANGED <<objects, begun, writing, everTagged, incomplete, caught, promised, admin, stop>>
      /\ tags' \subseteq tags
  BY DEF SweepDeletesTag, SweepStep
<1>2. PICK d \in SnapRounds : (\A o \in sweep.todo : o[2] = d) /\ MayGo(d)
  BY <1>1 DEF SweepInv, DeleteInv
<1>3. \A g \in tags : g[1][2] # d => g \in tags'
  BY <1>2 DEF SweepDeletesTag, ListedTagsLeft
<1>4. \A o, n : <<o, n>> \in tags /\ o[2] # d => <<o, n>> \in tags'
  BY <1>3
<1>5. \A t : t # d => \A o \in RoundObjects(t) : TagsOf(tags, o) # {} => TagsOf(tags', o) # {}
  BY <1>4 DEF RoundObjects, TagsOf
<1>6. SweepInv'
  <2>p. \A t : (Passed(t) => Passed(t)') /\ (Young(t) => Young(t)')
    BY <1>1 DEF Passed, NeverComplete, Young, FirstDecision, ListedTagged
  <2>1. RoundsInv' /\ ListInv' /\ ListedInv'
    BY <1>1, <2>p DEF SweepInv, RoundsInv, ListInv, ListedInv, FirstDecision
  <2>2. Cardinality(NewerTagged(sweep.found)') >= sweep'.keptTagged
    BY <1>1 DEF SweepInv, DecideInv, NewerTagged
  <2>3. DecideInv'
    BY <1>1, <2>2, <2>p DEF SweepInv, DecideInv, FirstDecision
  <2>4. \A x : MayGo(x) => MayGo(x)'
    BY <1>1, <2>p DEF MayGo
  <2>5. DeleteInv'
    BY <1>1, <2>4 DEF SweepInv, DeleteInv
  <2> QED BY <2>1, <2>3, <2>5 DEF SweepInv
<1>7. TaggingInv'
  <2>1. admin.round = 0
    BY <1>1 DEF SnapshotShape
  <2>2. KeepTagged # 0 => d # begun
    BY <1>2 DEF MayGo, SnapshotShape, SnapRounds
  <2>3. KeepTagged # 0 /\ TagWhole(begun, stop.left) => TagWhole(begun, stop.left)'
    BY <1>1, <1>5, <2>2 DEF TagWhole
  <2> QED BY <1>1, <2>1, <2>3 DEF TaggingInv
<1>8. ASSUME NEW t \in promised PROVE TagKept(t)'
  <2>1. TagKept(t)
    BY TagKeepsRoundIs
  <2>2. CASE t = d
    BY <1>1, <1>2, <2>2 DEF MayGo, TagKept
  <2>3. CASE t # d
    BY <1>1, <1>5, <2>1, <2>3 DEF TagKept
  <2> QED BY <2>2, <2>3
<1>9. TagKeepsRound'
  BY <1>1, <1>8 DEF TagKeepsRound, TagKept
<1> QED BY <1>6, <1>7, <1>9

LEMMA SweepDeletesKeeps ==
  ASSUME SnapshotShape, SnapshotShape', SweepInv, TaggingInv, TagKeepsRound, SweepDeletes
  PROVE  SweepInv' /\ TaggingInv' /\ TagKeepsRound'
<1>o. PICK o : o = FirstOf(sweep.todo)
  OBVIOUS
<1> DEFINE rest == sweep.todo \ {o}
<1>1. /\ sweep.pc = "delete" /\ objects' = objects \ {o}
      /\ sweep' = IF rest = {} THEN Decided(sweep, o[2]) ELSE [sweep EXCEPT !.todo = rest]
      /\ UNCHANGED <<tags, begun, writing, everTagged, incomplete, caught, promised, admin, stop>>
  BY <1>o DEF SweepDeletes, SweepStep
<1>2. PICK d \in SnapRounds : /\ \A p \in sweep.todo : p[2] = d
                              /\ \A p \in sweep.found : p[2] <= d /\ (p[2] = d \/ p \in objects)
                              /\ MayGo(d)
  BY <1>1 DEF SweepInv, DeleteInv
<1>3. /\ sweep.todo # {} /\ sweep.todo \subseteq sweep.found /\ sweep.found \in SUBSET SnapObjects
      /\ begun \in Nat /\ sweep.next \in Nat
      /\ d \in Nat /\ SnapRounds \subseteq Nat
      /\ \A p \in sweep.found : p[2] \in SnapRounds
  BY <1>1 DEF SweepInv, DeleteInv, SnapshotShape, SweepRecords, SnapRounds, SnapObjects
<1>4. o \in sweep.todo /\ o[2] = d
  BY <1>o, <1>2, <1>3, FirstOfIn
<1>5. /\ sweep'.pc = (IF rest = {} THEN "decide" ELSE "delete") /\ sweep'.next = sweep.next
      /\ sweep'.tags = sweep.tags /\ sweep'.keptTagged = sweep.keptTagged
      /\ sweep'.keptUntagged = sweep.keptUntagged
      /\ sweep'.found = (IF rest = {} THEN {p \in sweep.found : p[2] # d} ELSE sweep.found)
      /\ rest # {} => sweep'.todo = rest
  BY <1>1, <1>4 DEF Decided, SnapshotShape, SweepRecords
<1>6. objects' \subseteq objects /\ \A p : p \in objects /\ p[2] # d => p \in objects'
  BY <1>1, <1>4
<1>7. \A t : (CompleteIn(objects', t) => CompleteIn(objects, t))
             /\ (t # d /\ CompleteIn(objects, t) => CompleteIn(objects', t))
  BY <1>6 DEF CompleteIn, RoundObjects
<1>8. d # sweep.next /\ (KeepTagged # 0 => d # begun)
  BY <1>2, <1>3 DEF MayGo
<1>9. \A t : Passed(t) => Passed(t)'
  BY <1>1, <1>7 DEF Passed, NeverComplete
<1>10. sweep'.found \subseteq sweep.found
  BY <1>5
<1>11. RoundsInv'
  BY <1>1, <1>6, <1>9 DEF SweepInv, RoundsInv
<1>12. ListedInv'
  <2>1. \A p \in sweep'.found : p[2] <= begun
    BY <1>1, <1>10 DEF SweepInv, ListedInv
  <2>2. rest = {} => sweep'.found \subseteq objects'
    BY <1>2, <1>5, <1>6
  <2> QED BY <1>1, <1>5, <2>1, <2>2 DEF ListedInv
<1>13. DecideInv'
  <2>1. FirstDecision' <=> FirstDecision
    BY <1>5 DEF FirstDecision
  <2>2. sweep.next # 0 => CompleteIn(objects', sweep.next)
    BY <1>1, <1>7, <1>8 DEF SweepInv, DecideInv
  <2>y. \A t : Young(t) => Young(t)'
    BY <1>5, <1>10, <2>1 DEF Young, ListedTagged
  <2>3. \A p \in sweep'.found : p[2] > sweep.next => Passed(p[2])' \/ Young(p[2])'
    BY <1>1, <1>9, <1>10, <2>y DEF SweepInv, DecideInv
  <2>4. Cardinality(NewerTagged(sweep.found)') >= sweep.keptTagged
    <3> DEFINE A == NewerTagged(sweep.found)
               B == {u \in everTagged : \A p \in sweep'.found : p[2] < u}
    <3>1. A \in SUBSET B /\ B \in SUBSET everTagged /\ everTagged \in SUBSET SnapRounds
      BY <1>10 DEF NewerTagged, SnapshotShape
    <3>2. Cardinality(A) \in Nat /\ Cardinality(B) \in Nat /\ Cardinality(A) <= Cardinality(B)
      BY <3>1, TaggedCount, Zenon
    <3>3. Cardinality(A) >= sweep.keptTagged /\ sweep.keptTagged \in Nat
      BY <1>1 DEF SweepInv, DecideInv, SnapshotShape, SweepRecords
    <3>4. NewerTagged(sweep.found)' = B
      BY <1>1 DEF NewerTagged
    <3> HIDE DEF A, B
    <3> QED BY <3>2, <3>3, <3>4
  <2> QED BY <1>1, <1>5, <1>10, <2>1, <2>2, <2>3, <2>4 DEF SweepInv, DecideInv
<1>14. MayGo(d)'
  BY <1>1, <1>2, <1>5, <1>9 DEF MayGo
<1>15. DeleteInv'
  <2>1. SUFFICES ASSUME rest # {} PROVE DeleteInv'
    BY <1>5 DEF DeleteInv
  <2>2. sweep'.todo = rest /\ sweep'.found = sweep.found
    BY <1>5, <2>1
  <2>3. rest \subseteq sweep.found /\ \A p \in rest : p[2] = d
    BY <1>2, <1>3
  <2>4. \A p \in sweep.found : p[2] <= d /\ (p[2] = d \/ p \in objects')
    BY <1>2, <1>6
  <2> HIDE DEF rest
  <2> QED BY <1>14, <2>1, <2>2, <2>3, <2>4 DEF DeleteInv
<1>16. SweepInv'
  BY <1>5, <1>11, <1>12, <1>13, <1>15 DEF SweepInv, ListInv
<1>17. TaggingInv'
  <2>1. admin.round = 0
    BY <1>1 DEF SnapshotShape
  <2>2. KeepTagged # 0 /\ TagWhole(begun, stop.left) => TagWhole(begun, stop.left)'
    BY <1>1, <1>7, <1>8 DEF TagWhole
  <2> QED BY <1>1, <2>1, <2>2 DEF TaggingInv
<1>18. ASSUME NEW t \in promised PROVE TagKept(t)'
  <2>1. TagKept(t)
    BY TagKeepsRoundIs
  <2>2. CASE t = d
    BY <1>1, <1>2, <2>2 DEF MayGo, TagKept
  <2>3. CASE t # d
    BY <1>1, <1>7, <2>1, <2>3 DEF TagKept
  <2> QED BY <2>2, <2>3
<1>19. TagKeepsRound'
  BY <1>1, <1>18 DEF TagKeepsRound, TagKept
<1> QED BY <1>16, <1>17, <1>19

--------------------------------------------------------------------------------
(* Every step. *)

LEMMA RetentionInvInit == RetentionInit => RetentionInv
<1> SUFFICES ASSUME RetentionInit PROVE RetentionInv
  OBVIOUS
<1>1. SnapshotShape
  BY SnapshotShapeInit
<1>2. sweep.pc = "idle" /\ FirstDecision
  BY DEF RetentionInit, SweepIdle, FirstDecision
<1>3. UnderWayInv /\ RoundsInv /\ TaggingInv /\ TagKeepsRound
  BY DEF RetentionInit, UnderWayInv, RoundsInv, TaggingInv, TagKeepsRound, NoTagging, StopIdle
<1> QED BY <1>1, <1>2, <1>3 DEF RetentionInv, ListInv, ListedInv, DecideInv, DeleteInv

(* A round that is tagged, or being tagged, is not being written. *)
LEMMA UnderWayStep ==
  ASSUME SnapshotShape, SnapshotShape', UnderWayInv, [RetentionNext]_retentionVars
  PROVE  UnderWayInv'
<1>t. /\ begun \in Nat /\ begun' \in Nat /\ writing \in {0, begun} /\ SnapRounds \subseteq Nat \ {0}
      /\ objects \in SUBSET SnapObjects /\ everTagged \in SUBSET SnapRounds
      /\ admin.round \in Nat /\ stop.round \in Nat
      /\ admin.left \in SUBSET SnapObjects /\ stop.left \in SUBSET SnapObjects
  BY RetentionAssumption DEF SnapshotShape, SnapRounds
<1>r. \A t, o : o \in RoundObjects(t) => o[2] = t
  BY DEF RoundObjects
<1>c. ASSUME NEW t, CompleteIn(objects, t) PROVE t <= begun /\ t # writing
  <2>1. 1 \in SnapZones
    BY RetentionAssumption DEF SnapZones
  <2>2. <<1, t>> \in objects
    BY <1>c, <2>1 DEF CompleteIn, RoundObjects
  <2>3. t \in SnapRounds /\ t <= begun
    BY <1>t, <2>2 DEF UnderWayInv, SnapObjects
  <2> QED BY <1>c, <1>t, <2>3 DEF UnderWayInv
(* Steps that neither begin a round nor tag. *)
<1>k. ASSUME UNCHANGED <<begun, everTagged>>, objects' \subseteq objects, writing' \in {0, writing},
             admin'.round # 0 => UNCHANGED admin,
             stop'.pc = "tagging" => UNCHANGED stop
      PROVE  UnderWayInv'
  <2>1. writing' # 0 => ~CompleteIn(objects', writing')
    BY <1>k DEF UnderWayInv, CompleteIn
  <2>2. \A o \in objects' : o[2] <= begun'
    BY <1>k DEF UnderWayInv
  <2>3. \A u \in everTagged' : u <= begun' /\ u # writing'
    BY <1>k, <1>t DEF UnderWayInv
  <2>4. admin'.round # 0 =>
          admin'.round <= begun' /\ admin'.round # writing' /\ admin'.left \subseteq RoundObjects(admin'.round)
    BY <1>k DEF UnderWayInv
  <2>5. stop'.round \in Nat /\ (stop'.pc = "tagging" => stop'.round # 0)
    BY DEF SnapshotShape
  <2>6. stop'.pc = "tagging" =>
          stop'.round <= begun' /\ stop'.round # writing' /\ stop'.left \subseteq RoundObjects(stop'.round)
    BY <1>k, <2>5 DEF UnderWayInv
  <2> QED BY <2>1, <2>2, <2>3, <2>4, <2>6 DEF UnderWayInv
<1>1. CASE TakeRound
  <2>1. /\ begun' = begun + 1 /\ writing' = begun + 1 /\ UNCHANGED <<objects, everTagged, admin>>
        /\ stop'.pc = "tagging" => UNCHANGED stop
    BY <1>1 DEF TakeRound, SnapshotShape
  <2>2. ~CompleteIn(objects, begun + 1)
    BY <1>c, <1>t
  <2>3. \A o \in objects : o[2] <= begun /\ o[2] \in Nat
    BY <1>t DEF UnderWayInv, SnapObjects
  <2>4. \A u \in everTagged : u <= begun /\ u \in Nat
    BY <1>t DEF UnderWayInv
  <2>5. admin.round # 0 =>
          admin.round <= begun /\ admin.left \subseteq RoundObjects(admin.round)
    BY DEF UnderWayInv
  <2>6. stop.pc = "tagging" =>
          stop.round <= begun /\ stop.left \subseteq RoundObjects(stop.round)
    BY DEF UnderWayInv
  <2> QED BY <1>t, <2>1, <2>2, <2>3, <2>4, <2>5, <2>6 DEF UnderWayInv
<1>2. ASSUME NEW z \in SnapZones, PutObject(z) PROVE UnderWayInv'
  <2>1. /\ writing = begun /\ begun # 0 /\ objects' = objects \cup {<<z, begun>>}
        /\ writing' = (IF CompleteIn(objects', begun) THEN 0 ELSE begun)
        /\ UNCHANGED <<begun, everTagged, admin>>
    BY <1>2, <1>t DEF PutObject
  <2>2. writing' # 0 => ~CompleteIn(objects', writing')
    BY <2>1
  <2>3. \A o \in objects' : o[2] <= begun'
    BY <1>t, <2>1 DEF UnderWayInv
  <2>4. \A u \in everTagged' : u <= begun' /\ u # writing'
    BY <1>t, <2>1 DEF UnderWayInv
  <2>5. admin'.round # 0 =>
          admin'.round <= begun' /\ admin'.round # writing' /\ admin'.left \subseteq RoundObjects(admin'.round)
    BY <2>1 DEF UnderWayInv
  <2>6. stop'.pc = "tagging" =>
          stop'.round <= begun' /\ stop'.round # writing' /\ stop'.left \subseteq RoundObjects(stop'.round)
    <3>1. CASE stop' = stop
      <4>1. stop.pc = "tagging" => stop.round # 0
        BY DEF SnapshotShape
      <4> QED BY <2>1, <3>1, <4>1 DEF UnderWayInv
    <3>2. CASE /\ CompleteIn(objects', writing) /\ stop.round = writing
               /\ stop' = [stop EXCEPT !.pc = "tagging", !.left = RoundObjects(writing)]
      BY <1>t, <2>1, <3>2 DEF SnapshotShape
    <3> QED BY <1>2, <3>1, <3>2 DEF PutObject
  <2> QED BY <2>2, <2>3, <2>4, <2>5, <2>6 DEF UnderWayInv
<1>3. CASE RoundFails
  <2>1. stop'.pc = "tagging" => UNCHANGED stop
    BY <1>3 DEF RoundFails, StopIdle
  <2>2. UNCHANGED <<begun, everTagged, objects, admin>> /\ writing' = 0
    BY <1>3 DEF RoundFails
  <2> QED BY <1>k, <2>1, <2>2
<1>4. CASE \/ SweepBegins \/ SweepLists \/ SweepTags \/ SweepKeeps \/ SweepSpares \/ SweepLocks
           \/ SweepDeletesTag \/ SweepEnds \/ SweepFails
  <2>1. UNCHANGED <<begun, everTagged, objects, writing, admin, stop>>
    BY <1>4 DEF SweepStep, SweepBegins, SweepLists, SweepTags, SweepKeeps, SweepSpares, SweepLocks,
       SweepDeletesTag, SweepEnds, SweepFails
  <2> QED BY <1>k, <2>1
<1>5. CASE SweepDeletes
  <2>1. UNCHANGED <<begun, everTagged, writing, admin, stop>> /\ objects' \subseteq objects
    BY <1>5 DEF SweepDeletes, SweepStep
  <2> QED BY <1>k, <2>1
<1>6. ASSUME NEW t \in SnapRounds, AdminTags(t) PROVE UnderWayInv'
  <2>1. /\ UNCHANGED <<begun, everTagged, objects, writing, stop>>
        /\ admin'.round = t /\ admin'.left \subseteq RoundObjects(t)
        /\ t <= begun /\ t # writing
    BY <1>6, <1>c DEF AdminTags
  <2> QED BY <2>1 DEF UnderWayInv
<1>7. CASE AdminPuts
  <2>o. PICK o : o = FirstOf(admin.left)
    OBVIOUS
  <2>1. /\ o \in admin.left /\ everTagged' = everTagged \cup {o[2]}
        /\ admin' = [admin EXCEPT !.left = @ \ {o}] /\ admin.round # 0
        /\ UNCHANGED <<begun, objects, writing, stop>>
    BY <1>7, <1>t, <2>o, FirstOfIn DEF AdminPuts, TagRoundPut, SnapshotShape
  <2>2. o[2] = admin.round
    BY <1>r, <2>1 DEF UnderWayInv
  <2>3. admin'.round = admin.round /\ admin'.left \subseteq admin.left
    BY <2>1 DEF SnapshotShape
  <2> QED BY <2>1, <2>2, <2>3 DEF UnderWayInv
<1>8. CASE AdminAnswers \/ AdminFails
  <2>1. UNCHANGED <<begun, everTagged, objects, writing, stop>> /\ admin'.round = 0
    BY <1>8 DEF AdminAnswers, AdminFails, NoTagging
  <2> QED BY <1>k, <2>1
<1>9. CASE PrepareStop \/ StopTimesOut \/ StopAnswers
  <2>1. UNCHANGED <<begun, everTagged, objects, writing, admin>> /\ stop'.pc # "tagging"
    BY <1>9 DEF PrepareStop, StopTimesOut, StopAnswers, StopIdle, SnapshotShape
  <2> QED BY <1>k, <2>1
<1>10. CASE StopTags
  <2>o. PICK o : o = FirstOf(stop.left)
    OBVIOUS
  <2>1. /\ o \in stop.left /\ everTagged' = everTagged \cup {o[2]} /\ stop.pc = "tagging"
        /\ stop' = [stop EXCEPT !.left = @ \ {o}]
        /\ UNCHANGED <<begun, objects, writing, admin>>
    BY <1>10, <1>t, <2>o, FirstOfIn DEF StopTags, TagRoundPut
  <2>2. o[2] = stop.round
    BY <1>r, <2>1 DEF UnderWayInv
  <2>3. stop'.round = stop.round /\ stop'.pc = stop.pc /\ stop'.left \subseteq stop.left
    BY <2>1 DEF SnapshotShape
  <2> QED BY <2>1, <2>2, <2>3 DEF UnderWayInv
<1>11. CASE ServerRestarts
  <2>1. /\ UNCHANGED <<begun, everTagged, objects>> /\ writing' = 0
        /\ admin'.round = 0 /\ stop'.pc # "tagging"
    BY <1>11 DEF ServerRestarts, NoTagging, StopIdle
  <2> QED BY <1>k, <2>1
<1>12. CASE UNCHANGED retentionVars
  BY <1>12, <1>k DEF retentionVars
<1> QED BY <1>1, <1>2, <1>3, <1>4, <1>5, <1>6, <1>7, <1>8, <1>9, <1>10, <1>11, <1>12 DEF RetentionNext

LEMMA RetentionInvStep ==
  ASSUME RetentionInv, [RetentionNext]_retentionVars
  PROVE  RetentionInv'
<1>s. SnapshotShape /\ UnderWayInv /\ SweepInv /\ TaggingInv /\ TagKeepsRound
  BY DEF RetentionInv, SweepInv
<1>p. SnapshotShape' /\ UnderWayInv'
  BY <1>s, SnapshotShapeStep, UnderWayStep
<1>q. ASSUME SweepInv', TaggingInv', TagKeepsRound' PROVE RetentionInv'
  BY <1>q, <1>p DEF RetentionInv, SweepInv
<1>t. /\ begun \in Nat /\ writing \in {0, begun} /\ \A g \in tags : g[1][2] \in everTagged
      /\ \A o \in objects : o[2] <= begun
      /\ stop.round \in Nat /\ stop.round <= begun
  BY <1>s DEF SnapshotShape, SweepInv, RoundsInv, UnderWayInv, TaggingInv
(* Steps of a sweep that delete nothing. *)
<1>u. ASSUME SweepInv', UNCHANGED <<objects, tags, begun, admin, stop, promised, everTagged>>
      PROVE  RetentionInv'
  <2>1. TaggingInv'
    BY <1>s, <1>u DEF TaggingInv, TagWhole
  <2>2. TagKeepsRound'
    BY <1>s, <1>u DEF TagKeepsRound
  <2> QED BY <1>q, <1>u, <2>1, <2>2
(* Steps that write a round or tag. *)
<1>g. ASSUME Grows,
             \A t \in promised' : t \in promised \/ TagKept(t)',
             TaggingInv'
      PROVE  RetentionInv'
  <2>1. SweepInv' /\ \A t \in promised : TagKept(t) => TagKept(t)'
    BY <1>s, <1>p, <1>g, GrowsKeeps
  <2>2. \A t \in promised' : TagKept(t)'
    BY <1>s, <1>g, <2>1, TagKeepsRoundIs
  <2>3. TagKeepsRound'
    BY <2>2 DEF TagKeepsRound, TagKept
  <2> QED BY <1>q, <1>g, <2>1, <2>3
(* What is whole stays so as rounds are written and tagged. *)
<1>w. ASSUME Grows, NEW t, NEW S, TagWhole(t, S) PROVE TagWhole(t, S)'
  BY <1>s, <1>p, <1>w, GrowsKeeps
<1>1. CASE TakeRound
  <2>1. Grows
    BY <1>1, <1>t DEF TakeRound, Grows
  <2>2. TaggingInv'
    <3>1. admin' = admin /\ begun' = begun + 1
      BY <1>1 DEF TakeRound
    <3>2. admin.round # 0 => TagWhole(admin.round, admin.left)'
      BY <1>s, <1>w, <2>1, <3>1 DEF TaggingInv
    <3>3. /\ stop'.round <= begun' /\ (stop'.pc = "tagging" => stop'.round # begun')
      BY <1>1, <1>s, <1>t DEF TakeRound, SnapshotShape
    <3> QED BY <3>1, <3>2, <3>3 DEF TaggingInv
  <2> QED BY <1>1, <1>g, <2>1, <2>2 DEF TakeRound
<1>2. ASSUME NEW z \in SnapZones, PutObject(z) PROVE RetentionInv'
  <2>1. /\ writing = begun /\ begun # 0 /\ objects' = objects \cup {<<z, begun>>}
        /\ UNCHANGED <<tags, begun, sweep, incomplete, caught, promised, everTagged, admin>>
        /\ writing' \in {0, writing}
    BY <1>2, <1>s DEF PutObject, SnapshotShape
  <2>2. Grows
    BY <1>t, <2>1 DEF Grows
  <2>3. TaggingInv'
    <3>1. admin.round # 0 => TagWhole(admin.round, admin.left)'
      BY <1>s, <1>w, <2>1, <2>2 DEF TaggingInv
    <3>2. CASE stop' = stop
      <4>1. KeepTagged # 0 /\ stop.pc = "tagging" /\ stop.round = begun => TagWhole(begun, stop.left)'
        BY <1>s, <1>w, <2>1, <2>2, <3>2 DEF TaggingInv
      <4> QED BY <1>t, <2>1, <3>1, <3>2, <4>1 DEF TaggingInv
    <3>3. CASE /\ CompleteIn(objects', writing) /\ stop.round = writing
               /\ stop' = [stop EXCEPT !.pc = "tagging", !.left = RoundObjects(writing)]
      <4>1. stop'.round = begun /\ stop'.left = RoundObjects(begun)
        BY <1>s, <2>1, <3>3 DEF SnapshotShape
      <4>2. TagWhole(begun, stop.left)'
        BY <2>1, <3>3, <4>1 DEF TagWhole
      <4> QED BY <1>t, <2>1, <3>1, <4>1, <4>2 DEF TaggingInv
    <3> QED BY <1>2, <3>2, <3>3 DEF PutObject
  <2> QED BY <1>g, <2>1, <2>2, <2>3
<1>3. CASE RoundFails
  <2>1. Grows
    BY <1>3, <1>t DEF RoundFails, Grows
  <2>2. /\ UNCHANGED <<begun, objects, tags, admin, promised>>
        /\ stop' = stop \/ (stop'.pc = "failed" /\ stop'.round = 0)
    BY <1>3 DEF RoundFails, StopIdle
  <2>3. TaggingInv'
    BY <1>s, <1>t, <2>2 DEF TaggingInv, TagWhole
  <2> QED BY <1>g, <2>1, <2>2, <2>3
<1>4. CASE SweepBegins
  BY <1>4, <1>s, <1>u, SweepBeginsKeeps DEF SweepBegins, SweepStep
<1>5. CASE SweepLists
  BY <1>5, <1>s, <1>u, SweepListsKeeps DEF SweepLists, SweepStep
<1>6. CASE SweepTags
  BY <1>6, <1>s, <1>u, SweepTagsKeeps DEF SweepTags, SweepStep
<1>7. CASE SweepKeeps
  <2>1. ListedTagged(Deciding) \in BOOLEAN /\ (ListedTagged(Deciding) => Deciding \in everTagged)
    BY <1>7, <1>s, KeptTagged DEF SweepKeeps, ListedTagged
  <2>2. SweepInv'
    BY <1>7, <1>s, <2>1, KeptKeeps DEF SweepKeeps, SweepStep
  <2> QED BY <1>7, <1>u, <2>2 DEF SweepKeeps, SweepStep
<1>8. CASE SweepSpares
  <2>1. Deciding \in everTagged
    BY <1>8, <1>s, KeptTagged DEF SweepSpares
  <2>2. SweepInv'
    BY <1>8, <1>s, <2>1, KeptKeeps DEF SweepSpares, SweepStep
  <2> QED BY <1>8, <1>u, <2>2 DEF SweepSpares, SweepStep
<1>9. CASE SweepLocks
  BY <1>9, <1>s, <1>u, SweepLocksKeeps DEF SweepLocks, SweepStep
<1>10. CASE SweepDeletesTag
  BY <1>10, <1>s, <1>q, SweepDeletesTagKeeps
<1>11. CASE SweepDeletes
  BY <1>11, <1>s, <1>p, <1>q, SweepDeletesKeeps
<1>12. CASE SweepEnds \/ SweepFails
  <2>1. /\ sweep' = SweepIdle /\ incomplete' \subseteq incomplete
        /\ UNCHANGED <<objects, tags, begun, writing, caught, admin, stop, promised, everTagged>>
    BY <1>12 DEF SweepEnds, SweepFails, SweepStep
  <2> QED BY <1>s, <1>u, <2>1, SweepToIdle
<1>13. ASSUME NEW t \in SnapRounds, AdminTags(t) PROVE RetentionInv'
  <2>1. Grows /\ UNCHANGED <<begun, objects, tags, stop, promised>>
    BY <1>13, <1>t DEF AdminTags, Grows
  <2>2. TagWhole(admin'.round, admin'.left)
    BY <1>13 DEF AdminTags, TagWhole
  <2>3. TaggingInv'
    BY <1>s, <2>1, <2>2 DEF TaggingInv, TagWhole
  <2> QED BY <1>g, <2>1, <2>3
(* A tag put on an object. *)
<1>14. ASSUME NEW o \in SnapObjects, NEW n \in {"deploy", "rollback"}, TagRoundPut(o, n),
              UNCHANGED <<objects, begun, writing, sweep, incomplete, caught, promised>>
       PROVE  /\ Grows
              /\ \A t, S : TagWhole(t, S) => TagWhole(t, S \ {o})'
  <2>1. Grows
    BY <1>14, <1>t DEF TagRoundPut, Grows
  <2>2. TagsOf(tags', o) # {} /\ \A p : TagsOf(tags, p) \subseteq TagsOf(tags', p)
    BY <1>14 DEF TagRoundPut, TagsOf
  <2> QED BY <1>14, <2>1, <2>2 DEF TagWhole
<1>15. CASE AdminPuts
  <2>o. PICK o : o = FirstOf(admin.left)
    OBVIOUS
  <2>1. /\ o \in SnapObjects /\ TagRoundPut(o, "rollback") /\ admin' = [admin EXCEPT !.left = @ \ {o}]
        /\ UNCHANGED <<objects, begun, writing, sweep, incomplete, caught, promised, stop>>
        /\ admin.round # 0
    BY <1>15, <1>s, <2>o, FirstOfIn DEF AdminPuts, SnapshotShape
  <2>2. Grows /\ \A t, S : TagWhole(t, S) => TagWhole(t, S \ {o})'
    BY <1>14, <2>1
  <2>3. admin'.round = admin.round /\ admin'.left = admin.left \ {o}
    BY <1>s, <2>1 DEF SnapshotShape
  <2>4. TagWhole(admin.round, admin.left)'
    <3> DEFINE L == admin.left \ {o}
               r == admin.round
    <3>1. CompleteIn(objects', r) /\ \A p \in RoundObjects(r) : p \in L \/ TagsOf(tags', p) # {}
      BY <1>s, <2>1, <2>2 DEF TaggingInv, TagWhole
    <3> QED BY <2>3, <3>1 DEF TagWhole
  <2>5. TagWhole(begun, stop.left) => TagWhole(begun, stop.left)'
    <3>1. \A p : TagsOf(tags, p) \subseteq TagsOf(tags', p)
      BY <2>1 DEF TagRoundPut, TagsOf
    <3> QED BY <2>1, <3>1 DEF TagWhole
  <2>6. TaggingInv'
    BY <1>s, <2>1, <2>4, <2>5 DEF TaggingInv
  <2> QED BY <1>g, <2>1, <2>2, <2>6
<1>16. CASE AdminAnswers
  <2>1. /\ admin.round # 0 /\ admin.left = {} /\ promised' = promised \cup {admin.round}
        /\ UNCHANGED <<objects, tags, begun, writing, sweep, incomplete, caught, stop, everTagged>>
        /\ admin'.round = 0
        /\ sweep.pc # "delete"
    BY <1>16, <1>s DEF AdminAnswers, NoTagging, SnapshotShape
  <2>2. Grows
    BY <1>t, <2>1 DEF Grows
  <2>3. TagKept(admin.round)
    BY <1>s, <2>1 DEF TaggingInv, TagWhole, TagKept
  <2>4. \A t \in promised' : t \in promised \/ TagKept(t)'
    BY <2>1, <2>3 DEF TagKept
  <2>5. TaggingInv'
    BY <1>s, <2>1 DEF TaggingInv, TagWhole
  <2> QED BY <1>g, <2>2, <2>4, <2>5
<1>17. CASE AdminFails
  <2>1. UNCHANGED <<objects, tags, begun, writing, sweep, incomplete, caught, stop, promised, everTagged>> /\ admin'.round = 0
    BY <1>17 DEF AdminFails, NoTagging
  <2>2. Grows
    BY <1>t, <2>1 DEF Grows
  <2>3. TaggingInv'
    BY <1>s, <2>1 DEF TaggingInv, TagWhole
  <2> QED BY <1>g, <2>1, <2>2, <2>3
<1>18. CASE PrepareStop \/ StopTimesOut
  <2>1. /\ UNCHANGED <<objects, tags, begun, writing, sweep, incomplete, caught, admin, promised, everTagged>>
        /\ stop'.pc # "tagging" /\ stop'.round <= begun
    BY <1>18, <1>s, <1>t DEF PrepareStop, StopTimesOut, StopIdle, SnapshotShape
  <2>2. Grows
    BY <1>t, <2>1 DEF Grows
  <2>3. TaggingInv'
    BY <1>s, <2>1 DEF TaggingInv, TagWhole
  <2> QED BY <1>g, <2>1, <2>2, <2>3
<1>19. CASE StopTags
  <2>o. PICK o : o = FirstOf(stop.left)
    OBVIOUS
  <2>1. /\ o \in SnapObjects /\ TagRoundPut(o, "deploy") /\ stop' = [stop EXCEPT !.left = @ \ {o}]
        /\ UNCHANGED <<objects, begun, writing, sweep, incomplete, caught, promised, admin>>
        /\ stop.pc = "tagging"
    BY <1>19, <1>s, <2>o, FirstOfIn DEF StopTags, SnapshotShape
  <2>2. Grows
    BY <1>14, <2>1
  <2>3. stop'.round = stop.round /\ stop'.left = stop.left \ {o} /\ stop'.pc = stop.pc
    BY <1>s, <2>1 DEF SnapshotShape
  <2>4. TagsOf(tags', o) # {} /\ \A p : TagsOf(tags, p) \subseteq TagsOf(tags', p)
    BY <2>1 DEF TagRoundPut, TagsOf
  <2>5. TagWhole(begun, stop.left) => TagWhole(begun, stop.left)'
    BY <2>1, <2>3, <2>4 DEF TagWhole
  <2>6. TagWhole(admin.round, admin.left) => TagWhole(admin.round, admin.left)'
    BY <2>1, <2>4 DEF TagWhole
  <2>7. TaggingInv'
    BY <1>s, <2>1, <2>3, <2>5, <2>6 DEF TaggingInv
  <2> QED BY <1>g, <2>1, <2>2, <2>7
<1>20. CASE StopAnswers
  <2>1. /\ stop.pc = "tagging" /\ stop.left = {}
        /\ \A t \in promised' : t \in promised \/ (t = begun /\ stop.round = begun)
        /\ UNCHANGED <<objects, tags, begun, writing, sweep, incomplete, caught, admin, everTagged>>
        /\ stop'.pc # "tagging" /\ stop'.round = 0
    BY <1>20 DEF StopAnswers, StopIdle
  <2>2. Grows
    BY <1>t, <2>1 DEF Grows
  <2>3. stop.round = begun => TagKept(begun)
    <3>1. KeepTagged # 0 /\ stop.round = begun => TagKept(begun)
      BY <1>s, <2>1 DEF TaggingInv, TagWhole, TagKept
    <3>2. KeepTagged = 0 => TagKept(begun)
      BY <1>s, NothingPromised DEF TagKept
    <3> QED BY <3>1, <3>2
  <2>4. \A t \in promised' : t \in promised \/ TagKept(t)'
    BY <2>1, <2>3 DEF TagKept
  <2>5. TaggingInv'
    BY <1>s, <1>t, <2>1 DEF TaggingInv, TagWhole
  <2> QED BY <1>g, <2>2, <2>4, <2>5
<1>21. CASE ServerRestarts
  <2>1. /\ UNCHANGED <<objects, tags, begun, promised, everTagged>> /\ sweep' = SweepIdle
        /\ writing' = 0 /\ incomplete' = {} /\ admin'.round = 0 /\ stop'.pc = "idle" /\ stop'.round = 0
    BY <1>21 DEF ServerRestarts, NoTagging, StopIdle
  <2>2. SweepInv'
    BY <1>s, <2>1, SweepToIdle
  <2>3. TaggingInv'
    BY <1>t, <2>1 DEF TaggingInv
  <2>4. TagKeepsRound'
    BY <1>s, <2>1 DEF TagKeepsRound
  <2> QED BY <1>q, <2>2, <2>3, <2>4
<1>22. CASE UNCHANGED retentionVars
  <2>1. Grows /\ UNCHANGED <<objects, tags, begun, sweep, admin, stop, promised, everTagged>>
    BY <1>22, <1>t DEF retentionVars, Grows
  <2>2. TaggingInv'
    BY <1>s, <2>1 DEF TaggingInv, TagWhole
  <2> QED BY <1>g, <2>1, <2>2
<1> QED
  BY <1>1, <1>2, <1>3, <1>4, <1>5, <1>6, <1>7, <1>8, <1>9, <1>10, <1>11, <1>12, <1>13, <1>15,
     <1>16, <1>17, <1>18, <1>19, <1>20, <1>21, <1>22 DEF RetentionNext

--------------------------------------------------------------------------------
(* The theorems. *)

(* The store's rounds, the Sweeper's lock and both taggings keep their types   *)
(* through every interleaving of uploads, sweeps, taggings and faults.         *)
THEOREM RetentionTypes == RetentionSpec => []RetentionTypeOK
<1>1. SnapshotShape /\ [RetentionNext]_retentionVars => SnapshotShape'
  BY SnapshotShapeStep
<1>2. SnapshotShape => RetentionTypeOK
  <2> SUFFICES ASSUME SnapshotShape PROVE RetentionTypeOK
    OBVIOUS
  <2>1. /\ objects \subseteq SnapZones \X SnapRounds
        /\ tags \subseteq (SnapZones \X SnapRounds) \X {"deploy", "rollback"}
    BY DEF SnapshotShape, SnapTags, SnapObjects
  <2>2. begun \in 0..MaxRounds /\ writing \in 0..begun
    BY DEF SnapshotShape
  <2>3. /\ sweep.pc \in {"idle", "list", "tags", "decide", "delete"}
        /\ stop.pc \in {"idle", "forced", "taken", "tagging", "failed", "complete"}
    BY DEF SnapshotShape, SweepRecords
  <2>4. /\ (sweepLock = "sweep") = (sweep.pc = "delete")
        /\ (sweepLock = "admin") = (admin.round # 0)
    BY DEF SnapshotShape
  <2>5. incomplete \cup caught \cup promised \cup everTagged \subseteq SnapRounds
    BY DEF SnapshotShape
  <2> QED BY <2>1, <2>2, <2>3, <2>4, <2>5 DEF RetentionTypeOK
<1> QED BY SnapshotShapeInit, <1>1, <1>2, PTL DEF RetentionSpec

(* What every decision of a sweep rests on, whatever the policy and however    *)
(* rounds are written while it lists (Sweeper.Sweep, TagSnapshotRound,         *)
(* PrepareStop).                                                               *)
THEOREM RetentionInvariant == RetentionSpec => []RetentionInv
<1>1. RetentionInv /\ [RetentionNext]_retentionVars => RetentionInv'
  BY RetentionInvStep
<1> QED BY RetentionInvInit, <1>1, PTL DEF RetentionSpec

(* A tag that was answered holds, whatever the policy: a round reported as     *)
(* tagged is whole until KeepTagged newer rounds have been tagged.             *)
THEOREM TaggedRoundsStay == RetentionSpec => []TagKeepsRound
<1>1. RetentionInv => TagKeepsRound
  BY DEF RetentionInv
<1> QED BY <1>1, RetentionInvariant, PTL

(* The recovery point never goes back, whatever the policy: no step of any     *)
(* sweep deletes an object of the pinned round, or of the newest complete one  *)
(* unless a listing of this process went through the Zones while that round    *)
(* came whole.                                                                 *)
THEOREM RecoveryPointHolds == RetentionSpec => RecoveryPointStays
<1> DEFINE Holds == /\ NewestIn(objects) \notin caught => NewestIn(objects') >= NewestIn(objects)
                    /\ \A o \in objects : PinnedRound # 0 /\ o[2] = PinnedRound => o \in objects'
<1>1. RetentionSpec => []RetentionInv
  BY RetentionInvariant
<1>2. ASSUME RetentionInv, [RetentionNext]_retentionVars PROVE Holds
  <2>n. /\ NewestIn(objects) \in Nat /\ NewestIn(objects') \in Nat
        /\ NewestIn(objects) # 0 => NewestIn(objects) \in SnapRounds /\ CompleteIn(objects, NewestIn(objects))
        /\ \A t \in SnapRounds : CompleteIn(objects', t) => t <= NewestIn(objects')
        /\ \A t \in SnapRounds : CompleteIn(objects, t) => t <= NewestIn(objects)
    BY NewestInIs
  <2>1. CASE SweepDeletes
    <3>o. PICK o : o = FirstOf(sweep.todo)
      OBVIOUS
    <3>1. sweep.pc = "delete" /\ objects' = objects \ {o}
      BY <2>1, <3>o DEF SweepDeletes
    <3>2. PICK d \in SnapRounds : (\A p \in sweep.todo : p[2] = d) /\ MayGo(d)
      BY <1>2, <3>1 DEF RetentionInv, DeleteInv
    <3>3. o[2] = d
      <4>1. sweep.todo # {} /\ sweep.todo \in SUBSET SnapObjects
        BY <1>2, <3>1 DEF RetentionInv, DeleteInv, SnapshotShape, SweepRecords
      <4> QED BY <3>o, <3>2, <4>1, FirstOfIn
    <3>4. \A p \in objects : p[2] # d => p \in objects'
      BY <3>1, <3>3
    <3>5. \A t : t # d /\ CompleteIn(objects, t) => CompleteIn(objects', t)
      BY <3>4 DEF CompleteIn, RoundObjects
    <3>6. CompleteIn(objects, d) => d < NewestIn(objects) \/ d \in caught
      <4>1. ASSUME CompleteIn(objects, d), d \notin caught PROVE d < NewestIn(objects)
        <5>1. d < sweep.next /\ sweep.next \in Nat /\ d \in Nat /\ sweep.next # 0
          BY <1>2, <3>2, <4>1 DEF MayGo, Passed, NeverComplete, RetentionInv, SnapshotShape, SweepRecords, SnapRounds
        <5>2. CompleteIn(objects, sweep.next) /\ \A p \in objects : p[2] \in SnapRounds
          BY <1>2, <3>1, <5>1 DEF RetentionInv, DecideInv, SnapshotShape, SnapObjects
        <5>3. sweep.next \in SnapRounds
          <6>1. 1 \in SnapZones
            BY RetentionAssumption DEF SnapZones
          <6>2. <<1, sweep.next>> \in objects
            BY <5>2, <6>1 DEF CompleteIn, RoundObjects
          <6> QED BY <5>2, <6>2
        <5>4. sweep.next <= NewestIn(objects)
          BY <2>n, <5>2, <5>3
        <5> QED BY <2>n, <5>1, <5>4
      <4> QED BY <4>1
    <3>7. NewestIn(objects) \notin caught => NewestIn(objects') >= NewestIn(objects)
      <4> SUFFICES ASSUME NewestIn(objects) \notin caught PROVE NewestIn(objects') >= NewestIn(objects)
        OBVIOUS
      <4>1. CASE NewestIn(objects) = 0
        BY <2>n, <4>1
      <4>2. CASE NewestIn(objects) # 0
        <5>1. CompleteIn(objects, NewestIn(objects)) /\ NewestIn(objects) # d
          BY <2>n, <3>6, <4>2
        <5>2. NewestIn(objects) <= NewestIn(objects')
          BY <2>n, <3>5, <4>2, <5>1
        <5> QED BY <2>n, <5>2
      <4> QED BY <4>1, <4>2
    <3>8. \A p \in objects : PinnedRound # 0 /\ p[2] = PinnedRound => p \in objects'
      BY <3>2, <3>4 DEF MayGo
    <3> QED BY <3>7, <3>8
  <2>2. CASE ~SweepDeletes
    <3>1. objects \subseteq objects'
      <4>1. ASSUME NEW z \in SnapZones, PutObject(z) PROVE objects \subseteq objects'
        BY <4>1 DEF PutObject
      <4>2. ASSUME NEW t \in SnapRounds, AdminTags(t) PROVE objects' = objects
        BY <4>2 DEF AdminTags
      <4>3. CASE \/ TakeRound \/ RoundFails \/ SweepBegins \/ SweepLists \/ SweepTags \/ SweepKeeps
                 \/ SweepSpares \/ SweepLocks \/ SweepDeletesTag \/ SweepEnds \/ SweepFails
        BY <4>3 DEF TakeRound, RoundFails, SweepBegins, SweepLists, SweepTags, SweepKeeps,
           SweepSpares, SweepLocks, SweepDeletesTag, SweepEnds, SweepFails
      <4>4. CASE \/ AdminPuts \/ AdminAnswers \/ AdminFails \/ PrepareStop \/ StopTimesOut
                 \/ StopTags \/ StopAnswers \/ ServerRestarts \/ UNCHANGED retentionVars
        BY <4>4 DEF AdminPuts, AdminAnswers, AdminFails, PrepareStop, StopTimesOut, StopTags,
           StopAnswers, ServerRestarts, retentionVars
      <4> QED BY <1>2, <2>2, <4>1, <4>2, <4>3, <4>4 DEF RetentionNext
    <3>2. \A t : CompleteIn(objects, t) => CompleteIn(objects', t)
      BY <3>1 DEF CompleteIn
    <3>3. NewestIn(objects') >= NewestIn(objects)
      BY <2>n, <3>2
    <3> QED BY <3>1, <3>3
  <2> QED BY <2>1, <2>2
<1>3. RetentionInv /\ [RetentionNext]_retentionVars => [Holds]_retentionVars
  BY <1>2
<1> HIDE DEF Holds
<1>4. RetentionSpec => [][Holds]_retentionVars
  BY <1>1, <1>3, PTL DEF RetentionSpec
<1> QED BY <1>4 DEF Holds, RecoveryPointStays

--------------------------------------------------------------------------------
(* The projected topic. *)

AllKeys ==
  {<<"zone", 0>>} \cup {<<"room", r>> : r \in Rooms} \cup {<<"char", c>> : c \in Chars}

(* A key's body after a tick, and on the topic. *)
Val(t, k) == IF k \in Keys(World(t)) THEN Body(World(t), k) ELSE Gone
OnTopic(k) == IF k \in DOMAIN state THEN state[k] ELSE Gone

(* The records of a tick, and the keys they are of. *)
Records(t) == Render(t, Here(World(t - 1)), World(t - 1).rooms)
Writes(t, k) == k \in DOMAIN Records(t)

(* Zones and ticks. *)
ZoneStates ==
  [rooms : SUBSET Rooms, room : UNION {[S -> Rooms] : S \in SUBSET Chars},
   dormant : SUBSET Chars, faulted : BOOLEAN]

TickRecords ==
  [st : ZoneStates, touched : SUBSET ({"zone", "room", "char", "all"} \X ({0} \cup Rooms \cup Chars)),
   swap : BOOLEAN]

AwakeIn(s, c, r) == c \in Here(s) \ s.dormant /\ s.room[c] = r

(* What a tick h after Zone s may be: a swap, a fault, or Events of one        *)
(* Character c, which touch the Rooms R it is in before and after.             *)
Whole(s, h) ==
  /\ h.swap \/ (<<"all", 0>> \in h.touched /\ h.st.rooms = s.rooms)
  /\ Here(h.st) = Here(s)

Part(s, h) ==
  /\ ~h.swap /\ h.st.rooms = s.rooms /\ h.st.faulted = s.faulted
  /\ \E c \in Chars, R \in SUBSET Rooms :
       /\ h.touched = Touches(R, c)
       /\ \A d \in Chars \ {c} :
            /\ d \in Here(h.st) <=> d \in Here(s)
            /\ d \in Here(s) => /\ h.st.room[d] = s.room[d]
                                /\ d \in h.st.dormant <=> d \in s.dormant
       /\ \A r \in Rooms \ R : ~AwakeIn(s, c, r) /\ ~AwakeIn(h.st, c, r)

WorldInv ==
  /\ hist \in Seq(TickRecords) /\ Len(hist) <= MaxTicks
  /\ \A t \in 1..Len(hist) :
       /\ hist[t].st.rooms # {}
       /\ \A c \in Here(hist[t].st) : hist[t].st.room[c] \in hist[t].st.rooms
       /\ hist[t].st.dormant \subseteq Here(hist[t].st)
       /\ Whole(World(t - 1), hist[t]) \/ Part(World(t - 1), hist[t])

(* A key is as it was at tick b, unless a record of a later tick may have been *)
(* written.                                                                    *)
AsOf(b, k) == OnTopic(k) = Val(b, k) \/ \E j \in (b + 1)..high : Writes(j, k)

(* The replica and its checkpoint. *)
ProjectionInv ==
  /\ snapRound \in 0..Len(hist) /\ high \in 0..Len(hist) /\ at \in 0..Len(hist)
  /\ silent \in 0..Len(hist)
  /\ cp \in [committed : BOOLEAN, tick : 0..Len(hist), diverged : BOOLEAN]
  /\ stage \in {"down", "idle", "dump", "batch", "halting"} /\ diverges \in BOOLEAN
  /\ projectorFaults \in 0..MaxProjectorFaults
  /\ projected \in SUBSET Chars /\ rendered \in SUBSET Rooms
  /\ stage # "down" => projected = Here(World(at)) /\ rendered = World(at).rooms
  /\ stage \in {"idle", "batch"} => cp.committed /\ ~cp.diverged
  /\ stage = "idle" => cp.tick = Newer(at, silent)

(* What a start from the checkpoint relies on. *)
CheckpointInv ==
  /\ state = [k \in DOMAIN state |-> state[k]]
  /\ DOMAIN state \subseteq AllKeys /\ \A k \in DOMAIN state : state[k] # Gone
  /\ cp.committed /\ ~cp.diverged => \A k \in AllKeys : AsOf(cp.tick, k)

(* A dump is of the replica's tick, and covers what the topic does not hold of it. *)
DumpInv ==
  stage = "dump" =>
    /\ at <= high /\ silent = 0 /\ DOMAIN out = {at} /\ ~diverges
    /\ ~cp.diverged /\ (cp.committed => cp.tick < at)
    /\ DOMAIN out[at] \subseteq AllKeys
    /\ \A k \in AllKeys : IF k \in DOMAIN out[at] THEN out[at][k] = Val(at, k)
                          ELSE OnTopic(k) = Val(at, k)

(* A batch is of the ticks after the checkpoint: the last record of a key that *)
(* is still to land has the key's body, and a key with none is as it is to be. *)
BatchInv ==
  stage = "batch" =>
    /\ at <= high /\ silent <= at /\ DOMAIN out \subseteq (cp.tick + 1)..at
    /\ \A t \in DOMAIN out : \A k \in DOMAIN out[t] : k \in AllKeys /\ Writes(t, k)
    /\ \A k \in AllKeys :
         \/ AsOf(at, k)
         \/ \E t \in DOMAIN out : k \in DOMAIN out[t]
    /\ \A t \in DOMAIN out : \A k \in DOMAIN out[t] :
         \/ out[t][k] = Val(at, k)
         \/ \E u \in DOMAIN out : u > t /\ k \in DOMAIN out[u]

ProjectorInv == WorldInv /\ ProjectionInv /\ CheckpointInv /\ DumpInv /\ BatchInv

--------------------------------------------------------------------------------
(* Keys, bodies and records. *)

LEMMA KeyForms ==
  ASSUME NEW st
  PROVE  /\ <<"zone", 0>> \in Keys(st) <=> st.rooms # {}
         /\ \A r : <<"room", r>> \in Keys(st) <=> st.rooms # {} /\ r \in st.rooms
         /\ \A c : <<"char", c>> \in Keys(st) <=> st.rooms # {} /\ c \in Here(st)
         /\ Body(st, <<"zone", 0>>) = <<Cardinality(Here(st)), Cardinality(st.rooms), st.faulted>>
         /\ \A r : Body(st, <<"room", r>>) = <<{c \in Here(st) \ st.dormant : st.room[c] = r}>>
         /\ \A c : Body(st, <<"char", c>>) = <<st.room[c], c \in st.dormant>>
<1>1. <<"zone", 0>> \in Keys(st) <=> st.rooms # {}
  BY DEF Keys
<1>2. \A r : <<"room", r>> \in Keys(st) <=> st.rooms # {} /\ r \in st.rooms
  BY DEF Keys
<1>3. \A c : <<"char", c>> \in Keys(st) <=> st.rooms # {} /\ c \in Here(st)
  BY DEF Keys
<1>4. Body(st, <<"zone", 0>>) = <<Cardinality(Here(st)), Cardinality(st.rooms), st.faulted>>
  BY DEF Body
<1>5. \A r : Body(st, <<"room", r>>) = <<{c \in Here(st) \ st.dormant : st.room[c] = r}>>
  BY DEF Body
<1>6. \A c : Body(st, <<"char", c>>) = <<st.room[c], c \in st.dormant>>
  BY DEF Body
<1> QED BY <1>1, <1>2, <1>3, <1>4, <1>5, <1>6

(* A body is never a tombstone. *)
LEMMA BodyIsNotGone ==
  ASSUME NEW st, NEW k \in AllKeys
  PROVE  Body(st, k) # Gone
<1>1. \A a, b, c : <<a>> # <<>> /\ <<a, b>> # <<>> /\ <<a, b, c>> # <<>>
  OBVIOUS
<1>2. \/ k = <<"zone", 0>> \/ (\E r \in Rooms : k = <<"room", r>>) \/ (\E c \in Chars : k = <<"char", c>>)
  BY DEF AllKeys
<1>3. CASE k = <<"zone", 0>>
  BY <1>1, <1>3, KeyForms DEF Gone
<1>4. CASE \E r \in Rooms : k = <<"room", r>>
  BY <1>1, <1>4 DEF Body, Gone
<1>5. CASE \E c \in Chars : k = <<"char", c>>
  BY <1>1, <1>5 DEF Body, Gone
<1> QED BY <1>2, <1>3, <1>4, <1>5

(* The Zone after each tick. *)
LEMMA WorldIs ==
  ASSUME WorldInv, NEW t \in 0..Len(hist)
  PROVE  /\ World(t).rooms \subseteq Rooms /\ Here(World(t)) \subseteq Chars
         /\ t # 0 => World(t) = hist[t].st
         /\ t # 0 => World(t).rooms # {}
         /\ t = 0 => World(t).rooms = {} /\ Here(World(t)) = {}
         /\ Keys(World(t)) \subseteq AllKeys
<1>1. CASE t = 0
  <2>1. World(t) = Empty
    BY <1>1 DEF World
  <2>2. World(t).rooms = {} /\ Here(World(t)) = {}
    BY <2>1 DEF Empty, Here
  <2> QED BY <1>1, <2>2 DEF Keys
<1>2. CASE t # 0
  <2>1. t \in 1..Len(hist) /\ World(t) = hist[t].st
    BY <1>2 DEF World, WorldInv
  <2>2. hist[t] \in TickRecords
    BY <2>1 DEF WorldInv
  <2>3. hist[t].st \in ZoneStates
    BY <2>2 DEF TickRecords
  <2>4. hist[t].st.rooms \subseteq Rooms /\ Here(hist[t].st) \subseteq Chars
    BY <2>3 DEF ZoneStates, Here
  <2>5. hist[t].st.rooms # {}
    BY <2>1 DEF WorldInv
  <2>6. Keys(World(t)) \subseteq AllKeys
    BY <2>1, <2>4 DEF Keys, AllKeys
  <2> QED BY <1>2, <2>1, <2>4, <2>5, <2>6
<1> QED BY <1>1, <1>2

(* Render: the records of a tick have the bodies after it, and a key without  *)
(* one is as it was.                                                          *)
LEMMA RecordsAreDifferences ==
  ASSUME WorldInv, NEW t \in 1..Len(hist)
  PROVE  /\ DOMAIN Records(t) \subseteq AllKeys
         /\ \A k \in DOMAIN Records(t) : Records(t)[k] = Val(t, k)
         /\ \A k \in AllKeys \ DOMAIN Records(t) : Val(t, k) = Val(t - 1, k)
<1> DEFINE s == World(t - 1)
           h == hist[t]
           u == World(t)
           sw == Swept(u, Here(s))
           left == {<<"char", c>> : c \in Here(s) \ Here(u)}
           whole == h.swap \/ <<"all", 0>> \in h.touched
<1>1. t \in 0..Len(hist) /\ t - 1 \in 0..Len(hist) /\ t # 0 /\ Len(hist) \in Nat
  BY DEF WorldInv
<1>2. /\ u = h.st /\ u.rooms # {} /\ u.rooms \subseteq Rooms /\ Here(u) \subseteq Chars
      /\ s.rooms \subseteq Rooms /\ Here(s) \subseteq Chars
      /\ Keys(u) \subseteq AllKeys /\ Keys(s) \subseteq AllKeys
      /\ s.rooms = {} => Here(s) = {}
  BY <1>1, WorldIs
<1>3. DOMAIN sw = left /\ \A k \in left : sw[k] = Gone
  BY DEF Swept, Tombstones
<1>4. left \subseteq AllKeys /\ \A k \in left : k \notin Keys(u)
  BY <1>2, KeyForms DEF AllKeys
<1>5. Whole(s, h) \/ Part(s, h)
  BY DEF WorldInv
<1>v. \A k : Val(t, k) = (IF k \in Keys(u) THEN Body(u, k) ELSE Gone)
             /\ Val(t - 1, k) = (IF k \in Keys(s) THEN Body(s, k) ELSE Gone)
  BY DEF Val
<1>k. \A k \in AllKeys : \/ k = <<"zone", 0>> \/ (\E r \in Rooms : k = <<"room", r>>)
                         \/ (\E c \in Chars : k = <<"char", c>>)
  BY DEF AllKeys
<1>6. CASE whole
  <2> DEFINE rm == IF h.swap THEN RemovedRooms(u, s.rooms) ELSE <<>>
             gone == IF h.swap THEN {<<"room", r>> : r \in s.rooms \ u.rooms} ELSE {}
  <2>1. Records(t) = Over(Dump(u), Over(rm, sw))
    BY <1>6 DEF Records, Render
  <2>2. DOMAIN rm = gone /\ \A k \in gone : rm[k] = Gone
    BY DEF RemovedRooms, Tombstones
  <2>3. DOMAIN Dump(u) = Keys(u) /\ \A k \in Keys(u) : Dump(u)[k] = Body(u, k)
    BY DEF Dump
  <2>4. gone \subseteq AllKeys /\ \A k \in gone : k \notin Keys(u)
    BY <1>2, KeyForms, SMTT(30) DEF AllKeys
  <2> HIDE DEF rm, gone, left, sw, s, u, h
  <2>o. PICK g : g = Over(rm, sw)
    OBVIOUS
  <2>5. /\ DOMAIN g = gone \cup left
        /\ \A k \in gone \cup left : g[k] = Gone
    <3>1. /\ DOMAIN g = DOMAIN rm \cup DOMAIN sw
          /\ \A k \in DOMAIN rm : g[k] = rm[k]
          /\ \A k \in DOMAIN sw \ DOMAIN rm : g[k] = sw[k]
      BY <2>o DEF Over
    <3> QED BY <1>3, <2>2, <3>1
  <2>6. /\ DOMAIN Records(t) = Keys(u) \cup gone \cup left
        /\ \A k \in Keys(u) : Records(t)[k] = Body(u, k)
        /\ \A k \in gone \cup left : Records(t)[k] = Gone
    <3>1. /\ DOMAIN Records(t) = DOMAIN Dump(u) \cup DOMAIN g
          /\ \A k \in DOMAIN Dump(u) : Records(t)[k] = Dump(u)[k]
          /\ \A k \in DOMAIN g \ DOMAIN Dump(u) : Records(t)[k] = g[k]
      BY <2>1, <2>o DEF Over
    <3> QED BY <1>4, <2>3, <2>4, <2>5, <3>1
  <2>7. ASSUME NEW k \in AllKeys, k \notin Keys(u), k \notin gone, k \notin left PROVE k \notin Keys(s)
    <3>1. CASE k = <<"zone", 0>>
      BY <1>2, <2>7, <3>1, KeyForms
    <3>2. CASE \E r \in Rooms : k = <<"room", r>>
      <4>1. PICK r \in Rooms : k = <<"room", r>>
        BY <3>2
      <4>2. r \notin u.rooms
        BY <1>2, <2>7, <4>1, KeyForms
      <4>3. CASE h.swap
        <5>1. r \notin s.rooms
          BY <2>7, <4>1, <4>2, <4>3 DEF gone
        <5> QED BY <4>1, <5>1, KeyForms
      <4>4. CASE ~h.swap
        <5>1. u.rooms = s.rooms
          BY <1>2, <1>5, <4>4 DEF Whole, Part
        <5> QED BY <4>1, <4>2, <5>1, KeyForms
      <4> QED BY <4>3, <4>4
    <3>3. CASE \E c \in Chars : k = <<"char", c>>
      <4>1. PICK c \in Chars : k = <<"char", c>>
        BY <3>3
      <4>2. c \notin Here(u)
        BY <1>2, <2>7, <4>1, KeyForms
      <4>3. c \notin Here(s)
        BY <2>7, <4>1, <4>2 DEF left
      <4> QED BY <4>1, <4>3, KeyForms
    <3> QED BY <1>k, <2>7, <3>1, <3>2, <3>3
  <2> QED BY <1>2, <1>4, <1>v, <2>4, <2>6, <2>7
<1>7. CASE ~whole
  <2> DEFINE T == h.touched \cap Keys(u)
             bodies == [k \in T |-> Body(u, k)]
  <2>1. Records(t) = Over(bodies, sw)
    BY <1>7 DEF Records, Render
  <2>2. DOMAIN bodies = T /\ \A k \in T : bodies[k] = Body(u, k)
    OBVIOUS
  <2>3. Part(s, h)
    BY <1>5, <1>7 DEF Whole
  <2>4. PICK c \in Chars, R \in SUBSET Rooms :
          /\ h.touched = Touches(R, c)
          /\ \A d \in Chars \ {c} :
               /\ d \in Here(u) <=> d \in Here(s)
               /\ d \in Here(s) => u.room[d] = s.room[d] /\ (d \in u.dormant <=> d \in s.dormant)
          /\ \A r \in Rooms \ R : ~AwakeIn(s, c, r) /\ ~AwakeIn(u, c, r)
    BY <1>2, <2>3 DEF Part
  <2>5. u.rooms = s.rooms /\ u.faulted = s.faulted
    BY <1>2, <2>3 DEF Part
  <2> HIDE DEF bodies, left, sw, s, u, h
  <2>6. /\ DOMAIN Records(t) = T \cup left
        /\ \A k \in T : Records(t)[k] = Body(u, k)
        /\ \A k \in left : Records(t)[k] = Gone
    <3>1. /\ DOMAIN Records(t) = DOMAIN bodies \cup DOMAIN sw
          /\ \A k \in DOMAIN bodies : Records(t)[k] = bodies[k]
          /\ \A k \in DOMAIN sw \ DOMAIN bodies : Records(t)[k] = sw[k]
      BY <2>1 DEF Over
    <3> QED BY <1>3, <1>4, <2>2, <3>1
  <2>7. ASSUME NEW k \in AllKeys, k \notin T, k \notin left
        PROVE  /\ k \in Keys(u) <=> k \in Keys(s)
               /\ k \in Keys(u) => Body(u, k) = Body(s, k)
    <3>1. CASE k = <<"zone", 0>>
      <4>1. k \in T
        BY <1>2, <2>4, <3>1, KeyForms DEF Touches
      <4> QED BY <2>7, <4>1
    <3>2. CASE \E r \in Rooms : k = <<"room", r>>
      <4>1. PICK r \in Rooms : k = <<"room", r>>
        BY <3>2
      <4>2. k \in Keys(u) <=> k \in Keys(s)
        BY <2>5, <4>1, KeyForms
      <4>3. k \in Keys(u) => r \notin R
        BY <2>4, <2>7, <4>1 DEF Touches
      <4>4. ASSUME r \notin R
            PROVE  {d \in Here(u) \ u.dormant : u.room[d] = r} = {d \in Here(s) \ s.dormant : s.room[d] = r}
        BY <1>2, <2>4, <4>4 DEF AwakeIn
      <4>5. /\ Body(u, k) = <<{d \in Here(u) \ u.dormant : u.room[d] = r}>>
            /\ Body(s, k) = <<{d \in Here(s) \ s.dormant : s.room[d] = r}>>
        BY <4>1 DEF Body
      <4> QED BY <4>2, <4>3, <4>4, <4>5
    <3>3. CASE \E d \in Chars : k = <<"char", d>>
      <4>1. PICK d \in Chars : k = <<"char", d>>
        BY <3>3
      <4>2. CASE d # c
        <5>1. /\ d \in Here(u) <=> d \in Here(s)
              /\ d \in Here(s) => u.room[d] = s.room[d] /\ (d \in u.dormant <=> d \in s.dormant)
          BY <2>4, <4>2
        <5>2. k \in Keys(u) <=> k \in Keys(s)
          BY <2>5, <4>1, <5>1, KeyForms
        <5>3. k \in Keys(s) => d \in Here(s)
          BY <4>1, KeyForms
        <5>4. (d \in u.dormant <=> d \in s.dormant) => (d \in u.dormant) = (d \in s.dormant)
          OBVIOUS
        <5>5. k \in Keys(u) => <<u.room[d], d \in u.dormant>> = <<s.room[d], d \in s.dormant>>
          BY <5>1, <5>2, <5>3, <5>4
        <5> QED BY <4>1, <5>2, <5>5, KeyForms
      <4>3. CASE d = c
        <5>1. k \notin Keys(u)
          BY <2>4, <2>7, <4>1, <4>3 DEF Touches
        <5>2. d \notin Here(u)
          BY <1>2, <4>1, <5>1, KeyForms
        <5>3. d \notin Here(s)
          BY <2>7, <4>1, <5>2 DEF left
        <5> QED BY <4>1, <5>1, <5>3, KeyForms
      <4> QED BY <4>2, <4>3
    <3> QED BY <1>k, <2>7, <3>1, <3>2, <3>3
  <2>8. T \subseteq AllKeys /\ T \subseteq Keys(u)
    BY <1>2
  <2> QED BY <1>2, <1>4, <1>v, <2>6, <2>7, <2>8
<1> QED BY <1>6, <1>7

(* A key no tick in between has a record of is as it was. *)
LEMMA Untouched ==
  ASSUME WorldInv, NEW a \in 0..Len(hist), NEW b \in a..Len(hist), NEW k \in AllKeys,
         \A j \in (a + 1)..b : ~Writes(j, k)
  PROVE  Val(b, k) = Val(a, k)
<1> DEFINE S == {j \in a..b : Val(j, k) # Val(a, k)}
<1>1. Len(hist) \in Nat
  BY DEF WorldInv
<1>2. SUFFICES ASSUME S # {} PROVE FALSE
  BY <1>1
<1>3. S \in SUBSET Nat
  BY <1>1
<1>4. PICK n \in S : \A x \in S : n <= x
  BY <1>2, <1>3, LeastNatural
<1>5. n \in (a + 1)..b /\ n - 1 \in a..b /\ n \in 1..Len(hist) /\ n - 1 < n
  BY <1>1, <1>4
<1>6. Val(n - 1, k) = Val(a, k)
  BY <1>1, <1>4, <1>5
<1>7. Val(n, k) = Val(n - 1, k)
  BY <1>5, RecordsAreDifferences DEF Writes
<1> QED BY <1>4, <1>6, <1>7

--------------------------------------------------------------------------------
(* The World's ticks. *)

(* The history goes on: what a tick left, and its records, stay as they are. *)
HistGoesOn == hist' = hist \/ \E h \in TickRecords : hist' = Append(hist, h)

LEMMA HistoryStays ==
  ASSUME WorldInv, HistGoesOn
  PROVE  /\ Len(hist) \in Nat /\ Len(hist') \in Nat /\ Len(hist) <= Len(hist')
         /\ \A t \in 0..Len(hist) : World(t)' = World(t)
         /\ \A t \in 0..Len(hist), k \in AllKeys : Val(t, k)' = Val(t, k)
         /\ \A t \in 1..Len(hist), k \in AllKeys : Writes(t, k)' <=> Writes(t, k)
<1>1. /\ hist \in Seq(TickRecords) /\ Len(hist) \in Nat /\ Len(hist') \in Nat /\ Len(hist) <= Len(hist')
      /\ \A t \in 1..Len(hist) : hist'[t] = hist[t]
  <2>1. hist \in Seq(TickRecords) /\ Len(hist) \in Nat
    BY DEF WorldInv
  <2>2. CASE hist' = hist
    BY <2>1, <2>2
  <2>3. ASSUME NEW h \in TickRecords, hist' = Append(hist, h)
        PROVE  Len(hist') = Len(hist) + 1 /\ \A t \in 1..Len(hist) : hist'[t] = hist[t]
    BY <2>1, <2>3
  <2> QED BY <2>1, <2>2, <2>3 DEF HistGoesOn
<1>2. \A t \in 0..Len(hist) : World(t)' = World(t)
  BY <1>1 DEF World
<1>3. \A t \in 0..Len(hist), k \in AllKeys : Val(t, k)' = Val(t, k)
  BY <1>2 DEF Val
<1>4. ASSUME NEW t \in 1..Len(hist), NEW k \in AllKeys PROVE Writes(t, k)' <=> Writes(t, k)
  <2>1. World(t)' = World(t) /\ World(t - 1)' = World(t - 1) /\ hist'[t] = hist[t]
    BY <1>1, <1>2
  <2>2. Records(t)' = Records(t)
    BY <2>1 DEF Records, Render
  <2> QED BY <2>2 DEF Writes
<1> QED BY <1>1, <1>2, <1>3, <1>4

(* A tick after which the Zone is as it may be. *)
LEMMA TickKeepsWorld ==
  ASSUME WorldInv, Len(hist) < MaxTicks, NEW h \in TickRecords, hist' = Append(hist, h),
         h.st.rooms # {}, \A c \in Here(h.st) : h.st.room[c] \in h.st.rooms,
         h.st.dormant \subseteq Here(h.st), Whole(Now, h) \/ Part(Now, h)
  PROVE  WorldInv'
<1>1. hist \in Seq(TickRecords) /\ Len(hist) \in Nat /\ MaxTicks \in Nat
  BY ProjectorAssumption DEF WorldInv
<1>2. /\ hist' \in Seq(TickRecords) /\ Len(hist') = Len(hist) + 1
      /\ \A t \in 1..Len(hist) : hist'[t] = hist[t]
      /\ hist'[Len(hist) + 1] = h
  BY <1>1
<1>3. \A t \in 0..Len(hist) : World(t)' = World(t)
  BY <1>1, HistoryStays DEF HistGoesOn
<1>4. ASSUME NEW t \in 1..Len(hist')
      PROVE  /\ hist'[t].st.rooms # {}
             /\ \A c \in Here(hist'[t].st) : hist'[t].st.room[c] \in hist'[t].st.rooms
             /\ hist'[t].st.dormant \subseteq Here(hist'[t].st)
             /\ Whole(World(t - 1)', hist'[t]) \/ Part(World(t - 1)', hist'[t])
  <2>1. CASE t \in 1..Len(hist)
    <3>1. World(t - 1)' = World(t - 1) /\ hist'[t] = hist[t]
      BY <1>1, <1>2, <1>3, <2>1
    <3> QED BY <2>1, <3>1 DEF WorldInv
  <2>2. CASE t = Len(hist) + 1
    <3>1. World(t - 1)' = Now /\ hist'[t] = h
      BY <1>1, <1>2, <1>3, <2>2 DEF Now
    <3> QED BY <3>1
  <2> QED BY <1>1, <1>2, <2>1, <2>2
<1>5. \A t \in 1..Len(hist') : Whole(World(t - 1), hist[t])' \/ Part(World(t - 1), hist[t])'
  BY <1>4 DEF Whole, Part
<1> QED BY <1>1, <1>2, <1>4, <1>5 DEF WorldInv

LEMMA NowIs ==
  ASSUME WorldInv, Now.rooms # {} \/ Here(Now) # {}
  PROVE  /\ Now \in ZoneStates /\ Now.rooms # {} /\ Here(Now) \subseteq Chars
         /\ \A c \in Here(Now) : Now.room[c] \in Now.rooms
         /\ Now.dormant \subseteq Here(Now)
<1>1. Len(hist) \in Nat /\ Len(hist) \in 0..Len(hist)
  BY DEF WorldInv
<1>2. Len(hist) # 0
  BY <1>1, WorldIs DEF Now
<1>3. Len(hist) \in 1..Len(hist) /\ Now = hist[Len(hist)].st
  BY <1>1, <1>2 DEF Now, World
<1>4. hist[Len(hist)] \in TickRecords
  BY <1>3 DEF WorldInv
<1>5. Now \in ZoneStates
  BY <1>3, <1>4 DEF TickRecords
<1>6. Here(Now) \subseteq Chars
  BY <1>5 DEF ZoneStates, Here
<1> QED BY <1>3, <1>5, <1>6 DEF WorldInv

(* The keys an Event's tick touches. *)
LEMMA TouchesIs ==
  ASSUME NEW R \in SUBSET Rooms, NEW c \in Chars
  PROVE  Touches(R, c) \in SUBSET ({"zone", "room", "char", "all"} \X ({0} \cup Rooms \cup Chars))
BY DEF Touches

LEMMA RoomMap ==
  ASSUME NEW S \in SUBSET Chars, NEW f \in [S -> Rooms]
  PROVE  f \in UNION {[T -> Rooms] : T \in SUBSET Chars} /\ DOMAIN f = S
OBVIOUS

(* A tick of Events of one Character, which keep the Rooms. *)
LEMMA EventsKeep ==
  ASSUME WorldInv, NEW c \in Chars, NEW R \in SUBSET Rooms, NEW st \in ZoneStates,
         Len(hist) < MaxTicks, Now.rooms # {},
         hist' = Append(hist, [st |-> st, touched |-> Touches(R, c), swap |-> FALSE]),
         st.rooms = Now.rooms, st.faulted = Now.faulted, st.dormant \subseteq Here(st),
         \A d \in Here(st) : st.room[d] \in st.rooms,
         \A d \in Chars \ {c} :
           /\ d \in Here(st) <=> d \in Here(Now)
           /\ d \in Here(Now) => /\ st.room[d] = Now.room[d]
                                 /\ d \in st.dormant <=> d \in Now.dormant,
         \A r \in Rooms \ R : ~AwakeIn(Now, c, r) /\ ~AwakeIn(st, c, r)
  PROVE  WorldInv' /\ HistGoesOn
<1> DEFINE h == [st |-> st, touched |-> Touches(R, c), swap |-> FALSE]
<1>1. h \in TickRecords
  BY TouchesIs DEF TickRecords
<1>2. h.st = st /\ h.touched = Touches(R, c) /\ ~h.swap /\ hist' = Append(hist, h)
  OBVIOUS
<1> HIDE DEF h
<1>3. Part(Now, h)
  BY <1>2 DEF Part
<1> QED BY <1>1, <1>2, <1>3, TickKeepsWorld DEF HistGoesOn

(* A tick of the whole Zone, which keeps who is in it. *)
LEMMA WholeKeeps ==
  ASSUME WorldInv, NEW swap \in BOOLEAN, NEW touched, NEW st \in ZoneStates,
         touched \in SUBSET ({"zone", "room", "char", "all"} \X ({0} \cup Rooms \cup Chars)),
         Len(hist) < MaxTicks,
         hist' = Append(hist, [st |-> st, touched |-> touched, swap |-> swap]),
         swap \/ (<<"all", 0>> \in touched /\ st.rooms = Now.rooms),
         st.rooms # {}, st.dormant \subseteq Here(st), Here(st) = Here(Now),
         \A d \in Here(st) : st.room[d] \in st.rooms
  PROVE  WorldInv' /\ HistGoesOn
<1> DEFINE h == [st |-> st, touched |-> touched, swap |-> swap]
<1>1. h \in TickRecords
  BY DEF TickRecords
<1>2. h.st = st /\ h.touched = touched /\ h.swap = swap /\ hist' = Append(hist, h)
  OBVIOUS
<1> HIDE DEF h
<1>3. Whole(Now, h)
  BY <1>2 DEF Whole
<1> QED BY <1>1, <1>2, <1>3, TickKeepsWorld DEF HistGoesOn

LEMMA EntersKeeps ==
  ASSUME WorldInv, NEW c \in Chars, NEW r \in Rooms, Enters(c, r)
  PROVE  WorldInv' /\ HistGoesOn
<1> DEFINE f == [d \in Here(Now) \cup {c} |-> IF d = c THEN r ELSE Now.room[d]]
           st == [Now EXCEPT !.room = f]
<1>1. /\ c \notin Here(Now) /\ r \in Now.rooms /\ Len(hist) < MaxTicks
      /\ hist' = Append(hist, [st |-> st, touched |-> Touches({r}, c), swap |-> FALSE])
  BY DEF Enters, Ticks
<1>2. /\ Now \in ZoneStates /\ Now.rooms # {} /\ Here(Now) \subseteq Chars
      /\ \A d \in Here(Now) : Now.room[d] \in Now.rooms
      /\ Now.dormant \subseteq Here(Now)
  BY <1>1, NowIs
<1>3. Now.rooms \subseteq Rooms
  BY <1>2 DEF ZoneStates
<1>4. f \in [Here(Now) \cup {c} -> Rooms] /\ Here(Now) \cup {c} \in SUBSET Chars
  BY <1>2, <1>3
<1>5. f \in UNION {[T -> Rooms] : T \in SUBSET Chars} /\ DOMAIN f = Here(Now) \cup {c}
  BY <1>4, RoomMap
<1>6. f[c] = r /\ \A d \in Here(Now) : f[d] = Now.room[d]
  BY <1>1
<1> HIDE DEF f
<1>7. /\ st \in ZoneStates /\ st.room = f /\ st.rooms = Now.rooms /\ st.dormant = Now.dormant
      /\ st.faulted = Now.faulted
  BY <1>2, <1>5 DEF ZoneStates
<1>8. Here(st) = Here(Now) \cup {c}
  BY <1>5, <1>7 DEF Here
<1> HIDE DEF st
<1>9. \A d \in Chars \ {c} :
        /\ d \in Here(st) <=> d \in Here(Now)
        /\ d \in Here(Now) => /\ st.room[d] = Now.room[d]
                              /\ d \in st.dormant <=> d \in Now.dormant
  BY <1>6, <1>7, <1>8
<1>10. \A q \in Rooms \ {r} : ~AwakeIn(Now, c, q) /\ ~AwakeIn(st, c, q)
  BY <1>1, <1>6, <1>7 DEF AwakeIn
<1>11. /\ \A d \in Here(st) : st.room[d] \in st.rooms
       /\ st.dormant \subseteq Here(st)
  BY <1>1, <1>2, <1>6, <1>7, <1>8
<1>12. {r} \in SUBSET Rooms
  OBVIOUS
<1> QED BY <1>1, <1>2, <1>7, <1>9, <1>10, <1>11, <1>12, EventsKeep

LEMMA LeavesKeeps ==
  ASSUME WorldInv, NEW c \in Chars, Leaves(c)
  PROVE  WorldInv' /\ HistGoesOn
<1> DEFINE f == [d \in Here(Now) \ {c} |-> Now.room[d]]
           st == [Now EXCEPT !.room = f, !.dormant = Now.dormant \ {c}]
           R == {Now.room[c]}
<1>1. /\ c \in Here(Now) /\ Len(hist) < MaxTicks
      /\ hist' = Append(hist, [st |-> st, touched |-> Touches(R, c), swap |-> FALSE])
  BY DEF Leaves, Ticks
<1>2. /\ Now \in ZoneStates /\ Now.rooms # {} /\ Here(Now) \subseteq Chars
      /\ \A d \in Here(Now) : Now.room[d] \in Now.rooms
      /\ Now.dormant \subseteq Here(Now)
  BY <1>1, NowIs
<1>3. Now.rooms \subseteq Rooms
  BY <1>2 DEF ZoneStates
<1>4. f \in [Here(Now) \ {c} -> Rooms] /\ Here(Now) \ {c} \in SUBSET Chars
  BY <1>2, <1>3
<1>5. f \in UNION {[T -> Rooms] : T \in SUBSET Chars} /\ DOMAIN f = Here(Now) \ {c}
  BY <1>4, RoomMap
<1>6. \A d \in Here(Now) \ {c} : f[d] = Now.room[d]
  OBVIOUS
<1> HIDE DEF f
<1>7. /\ st \in ZoneStates /\ st.room = f /\ st.rooms = Now.rooms /\ st.dormant = Now.dormant \ {c}
      /\ st.faulted = Now.faulted
  BY <1>2, <1>5 DEF ZoneStates
<1>8. Here(st) = Here(Now) \ {c}
  BY <1>5, <1>7 DEF Here
<1> HIDE DEF st
<1>9. \A d \in Chars \ {c} :
        /\ d \in Here(st) <=> d \in Here(Now)
        /\ d \in Here(Now) => /\ st.room[d] = Now.room[d]
                              /\ d \in st.dormant <=> d \in Now.dormant
  BY <1>6, <1>7, <1>8
<1>10. \A q \in Rooms \ R : ~AwakeIn(Now, c, q) /\ ~AwakeIn(st, c, q)
  BY <1>8 DEF AwakeIn
<1>11. /\ \A d \in Here(st) : st.room[d] \in st.rooms
       /\ st.dormant \subseteq Here(st)
  BY <1>2, <1>6, <1>7, <1>8
<1>12. R \in SUBSET Rooms
  BY <1>1, <1>2, <1>3
<1> QED BY <1>1, <1>2, <1>7, <1>9, <1>10, <1>11, <1>12, EventsKeep

LEMMA MovesToKeeps ==
  ASSUME WorldInv, NEW c \in Chars, NEW r \in Rooms, MovesTo(c, r)
  PROVE  WorldInv' /\ HistGoesOn
<1> DEFINE f == [Now.room EXCEPT ![c] = r]
           st == [Now EXCEPT !.room[c] = r]
           R == {Now.room[c], r}
<1>1. /\ c \in Here(Now) /\ r \in Now.rooms /\ Len(hist) < MaxTicks
      /\ hist' = Append(hist, [st |-> st, touched |-> Touches(R, c), swap |-> FALSE])
  BY DEF MovesTo, Ticks
<1>2. /\ Now \in ZoneStates /\ Now.rooms # {} /\ Here(Now) \subseteq Chars
      /\ \A d \in Here(Now) : Now.room[d] \in Now.rooms
      /\ Now.dormant \subseteq Here(Now)
  BY <1>1, NowIs
<1>3. Now.rooms \subseteq Rooms /\ Now.room \in [Here(Now) -> Rooms]
  BY <1>2 DEF ZoneStates, Here
<1>4. f \in [Here(Now) -> Rooms] /\ Here(Now) \in SUBSET Chars
  BY <1>2, <1>3
<1>5. f \in UNION {[T -> Rooms] : T \in SUBSET Chars} /\ DOMAIN f = Here(Now)
  BY <1>4, RoomMap
<1>6. f[c] = r /\ \A d \in Here(Now) \ {c} : f[d] = Now.room[d]
  BY <1>1, <1>3
<1>7. /\ st \in ZoneStates /\ st.room = f /\ st.rooms = Now.rooms /\ st.dormant = Now.dormant
      /\ st.faulted = Now.faulted
  <2>1. st = [Now EXCEPT !.room = f]
    OBVIOUS
  <2> HIDE DEF f, st
  <2> QED BY <1>2, <1>5, <2>1 DEF ZoneStates
<1> HIDE DEF f
<1>8. Here(st) = Here(Now)
  BY <1>5, <1>7 DEF Here
<1> HIDE DEF st
<1>9. \A d \in Chars \ {c} :
        /\ d \in Here(st) <=> d \in Here(Now)
        /\ d \in Here(Now) => /\ st.room[d] = Now.room[d]
                              /\ d \in st.dormant <=> d \in Now.dormant
  BY <1>6, <1>7, <1>8
<1>10. \A q \in Rooms \ R : ~AwakeIn(Now, c, q) /\ ~AwakeIn(st, c, q)
  BY <1>6, <1>7 DEF AwakeIn
<1>11. /\ \A d \in Here(st) : st.room[d] \in st.rooms
       /\ st.dormant \subseteq Here(st)
  BY <1>1, <1>2, <1>6, <1>7, <1>8
<1>12. R \in SUBSET Rooms
  BY <1>1, <1>2, <1>3
<1> QED BY <1>1, <1>2, <1>7, <1>9, <1>10, <1>11, <1>12, EventsKeep

LEMMA DespawnsKeeps ==
  ASSUME WorldInv, NEW c \in Chars, Despawns(c)
  PROVE  WorldInv' /\ HistGoesOn
<1> DEFINE st == [Now EXCEPT !.dormant = Now.dormant \cup {c}]
           R == {Now.room[c]}
<1>1. /\ c \in Here(Now) /\ Len(hist) < MaxTicks
      /\ hist' = Append(hist, [st |-> st, touched |-> Touches(R, c), swap |-> FALSE])
  BY DEF Despawns, Ticks
<1>2. /\ Now \in ZoneStates /\ Now.rooms # {} /\ Here(Now) \subseteq Chars
      /\ \A d \in Here(Now) : Now.room[d] \in Now.rooms
      /\ Now.dormant \subseteq Here(Now)
  BY <1>1, NowIs
<1>3. Now.rooms \subseteq Rooms
  BY <1>2 DEF ZoneStates
<1>7. /\ st \in ZoneStates /\ st.room = Now.room /\ st.rooms = Now.rooms
      /\ st.dormant = Now.dormant \cup {c} /\ st.faulted = Now.faulted
  BY <1>2 DEF ZoneStates
<1>8. Here(st) = Here(Now)
  BY <1>7 DEF Here
<1> HIDE DEF st
<1>9. \A d \in Chars \ {c} :
        /\ d \in Here(st) <=> d \in Here(Now)
        /\ d \in Here(Now) => /\ st.room[d] = Now.room[d]
                              /\ d \in st.dormant <=> d \in Now.dormant
  BY <1>7, <1>8
<1>10. \A q \in Rooms \ R : ~AwakeIn(Now, c, q) /\ ~AwakeIn(st, c, q)
  BY <1>7 DEF AwakeIn
<1>11. /\ \A d \in Here(st) : st.room[d] \in st.rooms
       /\ st.dormant \subseteq Here(st)
  BY <1>1, <1>2, <1>7, <1>8
<1>12. R \in SUBSET Rooms
  BY <1>1, <1>2, <1>3
<1> QED BY <1>1, <1>2, <1>7, <1>9, <1>10, <1>11, <1>12, EventsKeep

LEMMA FaultsKeeps ==
  ASSUME WorldInv, Faults
  PROVE  WorldInv' /\ HistGoesOn
<1> DEFINE st == [Now EXCEPT !.faulted = TRUE]
<1>1. /\ Now.rooms # {} /\ Len(hist) < MaxTicks
      /\ hist' = Append(hist, [st |-> st, touched |-> {<<"all", 0>>}, swap |-> FALSE])
  BY DEF Faults, Ticks
<1>2. /\ Now \in ZoneStates /\ Now.rooms # {} /\ Here(Now) \subseteq Chars
      /\ \A d \in Here(Now) : Now.room[d] \in Now.rooms
      /\ Now.dormant \subseteq Here(Now)
  BY <1>1, NowIs
<1>3. /\ st \in ZoneStates /\ st.room = Now.room /\ st.rooms = Now.rooms
      /\ st.dormant = Now.dormant
  BY <1>2 DEF ZoneStates
<1>4. Here(st) = Here(Now)
  BY <1>3 DEF Here
<1> HIDE DEF st
<1>5. {<<"all", 0>>} \in SUBSET ({"zone", "room", "char", "all"} \X ({0} \cup Rooms \cup Chars))
  OBVIOUS
<1> QED BY <1>1, <1>2, <1>3, <1>4, <1>5, WholeKeeps

LEMMA SwapsKeeps ==
  ASSUME WorldInv, NEW S \in SUBSET Rooms, Swaps(S)
  PROVE  WorldInv' /\ HistGoesOn
<1> DEFINE f == [c \in Here(Now) |-> IF Now.room[c] \in S THEN Now.room[c] ELSE Fallback]
           st == [Now EXCEPT !.rooms = S, !.room = f]
<1>1. /\ Fallback \in S /\ Len(hist) < MaxTicks
      /\ hist' = Append(hist, [st |-> st, touched |-> {}, swap |-> TRUE])
  BY DEF Swaps, Ticks
<1>2. Now \in ZoneStates /\ Here(Now) \subseteq Chars /\ Now.dormant \subseteq Here(Now)
  <2>1. CASE Now.rooms # {} \/ Here(Now) # {}
    BY <2>1, NowIs
  <2>2. CASE Now.rooms = {} /\ Here(Now) = {}
    <3>1. Len(hist) \in Nat /\ Len(hist) \in 0..Len(hist)
      BY DEF WorldInv
    <3>2. Len(hist) = 0
      BY <2>2, <3>1, WorldIs DEF Now
    <3>3. Now = Empty
      BY <3>2 DEF Now, World
    <3>4. <<>> \in [{} -> Rooms] /\ {} \in SUBSET Chars
      OBVIOUS
    <3>5. <<>> \in UNION {[T -> Rooms] : T \in SUBSET Chars}
      BY <3>4, RoomMap
    <3>6. Empty \in ZoneStates
      BY <3>5 DEF Empty, ZoneStates
    <3> QED BY <2>2, <3>3, <3>6 DEF Empty
  <2> QED BY <2>1, <2>2
<1>4. f \in [Here(Now) -> Rooms] /\ Here(Now) \in SUBSET Chars
  BY <1>1, <1>2
<1>5. f \in UNION {[T -> Rooms] : T \in SUBSET Chars} /\ DOMAIN f = Here(Now)
  BY <1>4, RoomMap
<1>6. \A d \in Here(Now) : f[d] \in S
  BY <1>1
<1> HIDE DEF f
<1>8. /\ st \in ZoneStates /\ st.room = f /\ st.rooms = S /\ st.dormant = Now.dormant
  BY <1>2, <1>5 DEF ZoneStates
<1>9. Here(st) = Here(Now)
  BY <1>5, <1>8 DEF Here
<1> HIDE DEF st
<1>10. {} \in SUBSET ({"zone", "room", "char", "all"} \X ({0} \cup Rooms \cup Chars))
  OBVIOUS
<1>11. st.rooms # {} /\ \A d \in Here(st) : st.room[d] \in st.rooms
  BY <1>1, <1>6, <1>8, <1>9
<1> QED BY <1>1, <1>2, <1>8, <1>9, <1>10, <1>11, WholeKeeps

--------------------------------------------------------------------------------
(* The projector's steps. *)

(* The history as it was. *)
LEMMA SameHistory ==
  ASSUME hist' = hist
  PROVE  /\ \A t : World(t)' = World(t) /\ Records(t)' = Records(t)
         /\ \A t, k : Val(t, k)' = Val(t, k) /\ (Writes(t, k)' <=> Writes(t, k))
         /\ WorldInv => WorldInv'
<1>1. \A t : World(t)' = World(t)
  BY DEF World
<1>2. \A t : Records(t)' = Records(t)
  BY <1>1 DEF Records, Render
<1>3. \A t, k : Val(t, k)' = Val(t, k) /\ (Writes(t, k)' <=> Writes(t, k))
  BY <1>1, <1>2 DEF Val, Writes
<1>4. WorldInv => WorldInv'
  BY DEF WorldInv, World, Whole, Part
<1> QED BY <1>1, <1>2, <1>3, <1>4

(* The World goes on, and a snapshot round may come: the projector's state is kept. *)
LEMMA WorldGoesOn ==
  ASSUME ProjectorInv, WorldInv', HistGoesOn, snapRound' \in 0..Len(hist'),
         UNCHANGED <<state, cp, stage, at, silent, projected, rendered, out, diverges, high,
                     projectorFaults>>
  PROVE  ProjectorInv'
<1> USE DEF ProjectorInv
<1>1. /\ Len(hist) \in Nat /\ Len(hist') \in Nat /\ Len(hist) <= Len(hist')
      /\ \A t \in 0..Len(hist) : World(t)' = World(t)
      /\ \A t \in 0..Len(hist), k \in AllKeys : Val(t, k)' = Val(t, k)
      /\ \A t \in 1..Len(hist), k \in AllKeys : Writes(t, k)' <=> Writes(t, k)
  BY HistoryStays
<1>2. /\ at \in 0..Len(hist) /\ high \in 0..Len(hist) /\ cp.tick \in 0..Len(hist)
      /\ 0..Len(hist) \subseteq 0..Len(hist')
  BY <1>1 DEF ProjectionInv
<1>3. ProjectionInv'
  <2>1. cp' \in [committed : BOOLEAN, tick : 0..Len(hist'), diverged : BOOLEAN]
    BY <1>2 DEF ProjectionInv
  <2>2. World(at)' = World(at)
    BY <1>1, <1>2
  <2>3. stage' # "down" => projected' = Here(World(at)') /\ rendered' = World(at)'.rooms
    BY <2>2 DEF ProjectionInv
  <2> QED BY <1>2, <2>1, <2>3 DEF ProjectionInv, Newer, Here
<1>4. \A k : OnTopic(k)' = OnTopic(k)
  BY DEF OnTopic
<1>5. \A b \in 0..Len(hist), k \in AllKeys :
        (OnTopic(k)' = Val(b, k)' \/ \E j \in (b + 1)..high : Writes(j, k)') <=> AsOf(b, k)
  BY <1>1, <1>2, <1>4 DEF AsOf
<1>6. CheckpointInv'
  BY <1>2, <1>5 DEF CheckpointInv, AsOf
<1>7. DumpInv'
  BY <1>1, <1>2, <1>4 DEF DumpInv
<1>8. BatchInv'
  <2>1. SUFFICES ASSUME stage = "batch"
        PROVE /\ \A t \in DOMAIN out : \A k \in DOMAIN out[t] : k \in AllKeys /\ Writes(t, k)'
              /\ \A k \in AllKeys :
                   \/ OnTopic(k)' = Val(at, k)' \/ (\E j \in (at + 1)..high : Writes(j, k)')
                   \/ \E t \in DOMAIN out : k \in DOMAIN out[t]
              /\ \A t \in DOMAIN out : \A k \in DOMAIN out[t] :
                   \/ out[t][k] = Val(at, k)'
                   \/ \E u \in DOMAIN out : u > t /\ k \in DOMAIN out[u]
    BY DEF BatchInv, AsOf
  <2>2. \A t \in DOMAIN out : t \in 1..Len(hist)
    BY <1>1, <1>2, <2>1 DEF BatchInv
  <2>3. \A t \in DOMAIN out : \A k \in DOMAIN out[t] : k \in AllKeys /\ Writes(t, k)'
    BY <1>1, <2>1, <2>2 DEF BatchInv
  <2>4. \A k \in AllKeys :
                   \/ OnTopic(k)' = Val(at, k)' \/ (\E j \in (at + 1)..high : Writes(j, k)')
                   \/ \E t \in DOMAIN out : k \in DOMAIN out[t]
    BY <1>2, <1>5, <2>1 DEF BatchInv
  <2>5. \A t \in DOMAIN out : \A k \in DOMAIN out[t] :
                   \/ out[t][k] = Val(at, k)'
                   \/ \E u \in DOMAIN out : u > t /\ k \in DOMAIN out[u]
    BY <1>1, <1>2, <2>1 DEF BatchInv
  <2> QED BY <2>3, <2>4, <2>5
<1> QED BY <1>3, <1>6, <1>7, <1>8

(* The checkpoint holds what it did while nothing lands and high does not go back. *)
LEMMA CheckpointStays ==
  ASSUME ProjectorInv, hist' = hist, state' = state, high' \in Nat, high <= high',
         cp' = cp \/ ~cp'.committed \/ cp'.diverged
  PROVE  CheckpointInv'
<1>1. \A t, k : Val(t, k)' = Val(t, k) /\ (Writes(t, k)' <=> Writes(t, k))
  BY SameHistory
<1>2. cp.tick \in Nat /\ high \in Nat /\ Len(hist) \in Nat
  BY DEF ProjectorInv, ProjectionInv, WorldInv
<1>3. ASSUME cp' = cp, cp.committed, ~cp.diverged, NEW k \in AllKeys PROVE AsOf(cp.tick, k)'
  <2>1. AsOf(cp.tick, k)
    BY <1>3 DEF ProjectorInv, CheckpointInv
  <2>2. CASE OnTopic(k) = Val(cp.tick, k)
    BY <1>1, <1>3, <2>2 DEF AsOf, OnTopic
  <2>3. CASE \E j \in (cp.tick + 1)..high : Writes(j, k)
    <3>1. \E j \in (cp.tick + 1)..high' : Writes(j, k)'
      BY <1>1, <1>2, <2>3
    <3> QED BY <1>3, <3>1 DEF AsOf
  <2> QED BY <2>1, <2>2, <2>3 DEF AsOf
<1> QED BY <1>3 DEF ProjectorInv, CheckpointInv

LEMMA NewerIs ==
  ASSUME NEW a \in Nat, NEW b \in Nat
  PROVE  Newer(a, b) \in {a, b} /\ a <= Newer(a, b) /\ b <= Newer(a, b)
BY DEF Newer

LEMMA BootKeeps ==
  ASSUME ProjectorInv, NEW rebuild \in BOOLEAN, NEW fromZero \in BOOLEAN, Boot(rebuild, fromZero)
  PROVE  ProjectorInv'
<1>0. PICK c, t : c = ReadCheckpoint(rebuild) /\ t = BootEngine(fromZero)
  OBVIOUS
<1>1. WorldInv /\ ProjectionInv /\ CheckpointInv /\ Len(hist) \in Nat
  BY DEF ProjectorInv, WorldInv
<1>2. /\ hist' = hist /\ snapRound' = snapRound /\ state' = state /\ diverges' = FALSE
      /\ cp' = c /\ at' = t /\ projected' = Here(World(t)) /\ rendered' = World(t).rooms
      /\ rebuild \/ ~cp.diverged
      /\ projectorFaults' \in 0..MaxProjectorFaults
  BY <1>0, <1>1, ProjectorAssumption DEF Boot, CanFail, ProjectionInv
<1>3. /\ t \in 0..Len(hist) /\ high \in 0..Len(hist)
      /\ c \in [committed : BOOLEAN, tick : 0..Len(hist), diverged : BOOLEAN]
      /\ ~c.diverged /\ (c = cp \/ ~c.committed)
  BY <1>0, <1>1, <1>2 DEF ProjectionInv, ReadCheckpoint, NoCheckpoint, BootEngine
<1>4. \/ (/\ c.committed /\ c.tick >= t /\ silent' = c.tick /\ stage' = "idle" /\ out' = out /\ high' = high)
      \/ (/\ ~(c.committed /\ c.tick >= t) /\ silent' = 0 /\ stage' = "dump"
          /\ out' = [u \in {t} |-> Over(Dump(World(t)), ProjectorReconcile(World(t)))]
          /\ high' = Newer(high, t))
  BY <1>0 DEF Boot, Covered
<1>5. /\ World(t)' = World(t) /\ WorldInv' /\ World(t).rooms \subseteq Rooms
      /\ Here(World(t)) \subseteq Chars /\ Keys(World(t)) \subseteq AllKeys
  BY <1>1, <1>2, <1>3, SameHistory, WorldIs
<1>6. high' \in 0..Len(hist) /\ high <= high' /\ (stage' = "dump" => t <= high')
  BY <1>1, <1>3, <1>4, NewerIs
<1>7. ProjectionInv'
  <2>1. silent' \in 0..Len(hist) /\ stage' \in {"idle", "dump"}
    BY <1>1, <1>3, <1>4
  <2>2. stage' = "idle" => c.committed /\ c.tick = Newer(t, silent')
    BY <1>1, <1>3, <1>4 DEF Newer
  <2>3. projected' = Here(World(at)') /\ rendered' = World(at)'.rooms
    BY <1>2, <1>5 DEF World
  <2>4. snapRound \in 0..Len(hist)
    BY <1>1 DEF ProjectionInv
  <2>5. stage' = "idle" => cp'.tick = Newer(at', silent')
    BY <1>2, <2>2
  <2> QED BY <1>2, <1>3, <1>5, <1>6, <2>1, <2>2, <2>3, <2>4, <2>5 DEF ProjectionInv, Here, Newer
<1>8. CheckpointInv'
  BY <1>2, <1>3, <1>6, CheckpointStays
<1>9. DumpInv'
  <2> SUFFICES ASSUME stage' = "dump" PROVE DumpInv'
    BY DEF DumpInv
  <2> DEFINE f == Over(Dump(World(t)), ProjectorReconcile(World(t)))
  <2>1. DOMAIN out' = {t} /\ out'[t] = f /\ silent' = 0 /\ (c.committed => c.tick < t)
    BY <1>1, <1>3, <1>4
  <2>2. /\ DOMAIN f = Keys(World(t)) \cup DOMAIN state
        /\ \A k \in DOMAIN f : f[k] = IF k \in Keys(World(t)) THEN Body(World(t), k) ELSE Gone
    BY DEF Over, Dump, ProjectorReconcile, Tombstones, ReadKeys
  <2> HIDE DEF f
  <2>3. \A k : Val(t, k)' = IF k \in Keys(World(t)) THEN Body(World(t), k) ELSE Gone
    BY <1>5 DEF Val
  <2>4. DOMAIN f \subseteq AllKeys
    BY <1>1, <1>5, <2>2 DEF CheckpointInv
  <2>5. \A k \in AllKeys : IF k \in DOMAIN f THEN f[k] = Val(t, k)' ELSE OnTopic(k)' = Val(t, k)'
    BY <1>2, <2>2, <2>3 DEF OnTopic
  <2>6. \A k : Val(at, k)' = Val(t, k)'
    BY <1>2 DEF Val, World
  <2> QED BY <1>2, <1>3, <1>6, <2>1, <2>4, <2>5, <2>6 DEF DumpInv
<1>10. BatchInv'
  BY <1>4 DEF BatchInv
<1> QED BY <1>5, <1>7, <1>8, <1>9, <1>10 DEF ProjectorInv

(* The ticks a replay produces are the ones after the checkpoint, and their records are *)
(* rendered from what the tick before left. *)
LEMMA ReplayedRecords ==
  ASSUME ProjectorInv, stage = "idle", NEW n \in Nat, at + n <= Len(hist)
  PROVE  /\ {t \in at + 1 .. at + n : t > silent} = (cp.tick + 1)..(at + n)
         /\ \A S \in SUBSET ((at + 1)..(at + n)) :
              DOMAIN Rendered(S) = S /\ \A t \in S : Rendered(S)[t] = Records(t)
<1>1. /\ at \in Nat /\ silent \in Nat /\ cp.tick = Newer(at, silent)
      /\ projected = Here(World(at)) /\ rendered = World(at).rooms
  BY DEF ProjectorInv, ProjectionInv, WorldInv
<1>2. {t \in at + 1 .. at + n : t > silent} = (cp.tick + 1)..(at + n)
  BY <1>1 DEF Newer
<1>3. (at + 1) - 1 = at
  BY <1>1
<1>4. Records(at + 1) = Render(at + 1, projected, rendered)
  BY <1>1, <1>3 DEF Records
<1>5. \A S : DOMAIN Rendered(S) = S /\ \A t \in S : Rendered(S)[t] = Records(t)
  BY <1>4 DEF Rendered, Records
<1> QED BY <1>2, <1>5

LEMMA ReplayKeeps ==
  ASSUME ProjectorInv, NEW n \in 0..BatchTicks, NEW bad \in BOOLEAN, Replay(n, bad)
  PROVE  ProjectorInv'
<1>0. PICK e, b : e = at + n /\ b = cp.tick
  OBVIOUS
<1>1. WorldInv /\ ProjectionInv /\ CheckpointInv /\ Len(hist) \in Nat /\ n \in Nat /\ stage = "idle"
  BY ProjectorAssumption DEF ProjectorInv, WorldInv, Replay
<1>2. /\ at \in Nat /\ silent \in 0..Len(hist) /\ high \in 0..Len(hist) /\ b \in 0..Len(hist)
      /\ b = Newer(at, silent) /\ cp.committed /\ ~cp.diverged
  BY <1>0, <1>1 DEF ProjectionInv
<1>3. /\ hist' = hist /\ snapRound' = snapRound /\ state' = state /\ cp' = cp /\ silent' = silent
      /\ at' = e /\ diverges' = bad
      /\ projected' = Here(World(e)) /\ rendered' = World(e).rooms
      /\ e \in 0..Len(hist) /\ e >= at /\ (bad \/ n # 0)
      /\ projectorFaults' \in 0..MaxProjectorFaults
  <2>1. /\ hist' = hist /\ snapRound' = snapRound /\ state' = state /\ cp' = cp /\ silent' = silent
        /\ at' = e /\ diverges' = bad
        /\ projected' = Here(World(e)) /\ rendered' = World(e).rooms
    BY <1>0 DEF Replay
  <2>2. e \in 0..Len(hist) /\ e >= at /\ (bad \/ n # 0)
    BY <1>0, <1>1, <1>2, ProjectorAssumption DEF Replay
  <2>3. projectorFaults' \in 0..MaxProjectorFaults
    BY <1>1, ProjectorAssumption, SMTT(30) DEF Replay, CanFail, ProjectionInv
  <2> QED BY <2>1, <2>2, <2>3
<1>4. PICK loud : loud = {t \in at + 1 .. at + n : t > silent}
  OBVIOUS
<1>5. /\ out' = Rendered(loud)
      /\ stage' = (IF loud # {} THEN "batch" ELSE IF bad THEN "halting" ELSE "idle")
      /\ high' = (IF loud # {} THEN Newer(high, e) ELSE high)
  BY <1>0, <1>4 DEF Replay
<1>6. /\ loud = (b + 1)..e
      /\ DOMAIN out' = loud /\ \A t \in loud : out'[t] = Records(t)
  <2>1. at + n <= Len(hist)
    BY <1>0, <1>3
  <2>2. loud = (cp.tick + 1)..(at + n) /\ loud \in SUBSET ((at + 1)..(at + n))
    BY <1>1, <1>4, <2>1, ReplayedRecords
  <2> QED BY <1>0, <1>1, <1>5, <2>1, <2>2, ReplayedRecords
<1>7. /\ WorldInv' /\ World(e)' = World(e) /\ World(e).rooms \subseteq Rooms /\ Here(World(e)) \subseteq Chars
      /\ \A t, k : Val(t, k)' = Val(t, k) /\ (Writes(t, k)' <=> Writes(t, k))
  BY <1>1, <1>3, SameHistory, WorldIs
<1>8. high' \in 0..Len(hist) /\ high <= high' /\ (loud # {} => e <= high')
  BY <1>1, <1>2, <1>3, <1>5, NewerIs
<1>9. loud # {} => b < e
  BY <1>2, <1>3, <1>6
<1>10. ProjectionInv'
  <2>1. ASSUME stage' = "idle" PROVE b = Newer(e, silent)
    <3>1. loud = {} /\ n # 0 /\ ~bad
      BY <1>3, <1>5, <2>1
    <3>2. e <= b
      BY <1>2, <1>3, <1>6, <3>1
    <3>3. at < e
      BY <1>0, <1>1, <1>2, <3>1
    <3> QED BY <1>1, <1>2, <1>3, <3>2, <3>3 DEF Newer
  <2>2. projected' = Here(World(at)') /\ rendered' = World(at)'.rooms
    BY <1>3, <1>7 DEF World
  <2>3. stage' \in {"idle", "batch", "halting"}
    BY <1>5
  <2>4. snapRound \in 0..Len(hist) /\ cp \in [committed : BOOLEAN, tick : 0..Len(hist), diverged : BOOLEAN]
    BY <1>1 DEF ProjectionInv
  <2>5. stage' = "idle" => cp'.tick = Newer(at', silent')
    BY <1>0, <1>3, <2>1
  <2> QED BY <1>2, <1>3, <1>7, <1>8, <2>2, <2>3, <2>4, <2>5 DEF ProjectionInv, Here, Newer
<1>11. CheckpointInv'
  BY <1>3, <1>8, CheckpointStays
<1>12. DumpInv'
  BY <1>5 DEF DumpInv
<1>13. BatchInv'
  <2> SUFFICES ASSUME stage' = "batch" PROVE BatchInv'
    BY DEF BatchInv
  <2>1. loud # {} /\ b < e /\ e <= high'
    BY <1>5, <1>8, <1>9
  <2>2. \A t \in loud : t \in 1..Len(hist)
    BY <1>2, <1>3, <1>6
  <2>3. \A t \in loud : \A k \in DOMAIN out'[t] : k \in AllKeys /\ Writes(t, k)
    BY <1>1, <1>6, <2>2, RecordsAreDifferences DEF Writes
  <2>4. \A t \in loud : \A k : Writes(t, k) => k \in DOMAIN out'[t]
    BY <1>6 DEF Writes
  <2>5. ASSUME NEW k \in AllKeys, \A t \in loud : k \notin DOMAIN out'[t]
        PROVE  OnTopic(k) = Val(e, k) \/ \E j \in (e + 1)..high' : Writes(j, k)
    <3>1. \A j \in (b + 1)..e : ~Writes(j, k)
      BY <1>6, <2>4, <2>5
    <3>2. Val(e, k) = Val(b, k)
      BY <1>1, <1>2, <1>3, <2>1, <3>1, Untouched
    <3>3. OnTopic(k) = Val(b, k) \/ \E j \in (b + 1)..high : Writes(j, k)
      BY <1>0, <1>1, <1>2 DEF CheckpointInv, AsOf
    <3>4. ASSUME NEW j \in (b + 1)..high, Writes(j, k) PROVE j \in (e + 1)..high'
      BY <1>2, <1>3, <1>8, <3>1, <3>4
    <3> QED BY <3>2, <3>3, <3>4
  <2>6. ASSUME NEW t \in loud, NEW k \in DOMAIN out'[t],
               \A u \in loud : u > t => k \notin DOMAIN out'[u]
        PROVE  out'[t][k] = Val(e, k)
    <3>1. t \in 1..Len(hist) /\ k \in AllKeys
      BY <2>2, <2>3, <2>6
    <3>2. out'[t][k] = Val(t, k)
      BY <1>1, <1>6, <2>6, <3>1, RecordsAreDifferences
    <3>3. \A j \in (t + 1)..e : ~Writes(j, k)
      <4>1. ASSUME NEW j \in (t + 1)..e PROVE j \in loud /\ j > t
        BY <1>2, <1>3, <1>6, <3>1
      <4> QED BY <2>4, <2>6, <4>1
    <3>4. t \in 0..Len(hist) /\ e \in t..Len(hist)
      BY <1>2, <1>3, <1>6, <3>1
    <3>5. Val(e, k) = Val(t, k)
      BY <1>1, <3>1, <3>3, <3>4, Untouched
    <3> QED BY <3>2, <3>5
  <2>7. e <= high' /\ silent <= e /\ loud \subseteq (b + 1)..e
    BY <1>1, <1>2, <1>3, <1>6, <2>1, NewerIs
  <2>8. \A k : /\ Val(at, k)' = Val(e, k) /\ OnTopic(k)' = OnTopic(k)
    BY <1>3, <1>7 DEF Val, World, OnTopic
  <2>9. \A k \in AllKeys : AsOf(at, k)' \/ \E t \in DOMAIN out' : k \in DOMAIN out'[t]
    BY <1>3, <1>6, <1>7, <2>5, <2>8 DEF AsOf
  <2>10. \A t \in DOMAIN out' : \A k \in DOMAIN out'[t] :
           \/ out'[t][k] = Val(at, k)'
           \/ \E u \in DOMAIN out' : u > t /\ k \in DOMAIN out'[u]
    BY <1>6, <2>6, <2>8
  <2>11. \A t \in DOMAIN out' : \A k \in DOMAIN out'[t] : k \in AllKeys /\ Writes(t, k)'
    BY <1>6, <1>7, <2>3
  <2> QED BY <1>0, <1>3, <1>6, <2>7, <2>9, <2>10, <2>11 DEF BatchInv
<1> QED BY <1>7, <1>10, <1>11, <1>12, <1>13 DEF ProjectorInv

(* One more record on the topic. *)
LEMMA LandedIs ==
  ASSUME CheckpointInv, NEW k \in AllKeys, NEW body, state' = Landed(k, body)
  PROVE  /\ OnTopic(k)' = body
         /\ \A j : j # k => OnTopic(j)' = OnTopic(j)
         /\ state' = [j \in DOMAIN state' |-> state'[j]]
         /\ DOMAIN state' \subseteq AllKeys /\ \A j \in DOMAIN state' : state'[j] # Gone
<1>1. CASE body = Gone
  <2>1. state' = [j \in DOMAIN state \ {k} |-> state[j]]
    BY <1>1 DEF Landed
  <2> QED BY <1>1, <2>1 DEF OnTopic, CheckpointInv
<1>2. CASE body # Gone
  <2>1. state' = [j \in DOMAIN state \cup {k} |-> IF j = k THEN body ELSE state[j]]
    BY <1>2 DEF Landed
  <2> QED BY <1>2, <2>1 DEF OnTopic, CheckpointInv
<1> QED BY <1>1, <1>2

LEMMA BatchLandsKeeps ==
  ASSUME ProjectorInv, BatchLands
  PROVE  ProjectorInv'
<1>1. PICK t \in DOMAIN out : \E k \in DOMAIN out[t] :
        /\ \A u \in DOMAIN out : u < t => DOMAIN out[u] = {}
        /\ state' = Landed(k, out[t][k])
        /\ out' = [out EXCEPT ![t] = [j \in DOMAIN @ \ {k} |-> @[j]]]
  BY DEF BatchLands
<1>2. PICK k \in DOMAIN out[t] :
        /\ \A u \in DOMAIN out : u < t => DOMAIN out[u] = {}
        /\ state' = Landed(k, out[t][k])
        /\ out' = [out EXCEPT ![t] = [j \in DOMAIN @ \ {k} |-> @[j]]]
  BY <1>1
<1>3. /\ stage \in {"dump", "batch"} /\ hist' = hist /\ snapRound' = snapRound /\ cp' = cp
      /\ stage' = stage /\ at' = at /\ silent' = silent /\ projected' = projected
      /\ rendered' = rendered /\ diverges' = diverges /\ high' = high
      /\ projectorFaults' = projectorFaults
  BY DEF BatchLands
<1>4. WorldInv /\ ProjectionInv /\ CheckpointInv /\ DumpInv /\ BatchInv /\ Len(hist) \in Nat
  BY DEF ProjectorInv, WorldInv
<1>5. /\ WorldInv' /\ \A u : World(u)' = World(u)
      /\ \A u, j : Val(u, j)' = Val(u, j) /\ (Writes(u, j)' <=> Writes(u, j))
  BY <1>3, <1>4, SameHistory
<1>6. k \in AllKeys /\ at \in 0..Len(hist) /\ high \in 0..Len(hist) /\ cp.tick \in 0..Len(hist)
  BY <1>1, <1>3, <1>4 DEF DumpInv, BatchInv, ProjectionInv
<1>7. /\ OnTopic(k)' = out[t][k] /\ \A j : j # k => OnTopic(j)' = OnTopic(j)
      /\ state' = [j \in DOMAIN state' |-> state'[j]]
      /\ DOMAIN state' \subseteq AllKeys /\ \A j \in DOMAIN state' : state'[j] # Gone
  BY <1>2, <1>4, <1>6, LandedIs
<1>8. /\ DOMAIN out' = DOMAIN out
      /\ \A u \in DOMAIN out : /\ DOMAIN out'[u] = IF u = t THEN DOMAIN out[t] \ {k} ELSE DOMAIN out[u]
                               /\ \A j \in DOMAIN out'[u] : out'[u][j] = out[u][j]
  BY <1>1, <1>2
<1>9. ProjectionInv'
  <2>1. World(at)' = World(at)
    BY <1>3 DEF World
  <2>2. stage # "down" => projected' = Here(World(at)') /\ rendered' = World(at)'.rooms
    BY <1>3, <1>4, <2>1 DEF ProjectionInv
  <2> QED BY <1>3, <1>4, <2>2 DEF ProjectionInv, Here, Newer
<1>10. \A b, j : AsOf(b, j) /\ j # k =>
          OnTopic(j)' = Val(b, j)' \/ \E i \in (b + 1)..high' : Writes(i, j)'
  BY <1>3, <1>5, <1>7 DEF AsOf
<1>11. CheckpointInv'
  <2>1. ASSUME cp.committed, ~cp.diverged
        PROVE  OnTopic(k)' = Val(cp.tick, k) \/ \E i \in (cp.tick + 1)..high : Writes(i, k)
    <3>1. CASE stage = "dump"
      <4>1. t = at /\ out[t][k] = Val(at, k) /\ cp.tick < at /\ at <= high
        BY <1>1, <1>4, <1>6, <2>1, <3>1 DEF DumpInv
      <4>2. CASE \A i \in (cp.tick + 1)..at : ~Writes(i, k)
        <5>1. Val(at, k) = Val(cp.tick, k)
          BY <1>4, <1>6, <4>1, <4>2, Untouched
        <5> QED BY <1>7, <4>1, <5>1
      <4>3. CASE \E i \in (cp.tick + 1)..at : Writes(i, k)
        BY <1>6, <4>1, <4>3
      <4> QED BY <4>2, <4>3
    <3>2. CASE stage = "batch"
      <4>1. t \in (cp.tick + 1)..at /\ Writes(t, k) /\ at <= high
        BY <1>1, <1>4, <3>2 DEF BatchInv
      <4> QED BY <1>6, <4>1
    <3> QED BY <1>3, <3>1, <3>2
  <2>2. ASSUME cp.committed, ~cp.diverged, NEW j \in AllKeys
        PROVE  OnTopic(j)' = Val(cp.tick, j)' \/ \E i \in (cp.tick + 1)..high' : Writes(i, j)'
    <3>1. CASE j = k
      BY <1>3, <1>5, <2>1, <2>2, <3>1
    <3>2. CASE j # k
      <4>1. AsOf(cp.tick, j)
        BY <1>4, <2>2 DEF CheckpointInv
      <4>2. OnTopic(j)' = Val(cp.tick, j) \/ \E i \in (cp.tick + 1)..high : Writes(i, j)
        BY <1>7, <3>2, <4>1 DEF AsOf
      <4>3. Val(cp.tick, j)' = Val(cp.tick, j)
        BY <1>3, <1>5 DEF Val, World
      <4> QED BY <1>3, <1>5, <4>2, <4>3
    <3> QED BY <3>1, <3>2
  <2>3. cp'.committed /\ ~cp'.diverged => \A j \in AllKeys : AsOf(cp.tick, j)'
    BY <1>3, <2>2 DEF AsOf
  <2> QED BY <1>7, <2>3 DEF CheckpointInv
<1>12. DumpInv'
  <2> SUFFICES ASSUME stage = "dump" PROVE DumpInv'
    BY <1>3 DEF DumpInv
  <2>1. /\ at <= high /\ silent = 0 /\ DOMAIN out = {at} /\ ~diverges
        /\ ~cp.diverged /\ (cp.committed => cp.tick < at) /\ DOMAIN out[at] \subseteq AllKeys
    BY <1>4 DEF DumpInv
  <2>2. \A j \in AllKeys : IF j \in DOMAIN out[at] THEN out[at][j] = Val(at, j) ELSE OnTopic(j) = Val(at, j)
    BY <1>4 DEF DumpInv
  <2>3. t = at /\ DOMAIN out'[at] = DOMAIN out[at] \ {k}
    BY <1>1, <1>8, <2>1
  <2>4. \A j : Val(at, j)' = Val(at, j)
    BY <1>3, <1>5 DEF Val, World
  <2>5. \A j \in AllKeys : IF j \in DOMAIN out'[at] THEN out'[at][j] = Val(at, j)' ELSE OnTopic(j)' = Val(at, j)'
    BY <1>7, <1>8, <2>1, <2>2, <2>3, <2>4
  <2> QED BY <1>3, <1>8, <2>1, <2>3, <2>5 DEF DumpInv
<1>13. BatchInv'
  <2> SUFFICES ASSUME stage = "batch" PROVE BatchInv'
    BY <1>3 DEF BatchInv
  <2>1. /\ at <= high /\ silent <= at /\ DOMAIN out \subseteq (cp.tick + 1)..at
        /\ \A u \in DOMAIN out : \A j \in DOMAIN out[u] : j \in AllKeys /\ Writes(u, j)
    BY <1>4 DEF BatchInv
  <2>2. \A j \in AllKeys : AsOf(at, j) \/ \E u \in DOMAIN out : j \in DOMAIN out[u]
    BY <1>4 DEF BatchInv
  <2>3. \A u \in DOMAIN out : \A j \in DOMAIN out[u] :
          \/ out[u][j] = Val(at, j)
          \/ \E v \in DOMAIN out : v > u /\ j \in DOMAIN out[v]
    BY <1>4 DEF BatchInv
  <2>4. \A u \in DOMAIN out : u \in Int
    BY <1>6, <2>1
  <2>5. \A j : Val(at, j)' = Val(at, j)
    BY <1>3, <1>5 DEF Val, World
  <2>6. \A u \in DOMAIN out' : \A j \in DOMAIN out'[u] : j \in AllKeys /\ Writes(u, j)'
    BY <1>5, <1>8, <2>1
  <2>7. ASSUME NEW j \in AllKeys
        PROVE  \/ OnTopic(j)' = Val(at, j) \/ \E i \in (at + 1)..high : Writes(i, j)
               \/ \E u \in DOMAIN out' : j \in DOMAIN out'[u]
    <3>1. CASE j = k
      <4>1. CASE out[t][k] = Val(at, k)
        BY <1>7, <3>1, <4>1
      <4>2. CASE \E v \in DOMAIN out : v > t /\ k \in DOMAIN out[v]
        <5>1. PICK v \in DOMAIN out : v > t /\ k \in DOMAIN out[v]
          BY <4>2
        <5>2. v # t
          BY <2>4, <5>1
        <5> QED BY <1>8, <3>1, <5>1, <5>2
      <4> QED BY <1>1, <1>2, <2>3, <4>1, <4>2
    <3>2. CASE j # k
      BY <1>7, <1>8, <2>2, <3>2 DEF AsOf
    <3> QED BY <3>1, <3>2
  <2>8. ASSUME NEW u \in DOMAIN out', NEW j \in DOMAIN out'[u]
        PROVE  out'[u][j] = Val(at, j) \/ \E v \in DOMAIN out' : v > u /\ j \in DOMAIN out'[v]
    <3>1. u \in DOMAIN out /\ j \in DOMAIN out[u] /\ out'[u][j] = out[u][j]
      BY <1>8, <2>8
    <3>2. ASSUME NEW v \in DOMAIN out, v > u, j \in DOMAIN out[v] PROVE v \in DOMAIN out' /\ j \in DOMAIN out'[v]
      <4>1. ASSUME v = t PROVE FALSE
        BY <1>2, <2>4, <3>1, <3>2, <4>1
      <4> QED BY <1>8, <3>2, <4>1
    <3> QED BY <2>3, <3>1, <3>2
  <2>9. \A j \in AllKeys : AsOf(at, j)' \/ \E u \in DOMAIN out' : j \in DOMAIN out'[u]
    BY <1>3, <1>5, <2>5, <2>7 DEF AsOf
  <2> QED BY <1>3, <1>8, <2>1, <2>5, <2>6, <2>8, <2>9 DEF BatchInv
<1> QED BY <1>5, <1>9, <1>11, <1>12, <1>13 DEF ProjectorInv

LEMMA CommitKeeps ==
  ASSUME ProjectorInv, CommitCheckpoint
  PROVE  ProjectorInv'
<1>1. /\ stage \in {"dump", "batch"} /\ \A t \in DOMAIN out : DOMAIN out[t] = {}
      /\ cp' = [committed |-> TRUE, tick |-> at, diverged |-> FALSE]
      /\ stage' = (IF diverges THEN "halting" ELSE "idle")
      /\ high' = (IF stage = "dump" THEN at ELSE high)
      /\ hist' = hist /\ snapRound' = snapRound /\ state' = state /\ at' = at /\ silent' = silent
      /\ projected' = projected /\ rendered' = rendered /\ diverges' = diverges
      /\ projectorFaults' = projectorFaults
  BY DEF CommitCheckpoint, CommitReady, DumpDone
<1>2. WorldInv /\ ProjectionInv /\ CheckpointInv /\ DumpInv /\ BatchInv /\ Len(hist) \in Nat
  BY DEF ProjectorInv, WorldInv
<1>3. /\ WorldInv' /\ \A u, j : Val(u, j)' = Val(u, j) /\ (Writes(u, j)' <=> Writes(u, j))
  BY <1>1, <1>2, SameHistory
<1>4. at \in 0..Len(hist) /\ silent \in Nat /\ silent <= at /\ high \in 0..Len(hist)
  BY <1>1, <1>2 DEF ProjectionInv, DumpInv, BatchInv
<1>5. ProjectionInv'
  <2>1. World(at)' = World(at)
    BY <1>1 DEF World
  <2>2. projected' = Here(World(at)') /\ rendered' = World(at)'.rooms
    BY <1>1, <1>2, <2>1 DEF ProjectionInv
  <2>3. Newer(at, silent) = at
    BY <1>4 DEF Newer
  <2>4. cp' \in [committed : BOOLEAN, tick : 0..Len(hist'), diverged : BOOLEAN]
    BY <1>1, <1>4
  <2>5. stage' \in {"idle", "halting"} /\ cp'.committed /\ ~cp'.diverged /\ cp'.tick = Newer(at', silent')
    BY <1>1, <2>3
  <2> QED BY <1>1, <1>2, <1>4, <2>2, <2>4, <2>5 DEF ProjectionInv, Here, Newer
<1>6. CheckpointInv'
  <2>1. \A k \in AllKeys : OnTopic(k) = Val(at, k) \/ \E j \in (at + 1)..high' : Writes(j, k)
    <3>1. CASE stage = "dump"
      BY <1>1, <1>2, <3>1 DEF DumpInv
    <3>2. CASE stage = "batch"
      <4>1. high' = high
        BY <1>1, <3>2
      <4> QED BY <1>1, <1>2, <3>2, <4>1 DEF BatchInv, AsOf
    <3> QED BY <1>1, <3>1, <3>2
  <2>2. \A k : OnTopic(k)' = OnTopic(k) /\ Val(cp.tick, k)' = Val(at, k)
    BY <1>1, <1>3 DEF OnTopic, Val, World
  <2>3. \A k \in AllKeys : AsOf(cp.tick, k)'
    BY <1>1, <1>3, <2>1, <2>2 DEF AsOf
  <2> QED BY <1>1, <1>2, <2>3 DEF CheckpointInv
<1>7. DumpInv' /\ BatchInv'
  BY <1>1 DEF DumpInv, BatchInv
<1> QED BY <1>3, <1>5, <1>6, <1>7 DEF ProjectorInv

(* A halt and a death leave the topic and what of it was checkpointed. *)
LEMMA EndKeeps ==
  ASSUME ProjectorInv, Halts \/ ProjectorDies
  PROVE  ProjectorInv'
<1>1. /\ hist' = hist /\ snapRound' = snapRound /\ state' = state /\ at' = at /\ silent' = silent
      /\ projected' = projected /\ rendered' = rendered /\ high' = high
      /\ stage' = "down" /\ diverges' = FALSE
      /\ cp' = cp \/ cp' = [committed |-> TRUE, tick |-> at, diverged |-> TRUE]
  BY DEF Halts, ProjectorDies
<1>2. WorldInv /\ ProjectionInv /\ Len(hist) \in Nat
  BY DEF ProjectorInv, WorldInv
<1>3. WorldInv'
  BY <1>1, <1>2, SameHistory
<1>4. projectorFaults' \in 0..MaxProjectorFaults
  BY <1>2, ProjectorAssumption DEF Halts, ProjectorDies, CanFail, ProjectionInv
<1>5. cp' \in [committed : BOOLEAN, tick : 0..Len(hist'), diverged : BOOLEAN]
  <2>1. at \in 0..Len(hist) /\ cp \in [committed : BOOLEAN, tick : 0..Len(hist), diverged : BOOLEAN]
    BY <1>2 DEF ProjectionInv
  <2>2. [committed |-> TRUE, tick |-> at, diverged |-> TRUE]
          \in [committed : BOOLEAN, tick : 0..Len(hist), diverged : BOOLEAN]
    BY <2>1
  <2> QED BY <1>1, <2>1, <2>2, Zenon
<1>6. ProjectionInv'
  BY <1>1, <1>2, <1>4, <1>5 DEF ProjectionInv
<1>7. high' \in Nat /\ high <= high' /\ (cp' = cp \/ ~cp'.committed \/ cp'.diverged)
  BY <1>1, <1>2 DEF ProjectionInv
<1>8. CheckpointInv'
  BY <1>1, <1>7, CheckpointStays
<1>9. DumpInv' /\ BatchInv'
  BY <1>1 DEF DumpInv, BatchInv
<1> QED BY <1>3, <1>6, <1>8, <1>9 DEF ProjectorInv

--------------------------------------------------------------------------------
(* The theorems. *)

(* ProjectorInv holds always: what a start relies on, that a key behind the   *)
(* checkpoint's tick has a record of a later tick on the topic, is never lost. *)
THEOREM ProjectorInvariant == ProjectorSpec => []ProjectorInv
<1>1. ProjectorInit => ProjectorInv
  <2> SUFFICES ASSUME ProjectorInit PROVE ProjectorInv
    OBVIOUS
  <2>1. hist \in Seq(TickRecords) /\ Len(hist) = 0 /\ MaxTicks \in Nat /\ MaxProjectorFaults \in Nat
    BY ProjectorAssumption DEF ProjectorInit
  <2>2. WorldInv
    BY <2>1 DEF WorldInv
  <2>3. ProjectionInv
    <3>1. cp \in [committed : BOOLEAN, tick : 0..Len(hist), diverged : BOOLEAN]
      BY <2>1 DEF ProjectorInit, NoCheckpoint
    <3>2. 0 \in 0..Len(hist) /\ 0 \in 0..MaxProjectorFaults
      BY <2>1
    <3> QED BY <3>1, <3>2 DEF ProjectorInit, ProjectionInv
  <2>4. state = [k \in DOMAIN state |-> state[k]] /\ DOMAIN state = {}
    BY DEF ProjectorInit
  <2>5. CheckpointInv
    BY <2>4 DEF ProjectorInit, CheckpointInv, NoCheckpoint
  <2>6. DumpInv /\ BatchInv
    BY DEF ProjectorInit, DumpInv, BatchInv
  <2> QED BY <2>2, <2>3, <2>5, <2>6 DEF ProjectorInv
<1>2. ProjectorInv /\ [ProjectorNext]_projectorVars => ProjectorInv'
  <2> SUFFICES ASSUME ProjectorInv, [ProjectorNext]_projectorVars PROVE ProjectorInv'
    OBVIOUS
  <2>0. WorldInv /\ snapRound \in 0..Len(hist) /\ Len(hist) \in Nat
    <3>1. WorldInv /\ snapRound \in 0..Len(hist)
      BY DEF ProjectorInv, ProjectionInv
    <3> QED BY <3>1 DEF WorldInv
  <2>w. ASSUME WorldInv' /\ HistGoesOn, NEW st, NEW touched, NEW swap, Ticks(st, touched, swap)
        PROVE  ProjectorInv'
    <3>1. snapRound' \in 0..Len(hist')
      BY <2>0, <2>w, HistoryStays DEF Ticks
    <3> QED BY <2>w, <3>1, WorldGoesOn DEF Ticks
  <2>1. ASSUME NEW c \in Chars, Leaves(c) PROVE ProjectorInv'
    BY <2>0, <2>1, <2>w, LeavesKeeps DEF Leaves
  <2>2. ASSUME NEW c \in Chars, Despawns(c) PROVE ProjectorInv'
    BY <2>0, <2>2, <2>w, DespawnsKeeps DEF Despawns
  <2>3. ASSUME NEW c \in Chars, NEW r \in Rooms, Enters(c, r) PROVE ProjectorInv'
    BY <2>0, <2>3, <2>w, EntersKeeps DEF Enters
  <2>4. ASSUME NEW c \in Chars, NEW r \in Rooms, MovesTo(c, r) PROVE ProjectorInv'
    BY <2>0, <2>4, <2>w, MovesToKeeps DEF MovesTo
  <2>5. ASSUME NEW S \in SUBSET Rooms, Swaps(S) PROVE ProjectorInv'
    BY <2>0, <2>5, <2>w, SwapsKeeps DEF Swaps
  <2>6. CASE Faults
    BY <2>0, <2>6, <2>w, FaultsKeeps DEF Faults
  <2>7. CASE Rounds
    <3>1. snapRound' \in 0..Len(hist') /\ HistGoesOn /\ WorldInv'
      BY <2>0, <2>7, SameHistory DEF Rounds, HistGoesOn
    <3> QED BY <2>7, <3>1, WorldGoesOn DEF Rounds
  <2>8. ASSUME NEW rebuild \in BOOLEAN, NEW fromZero \in BOOLEAN, Boot(rebuild, fromZero) PROVE ProjectorInv'
    BY <2>8, BootKeeps
  <2>9. ASSUME NEW n \in 0..BatchTicks, NEW bad \in BOOLEAN, Replay(n, bad) PROVE ProjectorInv'
    BY <2>9, ReplayKeeps
  <2>10. CASE BatchLands
    BY <2>10, BatchLandsKeeps
  <2>11. CASE CommitCheckpoint
    BY <2>11, CommitKeeps
  <2>12. CASE Halts \/ ProjectorDies
    BY <2>12, EndKeeps
  <2>13. CASE UNCHANGED projectorVars
    <3>1. snapRound' \in 0..Len(hist') /\ HistGoesOn /\ WorldInv'
      BY <2>0, <2>13, SameHistory DEF projectorVars, HistGoesOn
    <3> QED BY <2>13, <3>1, WorldGoesOn DEF projectorVars
  <2> QED BY <2>1, <2>2, <2>3, <2>4, <2>5, <2>6, <2>7, <2>8, <2>9, <2>10, <2>11, <2>12, <2>13
          DEF ProjectorNext
<1> QED BY <1>1, <1>2, PTL DEF ProjectorSpec

(* The topic holds exactly the replica's World whenever the projector has     *)
(* committed through the newest tick it ever wrote of, whatever died, was     *)
(* replayed silently or rebuilt before (Run, Render, Reconcile).              *)
THEOREM TopicHoldsWorld == ProjectorSpec => []TopicIsWorld
<1>1. ProjectorInv => TopicIsWorld
  <2> SUFFICES ASSUME ProjectorInv, stage = "idle", at >= silent, at >= high
               PROVE  state = Dump(World(at))
    BY DEF TopicIsWorld
  <2>1. WorldInv /\ ProjectionInv /\ CheckpointInv /\ Len(hist) \in Nat
    BY DEF ProjectorInv, WorldInv
  <2>2. at \in 0..Len(hist) /\ silent \in Nat /\ high \in Nat /\ cp.committed /\ ~cp.diverged /\ cp.tick = Newer(at, silent)
    BY <2>1 DEF ProjectionInv
  <2>3. cp.tick = at /\ (at + 1)..high = {}
    BY <2>2 DEF Newer
  <2>4. \A k \in AllKeys : OnTopic(k) = Val(at, k)
    BY <2>1, <2>2, <2>3 DEF CheckpointInv, AsOf
  <2>5. Keys(World(at)) \subseteq AllKeys
    BY <2>1, <2>2, WorldIs
  <2>6. DOMAIN state \subseteq AllKeys /\ \A k \in DOMAIN state : state[k] # Gone
    BY <2>1 DEF CheckpointInv
  <2>7. \A k \in AllKeys : k \in DOMAIN state <=> k \in Keys(World(at))
    BY <2>4, <2>6, BodyIsNotGone DEF OnTopic, Val
  <2>8. DOMAIN state = Keys(World(at))
    BY <2>5, <2>6, <2>7
  <2>9. \A k \in DOMAIN state : state[k] = Body(World(at), k)
    BY <2>4, <2>6, <2>8 DEF OnTopic, Val
  <2>10. state = [k \in DOMAIN state |-> state[k]]
    BY <2>1 DEF CheckpointInv
  <2> QED BY <2>8, <2>9, <2>10 DEF Dump
<1> QED BY <1>1, ProjectorInvariant, PTL

(* The projector's state keeps its types: the replica is never past the log's  *)
(* end, nor is the checkpoint.                                                *)
THEOREM ProjectorTypes == ProjectorSpec => []ProjectorTypeOK
<1>1. ProjectorInv => ProjectorTypeOK
  <2> SUFFICES ASSUME ProjectorInv PROVE ProjectorTypeOK
    OBVIOUS
  <2>1. Len(hist) \in Nat /\ MaxTicks \in Nat /\ Len(hist) <= MaxTicks
    BY ProjectorAssumption DEF ProjectorInv, WorldInv
  <2>2. 0..Len(hist) \subseteq 0..MaxTicks
    BY <2>1
  <2>3. /\ cp.committed \in BOOLEAN /\ cp.diverged \in BOOLEAN /\ cp.tick \in 0..Len(hist)
        /\ diverges \in BOOLEAN
    BY Zenon DEF ProjectorInv, ProjectionInv
  <2>4. /\ snapRound \in 0..Len(hist) /\ at \in 0..MaxTicks /\ silent \in 0..MaxTicks /\ high \in 0..MaxTicks
        /\ stage \in {"down", "idle", "dump", "batch", "halting"}
        /\ projected \subseteq Chars /\ rendered \subseteq Rooms
        /\ projectorFaults \in 0..MaxProjectorFaults
    BY <2>2 DEF ProjectorInv, ProjectionInv
  <2> QED BY <2>1, <2>3, <2>4 DEF ProjectorTypeOK
<1> QED BY <1>1, ProjectorInvariant, PTL

================================================================================
