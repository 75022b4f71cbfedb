-------------------------------- MODULE Publish ---------------------------------
(******************************************************************************)
(* Publishing a content pack: andara-cli's publish, approve and activate      *)
(* (admin/cli/contentpublish.go), the Admin handlers behind them              *)
(* (server/content/admin.go) and the Registry that writes the three content   *)
(* topics and answers from an index of them (server/content/registry.go).     *)
(*                                                                            *)
(* One pack, several publishers at once, each uploading the blobs the server  *)
(* lacks and naming the version it saw as its parent.  An append may fail, or *)
(* land though it was reported failed; the server may die, and lose its blob  *)
(* cache when it comes back elsewhere.  A dead process's append has landed,   *)
(* if ever it does, before its successor reads the topic.  A blob is its      *)
(* hash, sizes and limits are left out, and what validation finds is either   *)
(* outcome.                                                                   *)
(******************************************************************************)
EXTENDS Integers, FiniteSets

CONSTANTS
  Sources,           \* what a pack may be compiled to: sets of blobs
  Holders,           \* the Builders that hold the pack
  Operators,         \* the Accounts that are Operators
  OperatorSelf,      \* content.operator_self_approval
  Terminals,         \* publish commands that may run at once
  MaxPackVersions,   \* bound: versions
  MaxPointerMoves,   \* bound: pointer moves
  MaxRegistryFaults  \* bound: failed appends, deaths

ASSUME PublishAssumption ==
  /\ IsFiniteSet(Sources) /\ IsFiniteSet(Terminals) /\ IsFiniteSet(Holders \cup Operators)
  /\ OperatorSelf \in BOOLEAN
  /\ {MaxPackVersions, MaxPointerMoves, MaxRegistryFaults} \subseteq Nat

VARIABLES
  blobTopic, blobIndex,  \* andara.content.blobs, and Registry.sizes
  blobCache,             \* the Loader's BlobCache
  versionTopic,          \* pack@version -> manifest, as compaction keeps it
  versionIndex,          \* Registry.manifests
  pointerTopic,          \* the Active Pointer on its topic, 0 when none
  overridden,            \* the versions an Operator activated without approval
  terminal,              \* each publish command: see NoCommand
  published,             \* the versions whose publish was answered
  pointerMoves,
  registryFaults

publishVars == <<blobTopic, blobIndex, blobCache, versionTopic, versionIndex, pointerTopic,
                 overridden, terminal, published, pointerMoves, registryFaults>>

(* Principal: who authenticated, and the Account it acts as; its roles are the *)
(* latter's.                                                                  *)
Principals ==
  {[account |-> a, as |-> a] : a \in Holders \cup Operators}
    \cup {[account |-> a, as |-> b] : a \in Operators, b \in Holders}

IsOperator(p) == p.as \in Operators

(* authorize: an Operator, or a Builder holding the pack. *)
MayPublish(p) == IsOperator(p) \/ p.as \in Holders

NoCommand == [pc |-> "idle", by |-> <<>>, blobs |-> {}, parent |-> 0]

NewestVersion(f) == Cardinality(DOMAIN f)

PublishInit ==
  /\ blobTopic = {} /\ blobIndex = {} /\ blobCache = {}
  /\ versionTopic = <<>> /\ versionIndex = <<>> /\ pointerTopic = 0 /\ overridden = {}
  /\ terminal = [t \in Terminals |-> NoCommand]
  /\ published = {} /\ pointerMoves = 0 /\ registryFaults = 0

(* recordlog.Append: it lands and is answered, or it fails and may have landed. *)
RegistryCanFault == registryFaults < MaxRegistryFaults /\ registryFaults' = registryFaults + 1

-------------------------------------------------------------------------------
(* andara-cli content publish. *)

(* ListVersions: the newest version becomes the parent. *)
PublishStarts(t, p, S) ==
  /\ terminal[t].pc = "idle" /\ MayPublish(p)
  /\ NewestVersion(versionTopic) < MaxPackVersions
  /\ terminal' = [terminal EXCEPT ![t] =
       [pc |-> "listed", by |-> p, blobs |-> S, parent |-> NewestVersion(versionIndex)]]
  /\ UNCHANGED <<blobTopic, blobIndex, blobCache, versionTopic, versionIndex, pointerTopic,
                 overridden, published, pointerMoves, registryFaults>>

(* The index and the cache take a blob before its append is known to have landed. *)
PutBlobFirst(b) ==
  /\ blobIndex' = blobIndex \cup {b} /\ blobCache' = blobCache \cup {b}
  /\ \/ blobTopic' = blobTopic \cup {b} /\ UNCHANGED registryFaults
     \/ blobTopic' = blobTopic /\ RegistryCanFault

(* PutBlob: append, then cache, then index. *)
PutBlob(b) ==
  \/ /\ blobTopic' = blobTopic \cup {b} /\ UNCHANGED registryFaults
     /\ blobIndex' = blobIndex \cup {b} /\ blobCache' = blobCache \cup {b}
  \/ /\ RegistryCanFault /\ UNCHANGED <<blobIndex, blobCache>>
     /\ blobTopic' \in {blobTopic, blobTopic \cup {b}}

(* missingBlobs: what HasBlobs says the server lacks. *)
MissingBlobs(t) == terminal[t].blobs \ blobIndex

(* PublishBlob for one it lacks; a failed upload ends the command. *)
Uploads(t, b) ==
  /\ terminal[t].pc = "listed" /\ b \in MissingBlobs(t)
  /\ PutBlob(b)
  /\ terminal' = IF registryFaults' = registryFaults THEN terminal
                 ELSE [terminal EXCEPT ![t] = NoCommand]
  /\ UNCHANGED <<versionTopic, versionIndex, pointerTopic, overridden, published, pointerMoves>>

(* KafkaResolver.Blobs: a blob is read from the cache, or else from its topic. *)
Readable(S) == S \subseteq blobTopic \cup blobCache

(* PublishVersion up to Registry.Publish: the parent is the newest, every blob *)
(* can be read, and validation has accepted it.                                *)
PublishChecked(t) ==
  /\ terminal[t].pc = "listed" /\ MissingBlobs(t) = {}
  /\ terminal[t].parent = NewestVersion(versionIndex)
  /\ Readable(terminal[t].blobs)
  /\ terminal' = [terminal EXCEPT ![t].pc = "checked"]
  /\ UNCHANGED <<blobTopic, blobIndex, blobCache, versionTopic, versionIndex, pointerTopic,
                 overridden, published, pointerMoves, registryFaults>>

(* Stale parent, findings, a missing blob, or the caller gives up: nothing is written. *)
PublishEnds(t) ==
  /\ terminal[t].pc # "idle"
  /\ terminal' = [terminal EXCEPT ![t] = NoCommand]
  /\ UNCHANGED <<blobTopic, blobIndex, blobCache, versionTopic, versionIndex, pointerTopic,
                 overridden, published, pointerMoves, registryFaults>>

(* The manifests with v's written. *)
ManifestPut(f, v, m) == [u \in DOMAIN f \cup {v} |-> IF u = v THEN m ELSE f[u]]

(* writeManifest: append, then index. *)
WriteManifest(v, m) ==
  \/ /\ versionTopic' = ManifestPut(versionTopic, v, m)
     /\ versionIndex' = ManifestPut(versionIndex, v, m)
     /\ UNCHANGED registryFaults
  \/ /\ RegistryCanFault /\ UNCHANGED versionIndex
     /\ versionTopic' \in {versionTopic, ManifestPut(versionTopic, v, m)}

(* The parent was looked at in PublishVersion, and not again under the lock. *)
ParentHeldOnce(t) == TRUE

(* Registry.Publish, under the lock: the parent is still the newest. *)
ParentHeld(t) == terminal[t].parent = NewestVersion(versionIndex)

PublishWrites(t) ==
  LET c == terminal[t]
      v == NewestVersion(versionIndex) + 1
      m == [blobs |-> c.blobs, parent |-> c.parent, author |-> c.by.as,
            publisher |-> c.by.account, approvedBy |-> <<>>]
  IN /\ c.pc = "checked" /\ ParentHeld(t) /\ v <= MaxPackVersions
     /\ WriteManifest(v, m)
     /\ published' = IF registryFaults' = registryFaults THEN published \cup {<<v, c.blobs>>}
                     ELSE published
     /\ terminal' = [terminal EXCEPT ![t] = NoCommand]
     /\ UNCHANGED <<blobTopic, blobIndex, blobCache, pointerTopic, overridden, pointerMoves>>

-------------------------------------------------------------------------------
(* Approval and activation. *)

(* Only the Account the approver acts as is compared, with the author. *)
SelfApprovalByName(p, m) == p.as = m.author

(* ApproveVersion: the caller, as itself or as who it acts as, published it. *)
SelfApproval(p, m) == {p.account, p.as} \cap {m.author, m.publisher} # {}

(* Registry.Approve: the first approval stands, a second writes nothing. *)
Unapproved(v) == v \in DOMAIN versionIndex /\ versionIndex[v].approvedBy = <<>>

ApproveVersion(p, v) ==
  /\ MayPublish(p) /\ Unapproved(v)
  /\ SelfApproval(p, versionIndex[v]) => IsOperator(p) /\ OperatorSelf
  /\ WriteManifest(v, [versionIndex[v] EXCEPT !.approvedBy = <<p.account>>])
  /\ UNCHANGED <<blobTopic, blobIndex, blobCache, pointerTopic, overridden, terminal, published,
                 pointerMoves>>

(* MovePointer: append the Active Pointer, whose reader is the Loader. *)
PointTo(v) ==
  \/ pointerTopic' = v /\ UNCHANGED registryFaults
  \/ pointerTopic' \in {pointerTopic, v} /\ RegistryCanFault

(* ActivateVersion: an unapproved version needs an Operator's override. *)
ActivateVersion(p, v, override) ==
  /\ MayPublish(p) /\ v \in DOMAIN versionIndex /\ pointerMoves < MaxPointerMoves
  /\ override => IsOperator(p)
  /\ Unapproved(v) => override
  /\ pointerMoves' = pointerMoves + 1
  /\ PointTo(v)
  /\ overridden' = IF Unapproved(v) THEN overridden \cup {v} ELSE overridden
  /\ UNCHANGED <<blobTopic, blobIndex, blobCache, versionTopic, versionIndex, terminal, published>>

(* OpenRegistry: the index is the topics; the commands under way have failed. *)
RegistryRestarts ==
  /\ RegistryCanFault
  /\ blobIndex' = blobTopic /\ versionIndex' = versionTopic
  /\ blobCache' \in {blobCache, {}}
  /\ terminal' = [t \in Terminals |-> NoCommand]
  /\ UNCHANGED <<blobTopic, versionTopic, pointerTopic, overridden, published, pointerMoves>>

-------------------------------------------------------------------------------
PublishNext ==
  \/ \E t \in Terminals :
       \/ \E p \in Principals, S \in Sources : PublishStarts(t, p, S)
       \/ \E b \in UNION Sources : Uploads(t, b)
       \/ PublishChecked(t) \/ PublishEnds(t) \/ PublishWrites(t)
  \/ \E p \in Principals, v \in 1..MaxPackVersions :
       ApproveVersion(p, v) \/ \E o \in BOOLEAN : ActivateVersion(p, v, o)
  \/ RegistryRestarts

PublishSpec == PublishInit /\ [][PublishNext]_publishVars

-------------------------------------------------------------------------------
(* Properties. *)

(* The index never knows of a blob or a version its topic does not hold. *)
PublishTypeOK ==
  /\ blobIndex \subseteq blobTopic \/ registryFaults > 0
  /\ DOMAIN versionIndex \subseteq DOMAIN versionTopic
  /\ DOMAIN versionTopic \subseteq 1..MaxPackVersions
  /\ pointerTopic \in 0..MaxPackVersions
  /\ \A t \in Terminals : terminal[t].pc \in {"idle", "listed", "checked"}

(* A version can always be loaded (Registry.PutBlob, PublishVersion): every    *)
(* blob a manifest on the topic names is on the blob topic, whatever appends   *)
(* failed and whichever cache was lost.                                        *)
VersionsWhole ==
  \A v \in DOMAIN versionTopic : versionTopic[v].blobs \subseteq blobTopic

(* No publish hides another (Registry.Publish): a version was made over the    *)
(* one before it, and what was answered as pack@version is what pack@version   *)
(* stays.                                                                      *)
PublishesInTurn ==
  /\ \A v \in DOMAIN versionTopic : versionTopic[v].parent = v - 1
  /\ \A a \in published : a[1] \in DOMAIN versionTopic /\ versionTopic[a[1]].blobs = a[2]

(* What is in effect had two people behind it (ApproveVersion, ActivateVersion), *)
(* acting as whoever they may: an approval is not by the Account that            *)
(* authenticated to publish nor by the one it published for, and the Active      *)
(* Pointer names an approved version; unless an Operator chose otherwise.        *)
FourEyes ==
  /\ \A v \in DOMAIN versionTopic :
       LET m == versionTopic[v]
       IN m.approvedBy # <<>> =>
            \/ m.approvedBy[1] \notin {m.author, m.publisher}
            \/ OperatorSelf /\ m.approvedBy[1] \in Operators
  /\ pointerTopic # 0 =>
       pointerTopic \in overridden \/ versionTopic[pointerTopic].approvedBy # <<>>
================================================================================
