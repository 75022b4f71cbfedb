------------------------------- MODULE Retention --------------------------------
(******************************************************************************)
(* The snapshot store's rounds (server/store), the retention sweep that       *)
(* deletes them, the tags that keep them, and the pre-stop sequence           *)
(* (server/lifecycle) that forces a round and tags it.                        *)
(*                                                                            *)
(* A round is one object for each Zone at a tick, put one by one: a death or  *)
(* a failed upload leaves it torn.  The sweep lists Zone by Zone, decides     *)
(* newest first and deletes under the Sweeper's lock; an operator tags under  *)
(* that lock, pre-stop without it.  The owned Zones are fixed, one state      *)
(* version is written, and an object that was put is valid (FS renames a      *)
(* synced file, S3 puts whole objects), so a round is complete when every     *)
(* Zone's object is there.                                                    *)
(******************************************************************************)
EXTENDS Integers, FiniteSets

CONSTANTS
  NumZones,                 \* the owned Zones are 1..NumZones, in the order they are listed
  KeepRounds, KeepTagged,   \* snapshot.keep_rounds, snapshot.keep_deploy_rounds
  PinnedRound,                      \* recovery.pin_round, 0 for none
  MaxRounds,                \* bound: rounds begun
  MaxSweeps,                \* bound: sweeps begun
  MaxTagged,                \* bound: rounds tagged before an operator tags one
  MaxStoreFaults            \* bound: deaths and failed store calls

(* config.Validate: keep_rounds is at least 1, keep_deploy_rounds not negative. *)
ASSUME RetentionAssumption ==
  /\ {KeepTagged, PinnedRound, MaxRounds, MaxSweeps, MaxTagged, MaxStoreFaults} \subseteq Nat
  /\ {KeepRounds, NumZones} \subseteq Nat \ {0}

VARIABLES
  objects,     \* the objects: <<zone, round>>
  tags,        \* the tag markers: <<object, name>>
  begun,       \* the newest round begun
  writing,     \* the round being uploaded, 0 for none
  sweep,       \* the sweep under way, see SweepIdle
  sweeps,      \* how many sweeps have begun
  incomplete,  \* Sweeper.incomplete: rounds remembered as never complete
  caught,      \* history: the rounds a sweep took for torn and that were whole, see Straddled
  sweepLock,   \* who holds Sweeper.sem: "free", "sweep", "admin"
  admin,       \* TagSnapshotRound: [round, left], round 0 when none runs
  stop,        \* PrepareStop: [pc, round, left]
  promised,    \* the rounds whose tagging was answered as done
  everTagged,  \* the rounds that have carried a tag
  storeFaults

retentionVars == <<objects, tags, begun, writing, sweep, sweeps, incomplete, caught, sweepLock,
                   admin, stop, promised, everTagged, storeFaults>>

SnapZones == 1..NumZones

SnapRounds == 1..MaxRounds

(* Zones, and the objects of a round, are gone through in order. *)
FirstOf(S) == CHOOSE o \in S : \A p \in S : o[1] <= p[1]

LeastZone(S) == CHOOSE z \in S : \A y \in S : z <= y

RoundObjects(t) == SnapZones \X {t}

(* verify: a round of these objects is complete. *)
CompleteIn(S, t) == RoundObjects(t) \subseteq S

NewestIn(S) ==
  LET C == {t \in SnapRounds : CompleteIn(S, t)}
  IN IF C = {} THEN 0 ELSE CHOOSE t \in C : \A u \in C : u <= t

(* ListTags: the names on an object. *)
TagsOf(S, o) == {n \in {"deploy", "rollback"} : <<o, n>> \in S}

TagRoundPut(o, name) ==
  /\ tags' = tags \cup {<<o, name>>}
  /\ everTagged' = everTagged \cup {o[2]}

SweepIdle == [pc |-> "idle", todo |-> {}, found |-> {}, tags |-> {}, next |-> 0,
              keptTagged |-> 0, keptUntagged |-> 0]

NoTagging == [round |-> 0, left |-> {}]

StopIdle == [pc |-> "idle", round |-> 0, left |-> {}]

RetentionInit ==
  /\ objects = {} /\ tags = {} /\ begun = 0 /\ writing = 0
  /\ sweep = SweepIdle /\ sweeps = 0 /\ incomplete = {} /\ caught = {} /\ sweepLock = "free"
  /\ admin = NoTagging /\ stop = StopIdle
  /\ promised = {} /\ everTagged = {} /\ storeFaults = 0

StoreCanFault == storeFaults < MaxStoreFaults /\ storeFaults' = storeFaults + 1

-------------------------------------------------------------------------------
(* Rounds: the upload of a tick's objects.  A forced round is claimed by the  *)
(* next boundary that finds none in flight.  The sweep has a ticker of its own *)
(* (boot/retention.go), so rounds begin and end while it lists.               *)

TakeRound ==
  /\ writing = 0 /\ begun < MaxRounds
  /\ begun' = begun + 1 /\ writing' = begun + 1
  /\ stop' = IF stop.pc = "forced" THEN [stop EXCEPT !.pc = "taken", !.round = begun + 1] ELSE stop
  /\ UNCHANGED <<objects, tags, sweep, sweeps, incomplete, caught, sweepLock, admin, promised,
                 everTagged, storeFaults>>

(* FS.Put, S3.Put; the last object ends the round and answers the force. *)
PutObject(z) ==
  /\ writing # 0 /\ <<z, writing>> \notin objects
  /\ objects' = objects \cup {<<z, writing>>}
  /\ LET ends == CompleteIn(objects', writing)
     IN /\ writing' = IF ends THEN 0 ELSE writing
        /\ stop' = IF ends /\ stop.pc = "taken" /\ stop.round = writing
                   THEN [stop EXCEPT !.pc = "tagging", !.left = RoundObjects(writing)] ELSE stop
  /\ UNCHANGED <<tags, begun, sweep, sweeps, incomplete, caught, sweepLock, admin, promised,
                 everTagged, storeFaults>>

(* An object's put fails or the upload passes its timeout: the round is left torn. *)
RoundFails ==
  /\ writing # 0 /\ StoreCanFault
  /\ writing' = 0
  /\ stop' = IF stop.pc = "taken" /\ stop.round = writing THEN [StopIdle EXCEPT !.pc = "failed"]
             ELSE stop
  /\ UNCHANGED <<objects, tags, begun, sweep, sweeps, incomplete, caught, sweepLock, admin,
                 promised, everTagged>>

-------------------------------------------------------------------------------
(* The sweep. *)

SweepStep(s) ==
  /\ sweep' = s
  /\ UNCHANGED <<begun, writing, admin, stop, promised, everTagged>>

SweepBegins ==
  /\ sweep.pc = "idle" /\ sweeps < MaxSweeps
  /\ sweeps' = sweeps + 1
  /\ SweepStep([SweepIdle EXCEPT !.pc = "list", !.todo = SnapZones])
  /\ UNCHANGED <<objects, tags, incomplete, caught, sweepLock, storeFaults>>

(* discover: one Zone's keys. *)
SweepLists ==
  /\ sweep.pc = "list"
  /\ LET z == LeastZone(sweep.todo)
         rest == sweep.todo \ {z}
     IN SweepStep([sweep EXCEPT !.found = @ \cup {o \in objects : o[1] = z},
                     !.todo = rest,
                     !.pc = IF rest = {} THEN "tags" ELSE "list"])
  /\ UNCHANGED <<objects, tags, sweeps, incomplete, caught, sweepLock, storeFaults>>

(* Those rounds of the listing that are not the first and are found incomplete *)
(* before a complete one is reached are remembered as incomplete.              *)
Listed(S) == {o[2] : o \in S}

NewestListed(S) ==
  LET C == {t \in Listed(S) \ incomplete : CompleteIn(S, t)}
  IN IF C = {} THEN 0 ELSE CHOOSE t \in C : \A u \in C : u <= t

(* Also the first of the listing, which may only be under way. *)
FoundIncompleteAny(S) == {t \in Listed(S) : t > NewestListed(S)}

FoundIncomplete(S) ==
  {t \in Listed(S) : t > NewestListed(S) /\ \E u \in Listed(S) : u > t}

(* History: the rounds that came whole while the listing went from Zone to Zone, so that *)
(* it has them torn, and that no count is sure to keep: a newer round is listed beside  *)
(* them, or no tagged round is kept (retention.go:56-61, "Not covered").                *)
Straddled(S) ==
  {t \in Listed(S) : /\ CompleteIn(objects, t) /\ ~CompleteIn(S, t)
                     /\ KeepTagged = 0 \/ \E u \in Listed(S) : u > t}

(* attachTags, at once for all Zones since deleteUntouched reads the tags again; *)
(* and newestComplete.                                                          *)
SweepTags ==
  /\ sweep.pc = "tags"
  /\ SweepStep([sweep EXCEPT !.tags = tags, !.pc = "decide", !.next = NewestListed(sweep.found)])
  /\ incomplete' = incomplete \cup FoundIncomplete(sweep.found)
  /\ caught' = caught \cup Straddled(sweep.found)
  /\ UNCHANGED <<objects, tags, sweeps, sweepLock, storeFaults>>

(* The round to decide next, and whether it carried a tag when listed. *)
Deciding == CHOOSE t \in Listed(sweep.found) : \A u \in Listed(sweep.found) : u <= t

ListedTagged(t) == \E g \in sweep.tags : g[1] \in sweep.found /\ g[1][2] = t

(* Sweep: the newest complete and the pinned round are kept; else by count (all are younger than max_round_age). *)
Keeps(t) ==
  \/ t = sweep.next
  \/ PinnedRound # 0 /\ t = PinnedRound
  \/ IF ListedTagged(t) THEN sweep.keptTagged < KeepTagged ELSE sweep.keptUntagged < KeepRounds

Decided(s, t) == [s EXCEPT !.found = {o \in @ : o[2] # t}, !.pc = "decide", !.todo = {}]

Kept(t, tagged) ==
  IF tagged THEN [Decided(sweep, t) EXCEPT !.keptTagged = @ + 1]
  ELSE [Decided(sweep, t) EXCEPT !.keptUntagged = @ + 1]

SweepKeeps ==
  /\ sweep.pc = "decide" /\ sweep.found # {} /\ Keeps(Deciding)
  /\ SweepStep(Kept(Deciding, ListedTagged(Deciding)))
  /\ UNCHANGED <<objects, tags, sweeps, incomplete, caught, sweepLock, storeFaults>>

(* The tags as they were listed. *)
GainedTagNever(t) == FALSE

(* deleteUntouched: under the lock, a round one of whose objects gained a tag. *)
GainedTag(t) ==
  \E o \in sweep.found : o[2] = t
    /\ Cardinality(TagsOf(tags, o)) # Cardinality(TagsOf(sweep.tags, o))

SweepSpares ==
  /\ sweep.pc = "decide" /\ sweep.found # {} /\ ~Keeps(Deciding)
  /\ sweepLock = "free" /\ GainedTag(Deciding)
  /\ SweepStep(Kept(Deciding, TRUE))
  /\ UNCHANGED <<objects, tags, sweeps, incomplete, caught, sweepLock, storeFaults>>

SweepLocks ==
  /\ sweep.pc = "decide" /\ sweep.found # {} /\ ~Keeps(Deciding)
  /\ sweepLock = "free" /\ ~GainedTag(Deciding)
  /\ sweepLock' = "sweep"
  /\ SweepStep([sweep EXCEPT !.pc = "delete",
                  !.todo = {o \in sweep.found : o[2] = Deciding}])
  /\ UNCHANGED <<objects, tags, sweeps, incomplete, caught, storeFaults>>

(* deleteRound: the listed tags, then the objects. *)
ListedTagsLeft == {g \in sweep.tags : g[1] \in sweep.todo} \cap tags

SweepDeletesTag ==
  /\ sweep.pc = "delete" /\ ListedTagsLeft # {}
  /\ LET o == FirstOf({g[1] : g \in ListedTagsLeft})
     IN tags' = tags \ {g \in ListedTagsLeft : g[1] = o}
  /\ SweepStep(sweep)
  /\ UNCHANGED <<objects, sweeps, incomplete, caught, sweepLock, storeFaults>>

SweepDeletes ==
  /\ sweep.pc = "delete" /\ ListedTagsLeft = {}
  /\ LET o == FirstOf(sweep.todo)
         rest == sweep.todo \ {o}
     IN /\ objects' = objects \ {o}
        /\ SweepStep(IF rest = {} THEN Decided(sweep, o[2]) ELSE [sweep EXCEPT !.todo = rest])
        /\ sweepLock' = IF rest = {} THEN "free" ELSE "sweep"
  /\ UNCHANGED <<tags, sweeps, incomplete, caught, storeFaults>>

(* Every round is decided: what is no longer in the store is forgotten. *)
SweepEnds ==
  /\ sweep.pc = "decide" /\ sweep.found = {}
  /\ incomplete' = incomplete \cap Listed(objects)
  /\ SweepStep(SweepIdle)
  /\ UNCHANGED <<objects, tags, sweeps, caught, sweepLock, storeFaults>>

(* A store error returns with the lock held. *)
SweepFailsLocked ==
  /\ sweep.pc \in {"list", "tags", "delete"} /\ StoreCanFault
  /\ SweepStep(SweepIdle)
  /\ UNCHANGED <<objects, tags, sweeps, incomplete, caught, sweepLock>>

(* A store error stops the sweep. *)
SweepFails ==
  /\ sweep.pc \in {"list", "tags", "delete"} /\ StoreCanFault
  /\ SweepStep(SweepIdle)
  /\ sweepLock' = IF sweepLock = "sweep" THEN "free" ELSE sweepLock
  /\ UNCHANGED <<objects, tags, sweeps, incomplete, caught>>

-------------------------------------------------------------------------------
(* TagSnapshotRound: an operator tags a complete round, the newest when no tick *)
(* is given, under the Sweeper's lock (a round that carries the tag writes nothing). *)

AdminTags(t) ==
  /\ admin.round = 0 /\ sweepLock = "free" /\ CompleteIn(objects, t)
  /\ Cardinality(everTagged) < MaxTagged
  /\ sweepLock' = "admin"
  /\ admin' = [round |-> t, left |-> {o \in RoundObjects(t) : "rollback" \notin TagsOf(tags, o)}]
  /\ UNCHANGED <<objects, tags, begun, writing, sweep, sweeps, incomplete, caught, stop, promised,
                 everTagged, storeFaults>>

AdminPuts ==
  /\ admin.left # {}
  /\ LET o == FirstOf(admin.left)
     IN TagRoundPut(o, "rollback") /\ admin' = [admin EXCEPT !.left = @ \ {o}]
  /\ UNCHANGED <<objects, begun, writing, sweep, sweeps, incomplete, caught, sweepLock, stop,
                 promised, storeFaults>>

AdminAnswers ==
  /\ admin.round # 0 /\ admin.left = {}
  /\ promised' = promised \cup {admin.round}
  /\ admin' = NoTagging /\ sweepLock' = "free"
  /\ UNCHANGED <<objects, tags, begun, writing, sweep, sweeps, incomplete, caught, stop,
                 everTagged, storeFaults>>

AdminFails ==
  /\ admin.left # {} /\ StoreCanFault
  /\ admin' = NoTagging /\ sweepLock' = "free"
  /\ UNCHANGED <<objects, tags, begun, writing, sweep, sweeps, incomplete, caught, stop, promised,
                 everTagged>>

-------------------------------------------------------------------------------
(* PrepareStop: runs once; announcing, the notice and the refusal of Submits  *)
(* come before the force and touch nothing here.                              *)

PrepareStop ==
  /\ stop.pc = "idle"
  /\ stop' = [stop EXCEPT !.pc = "forced"]
  /\ UNCHANGED <<objects, tags, begun, writing, sweep, sweeps, incomplete, caught, sweepLock, admin,
                 promised, everTagged, storeFaults>>

(* The budget ends: the force is withdrawn, or the round completes untagged. *)
StopTimesOut ==
  /\ stop.pc \in {"forced", "taken", "tagging"} /\ StoreCanFault
  /\ stop' = [StopIdle EXCEPT !.pc = "failed"]
  /\ UNCHANGED <<objects, tags, begun, writing, sweep, sweeps, incomplete, caught, sweepLock, admin,
                 promised, everTagged>>

(* TagRound, without the lock and whether or not the object is still there. *)
StopTags ==
  /\ stop.pc = "tagging" /\ stop.left # {}
  /\ LET o == FirstOf(stop.left)
     IN TagRoundPut(o, "deploy") /\ stop' = [stop EXCEPT !.left = @ \ {o}]
  /\ UNCHANGED <<objects, begun, writing, sweep, sweeps, incomplete, caught, sweepLock, admin,
                 promised, storeFaults>>

(* COMPLETE, a promise only while no later round was begun: retention.go says so. *)
StopAnswers ==
  /\ stop.pc = "tagging" /\ stop.left = {}
  /\ promised' = IF begun = stop.round THEN promised \cup {stop.round} ELSE promised
  /\ stop' = [StopIdle EXCEPT !.pc = "complete"]
  /\ UNCHANGED <<objects, tags, begun, writing, sweep, sweeps, incomplete, caught, sweepLock, admin,
                 everTagged, storeFaults>>

(* The server dies and is started again. *)
ServerRestarts ==
  /\ StoreCanFault
  /\ writing' = 0 /\ sweep' = SweepIdle /\ incomplete' = {} /\ caught' = {} /\ sweepLock' = "free"
  /\ admin' = NoTagging /\ stop' = StopIdle
  /\ UNCHANGED <<objects, tags, begun, sweeps, promised, everTagged>>

-------------------------------------------------------------------------------
RetentionNext ==
  \/ TakeRound \/ RoundFails
  \/ SweepBegins \/ SweepLists \/ SweepTags \/ SweepKeeps \/ SweepSpares \/ SweepLocks \/ SweepDeletesTag \/ SweepDeletes
  \/ SweepEnds \/ SweepFails
  \/ \E z \in SnapZones : PutObject(z)
  \/ \E t \in SnapRounds : AdminTags(t)
  \/ AdminPuts \/ AdminAnswers \/ AdminFails
  \/ PrepareStop \/ StopTimesOut \/ StopTags \/ StopAnswers
  \/ ServerRestarts

RetentionSpec == RetentionInit /\ [][RetentionNext]_retentionVars

-------------------------------------------------------------------------------
(* Properties. *)

(* The Sweeper's lock is held by a sweep's deletes or by a tagging, nothing is *)
(* written past the newest round begun, and counts stay within the policy.     *)
RetentionTypeOK ==
  /\ objects \subseteq SnapZones \X SnapRounds
  /\ tags \subseteq (SnapZones \X SnapRounds) \X {"deploy", "rollback"}
  /\ begun \in 0..MaxRounds /\ writing \in 0..begun
  /\ sweep.pc \in {"idle", "list", "tags", "decide", "delete"}
  /\ (sweepLock = "sweep") = (sweep.pc = "delete")
  /\ (sweepLock = "admin") = (admin.round # 0)
  /\ stop.pc \in {"idle", "forced", "taken", "tagging", "failed", "complete"}
  /\ incomplete \cup caught \cup promised \cup everTagged \subseteq SnapRounds

(* The recovery point never goes back: a sweep (Sweeper.Sweep) decides from a  *)
(* listing taken while rounds are written, torn and tagged, and with what it   *)
(* remembers of earlier sweeps, and still deletes no object of the pinned      *)
(* round, nor of the newest complete one, unless a listing of this process     *)
(* went through the Zones while that round came whole (caught, see Straddled). *)
RecoveryPointStays ==
  [][/\ NewestIn(objects) \notin caught => NewestIn(objects') >= NewestIn(objects)
     /\ \A o \in objects : PinnedRound # 0 /\ o[2] = PinnedRound => o \in objects']_retentionVars

(* A tag that was answered holds: a round that TagSnapshotRound or PrepareStop *)
(* reported as tagged is whole until KeepTagged newer rounds have been tagged, *)
(* though the sweep that meets it may have listed it untagged.                 *)
TagKeepsRound ==
  \A t \in promised :
    \/ CompleteIn(objects, t) /\ \A o \in RoundObjects(t) : TagsOf(tags, o) # {}
    \/ Cardinality({u \in everTagged : u > t}) >= KeepTagged
================================================================================
