-------------------------------- MODULE Roster --------------------------------
(******************************************************************************)
(* Sessions and the roster's live flag (server/gateway/session.go,            *)
(* server/roster/roster.go): one Account, its Characters, the Sessions it     *)
(* opens (each on a connection of its own) and the SelectCharacter calls they *)
(* make.  Call k is also the `live' it installs, so a flag is a call number   *)
(* and 0 is none.  A step is a section under the roster's lock, or a produce. *)
(*                                                                            *)
(* A produce is acknowledged, refused, or passes its deadline with the record *)
(* live (ingress.ErrUnsettled): that record is in `late' until it lands or    *)
(* fails.  Records of one Character share a Partition, and the tick applies   *)
(* them in order.  The routing table, and which Zone a record goes to, are    *)
(* module Bindings and module Handoff.                                        *)
(******************************************************************************)
EXTENDS Integers, Sequences, FiniteSets

CONSTANTS
  Characters,     \* the Characters of the Account
  Sessions,       \* the Sessions it opens
  MaxSelects,     \* bound: SelectCharacter calls
  MaxFaults,      \* bound: produces that fail, and crashes
  MaxDeletes      \* bound: DeleteCharacter calls

ASSUME RosterAssumption ==
  /\ IsFiniteSet(Characters) /\ IsFiniteSet(Sessions)
  /\ {MaxSelects, MaxFaults, MaxDeletes} \subseteq Nat

VARIABLES
  conn,        \* the connections that are live, by Session
  sess,        \* each Session: none, open, closing, closed
  sessEnd,     \* how a closing Session ends: quit, linkdead
  live,        \* each call's flag
  call,        \* each call: [pc, sw]; sw is the flag it switches from
  byAccount,   \* the flag the Account holds
  bySession,   \* the flag each Session holds
  switching,   \* the Characters whose unbind a switch has not yet produced
  deleting,    \* the Characters a DeleteCharacter is flipping
  status,      \* the roster's entry: active, deleted, purged
  clog,        \* the unapplied records of each Character
  late,        \* records of failed produces that may still land
  body,        \* each body: none, dormant, present, linkdead
  ends,        \* linkdead bodies that despawned, not yet observed
  faults,      \* how many produces failed and crashes happened
  deletes,     \* how many DeleteCharacter calls were made
  muddied      \* TRUE once a record nobody answers for may be in the log: one of a
               \* failed produce, of a teardown that finds its flag gone or overtakes
               \* its call, of an orphaned switch, or a crash's

sessVars == <<conn, sess, sessEnd>>
flagVars == <<live, call, byAccount, bySession, switching>>
worldVars == <<clog, late, body, ends, muddied>>
rosterVars == <<sessVars, flagVars, deleting, status, worldVars, faults, deletes>>

Calls == 1..MaxSelects
Records == {"bind", "unbind", "mark", "purge"}
NoLive == [s |-> 0, c |-> 0, confirmed |-> FALSE, tear |-> "none", end |-> "quit",
           linkdead |-> FALSE, prev |-> 0, ended |-> FALSE]

RosterInit ==
  /\ conn = Sessions /\ sess = [s \in Sessions |-> "none"]
  /\ sessEnd = [s \in Sessions |-> "quit"]
  /\ live = [k \in Calls |-> NoLive] /\ call = [k \in Calls |-> [pc |-> "idle", sw |-> 0]]
  /\ byAccount = 0 /\ bySession = [s \in Sessions |-> 0]
  /\ switching = {} /\ deleting = {} /\ status = [c \in Characters |-> "active"]
  /\ clog = [c \in Characters |-> <<>>] /\ late = {} /\ ends = {} /\ muddied = FALSE
  /\ body = [c \in Characters |-> "none"]
  /\ faults = 0 /\ deletes = 0

(* live.releasing *)
Releasing(k) == live[k].tear # "none"

(* Log.Produce of record r of Character c: what it answers is `ok'. *)
Produce(c, r, ok) ==
  \/ /\ ok
     /\ clog' = [clog EXCEPT ![c] = Append(@, r)]
     /\ UNCHANGED <<late, faults>>
  \/ /\ ~ok /\ faults < MaxFaults /\ faults' = faults + 1
     /\ \E unsettled \in BOOLEAN :
          late' = IF unsettled THEN late \cup {<<c, r>>} ELSE late
     /\ UNCHANGED clog

(* drop: the flag is cleared where it is still the one held. *)
Dropped(k) == IF byAccount = k THEN 0 ELSE byAccount
DroppedSession(k) == [s \in Sessions |-> IF bySession[s] = k THEN 0 ELSE bySession[s]]

(* ------------------------------- Sessions -------------------------------- *)

(* A Session may only be opened on a live connection. *)
OpenSession(s) ==
  /\ sess[s] = "none" /\ s \in conn
  /\ sess' = [sess EXCEPT ![s] = "open"]
  /\ UNCHANGED <<conn, sessEnd, flagVars, deleting, status, worldVars, faults, deletes>>

(* close, up to its call of ReleaseSession: once, whoever comes first. *)
Closes(s, end) ==
  IF sess[s] = "open"
    THEN sess' = [sess EXCEPT ![s] = "closing"] /\ sessEnd' = [sessEnd EXCEPT ![s] = end]
    ELSE UNCHANGED <<sess, sessEnd>>

(* connClosed.  A connection whose Session has ended has nothing left to tear down. *)
ConnClosed(s) ==
  /\ sess[s] \in {"none", "open"} /\ s \in conn /\ conn' = conn \ {s}
  /\ Closes(s, "linkdead")
  /\ UNCHANGED <<flagVars, deleting, status, worldVars, faults, deletes>>

(* CloseSession and a revoked Principal quit; the drain leaves bodies linkdead. *)
CloseSession(s) ==
  /\ sess[s] = "open"
  /\ \E end \in {"quit", "linkdead"} : Closes(s, end)
  /\ UNCHANGED <<conn, flagVars, deleting, status, worldVars, faults, deletes>>

(* ReleaseSession: the teardown of the flag the Session holds begins. *)
ReleaseSession(s) ==
  /\ sess[s] = "closing" /\ sess' = [sess EXCEPT ![s] = "closed"]
  /\ LET l == bySession[s] IN
     live' = IF l # 0 /\ ~Releasing(l)
             THEN [live EXCEPT ![l].tear = "produce", ![l].end = sessEnd[s]] ELSE live
  /\ UNCHANGED <<conn, sessEnd, call, byAccount, bySession, switching, deleting, status,
                 worldVars, faults, deletes>>

(* The teardown's produce, after the bind or the teardown's timer.  Both last one *)
(* produce_deadline, so the timer wins only over a call that produces twice.      *)
TeardownProduces(k) ==
  /\ live[k].tear = "produce"
  /\ call[k].pc = "done" \/ call[k].sw # 0
  /\ \E ok \in BOOLEAN :
       /\ Produce(live[k].c, IF live[k].end = "linkdead" THEN "mark" ELSE "unbind", ok)
       /\ live' = [live EXCEPT ![k].tear = IF ok THEN "logged" ELSE "failed"]
  /\ muddied' = (muddied \/ byAccount # k \/ call[k].pc # "done")
  /\ UNCHANGED <<sessVars, call, byAccount, bySession, switching, deleting, status, deletes, body, ends>>

(* holdLinkdead keeps the flag off the Session; any other end drops it. *)
TeardownEnds(k) ==
  /\ live[k].tear \in {"logged", "failed"}
  /\ LET hold == live[k].end = "linkdead" /\ live[k].tear = "logged" /\ byAccount = k IN
     /\ live' = [live EXCEPT ![k].tear = "released", ![k].linkdead = hold]
     /\ byAccount' = IF hold THEN byAccount ELSE Dropped(k)
  /\ bySession' = DroppedSession(k)
  /\ UNCHANGED <<sessVars, call, switching, deleting, status, worldVars, faults, deletes>>

(* ---------------------------- SelectCharacter ---------------------------- *)

SelectCharacter(k, s, c) ==
  /\ call[k].pc = "idle" /\ \A j \in 1..(k - 1) : call[j].pc # "idle"
  /\ sess[s] = "open" /\ status[c] = "active"
  /\ call' = [call EXCEPT ![k].pc = "select"]
  /\ live' = [live EXCEPT ![k].s = s, ![k].c = c]
  /\ UNCHANGED <<sessVars, byAccount, bySession, switching, deleting, status, worldVars, faults, deletes>>

(* The flag in the way is the linkdead teardown this reconnect is waiting for. *)
AwaitsTeardown(k) ==
  /\ byAccount # 0 /\ live[byAccount].c = live[k].c
  /\ Releasing(byAccount) /\ ~live[byAccount].linkdead /\ live[byAccount].end = "linkdead"

Reconnects(k) == byAccount # 0 /\ live[byAccount].linkdead /\ live[byAccount].c = live[k].c

Switches(k) ==
  /\ byAccount # 0 /\ live[byAccount].s = live[k].s /\ live[byAccount].confirmed
  /\ ~Releasing(byAccount) /\ ~live[byAccount].linkdead /\ live[byAccount].c # live[k].c

(* Mutant: the Session's closing flag is not read under the lock. *)
RefusedNeverClosing(k) ==
  \/ live[k].c \in switching /\ ~Switches(k)
  \/ live[k].c \in deleting \/ status[live[k].c] # "active"

(* Mutant: the status is not read again under the lock a delete holds. *)
RefusedByClosingOnly(k) ==
  sess[live[k].s] # "open" \/ (live[k].c \in switching /\ ~Switches(k))

(* Under the lock and past the flag in the way, the registration is refused. *)
Refused(k) ==
  \/ sess[live[k].s] # "open"
  \/ live[k].c \in switching /\ ~Switches(k)
  \/ live[k].c \in deleting \/ status[live[k].c] # "active"

Fails(k) == call' = [call EXCEPT ![k].pc = "done"]

(* The call's context ends while it waits, or the Account is already live. *)
SelectRefused(k) ==
  /\ call[k].pc = "select" /\ byAccount # 0
  /\ AwaitsTeardown(k) \/ (~Reconnects(k) /\ ~Switches(k))
  /\ Fails(k)
  /\ UNCHANGED <<sessVars, live, byAccount, bySession, switching, deleting, status, worldVars, faults, deletes>>

(* The locked section that installs the flag.  A hold it reconnects is dropped first. *)
SelectLocked(k) ==
  LET cur == byAccount
      taken == IF Reconnects(k) THEN cur ELSE 0
      old == IF Switches(k) THEN cur ELSE 0 IN
  /\ call[k].pc = "select" /\ ~AwaitsTeardown(k)
  /\ cur = 0 \/ taken # 0 \/ old # 0
  /\ \/ /\ Refused(k) /\ Fails(k)
        /\ byAccount' = IF taken # 0 THEN 0 ELSE cur
        /\ bySession' = IF taken # 0 THEN DroppedSession(cur) ELSE bySession
        /\ UNCHANGED <<live, switching>>
     \/ /\ ~Refused(k)
        /\ call' = [call EXCEPT ![k] = [pc |-> IF old # 0 THEN "switch" ELSE "bind", sw |-> old]]
        /\ live' = [j \in Calls |->
             IF j = k THEN [live[k] EXCEPT !.prev = taken]
             ELSE IF j = old THEN [live[j] EXCEPT !.tear = "switched"] ELSE live[j]]
        /\ switching' = IF old # 0 THEN switching \cup {live[old].c} ELSE switching
        /\ byAccount' = k
        /\ bySession' = [bySession EXCEPT ![live[k].s] = k]
  /\ UNCHANGED <<sessVars, deleting, status, worldVars, faults, deletes>>

(* produceSwitchUnbind, and what a failure puts back. *)
SwitchUnbinds(k) ==
  LET old == call[k].sw IN
  /\ call[k].pc = "switch"
  /\ \E ok \in BOOLEAN :
       /\ Produce(live[old].c, "unbind", ok)
       /\ \/ /\ ok
             /\ call' = [call EXCEPT ![k].pc = "bind"]
             /\ switching' = switching \ {live[old].c}
             /\ UNCHANGED <<live, byAccount, bySession, muddied>>
          \/ /\ ~ok /\ Releasing(k)
             /\ call' = [call EXCEPT ![k].pc = "orphan"]
             /\ byAccount' = Dropped(k) /\ bySession' = DroppedSession(k)
             /\ muddied' = TRUE /\ UNCHANGED <<live, switching>>
          \/ /\ ~ok /\ ~Releasing(k) /\ Fails(k)
             /\ live' = [live EXCEPT ![old].tear = "none"]
             /\ byAccount' = old /\ bySession' = [bySession EXCEPT ![live[k].s] = old]
             /\ switching' = switching \ {live[old].c} /\ UNCHANGED muddied
  /\ UNCHANGED <<sessVars, deleting, status, deletes, body, ends>>

(* releaseOrphanedSwitch: the first body quits, and its claim ends. *)
ReleaseOrphanedSwitch(k) ==
  LET c == live[call[k].sw].c IN
  /\ call[k].pc = "orphan" /\ Fails(k)
  /\ \E ok \in BOOLEAN : Produce(c, "unbind", ok)
  /\ switching' = switching \ {c}
  /\ UNCHANGED <<sessVars, live, byAccount, bySession, deleting, status, deletes, body, ends, muddied>>

(* Mutant: the hold is put back although its body despawned meanwhile. *)
PutBackEnded(k) ==
  IF live[k].prev # 0 /\ Dropped(k) = 0 THEN live[k].prev ELSE Dropped(k)

(* A bind that failed puts back the hold it took over, if that has not ended. *)
PutBack(k) ==
  LET p == live[k].prev IN
  IF p # 0 /\ ~live[p].ended /\ Dropped(k) = 0 THEN p ELSE Dropped(k)

BindProduces(k) ==
  /\ call[k].pc = "bind" /\ call' = [call EXCEPT ![k].pc = "done"]
  /\ \E ok \in BOOLEAN :
       /\ Produce(live[k].c, "bind", ok)
       /\ \/ /\ ok
             /\ live' = [live EXCEPT ![k].confirmed = TRUE, ![k].prev = 0]
             /\ UNCHANGED <<byAccount, bySession>>
          \/ /\ ~ok
             /\ byAccount' = PutBack(k) /\ bySession' = DroppedSession(k)
             /\ UNCHANGED live
  /\ UNCHANGED <<sessVars, switching, deleting, status, deletes, body, ends, muddied>>

(* --------------------------- delete and purge ---------------------------- *)

DeleteClaims(c) ==
  /\ deletes < MaxDeletes /\ deletes' = deletes + 1
  /\ \E s \in Sessions : sess[s] = "open"
  /\ ~(byAccount # 0 /\ live[byAccount].c = c) /\ c \notin switching /\ c \notin deleting
  /\ deleting' = deleting \cup {c}
  /\ UNCHANGED <<sessVars, flagVars, status, worldVars, faults>>

(* The Account store flips the status, or fails; the claim ends. *)
DeleteFlips(c) ==
  /\ c \in deleting /\ deleting' = deleting \ {c}
  /\ \E st \in {status[c], IF status[c] = "active" THEN "deleted" ELSE status[c]} :
       status' = [status EXCEPT ![c] = st]
  /\ UNCHANGED <<sessVars, flagVars, worldVars, faults, deletes>>

(* Sweep of a Character past its retention: the mark follows a durable produce. *)
SweepPurges(c) ==
  /\ status[c] = "deleted"
  /\ \E ok \in BOOLEAN :
       /\ Produce(c, "purge", ok)
       /\ status' = IF ok THEN [status EXCEPT ![c] = "purged"] ELSE status
  /\ UNCHANGED <<sessVars, flagVars, deleting, deletes, body, ends, muddied>>

(* -------------------------------- the tick ------------------------------- *)

(* What record r makes of a body: the handlers of sim/character.go, linkdead.go, purge.go. *)
Applied(r, b) ==
  CASE r = "bind" -> "present"
    [] r = "unbind" -> IF b \in {"present", "linkdead"} THEN "dormant" ELSE b
    [] r = "mark" -> IF b = "present" THEN "linkdead" ELSE b
    [] r = "purge" -> "none"

(* A linkdead body that despawned is reported (LinkdeadEnded); a bind is a reconnect. *)
Becomes(c, b) ==
  /\ body' = [body EXCEPT ![c] = b]
  /\ ends' = IF body[c] = "linkdead" /\ b \in {"dormant", "none"} THEN ends \cup {c} ELSE ends

Apply(c) ==
  /\ clog[c] # <<>> /\ clog' = [clog EXCEPT ![c] = Tail(@)]
  /\ Becomes(c, Applied(Head(clog[c]), body[c]))
  /\ UNCHANGED <<sessVars, flagVars, deleting, status, late, faults, deletes, muddied>>

(* The grace (linkdead_grace, minutes) outlasts what is left of the teardown that *)
(* marked the body (produce_deadline, seconds).                                   *)
LinkdeadExpires(c) ==
  /\ \A k \in Calls : live[k].tear = "logged" => live[k].c # c
  /\ body[c] = "linkdead" /\ Becomes(c, "dormant")
  /\ UNCHANGED <<sessVars, flagVars, deleting, status, clog, late, faults, deletes, muddied>>

Lands(rec) ==
  /\ rec \in late /\ late' = late \ {rec}
  /\ \/ clog' = [clog EXCEPT ![rec[1]] = Append(@, rec[2])] /\ muddied' = TRUE
     \/ UNCHANGED <<clog, muddied>>
  /\ UNCHANGED <<sessVars, flagVars, deleting, status, body, ends, faults, deletes>>

(* ObserveLinkdead: a hold is freed; a hold a reconnect has taken is marked ended. *)
ObserveLinkdead(c) ==
  LET l == byAccount IN
  /\ c \in ends /\ ends' = ends \ {c}
  /\ \/ /\ l # 0 /\ live[l].linkdead /\ live[l].c = c
        /\ byAccount' = 0 /\ bySession' = DroppedSession(l)
        /\ UNCHANGED live
     \/ /\ ~(l # 0 /\ live[l].linkdead /\ live[l].c = c)
        /\ live' = IF l # 0 /\ live[l].prev # 0 /\ live[l].c = c
                   THEN [live EXCEPT ![live[l].prev].ended = TRUE] ELSE live
        /\ UNCHANGED <<byAccount, bySession>>
  /\ UNCHANGED <<sessVars, call, switching, deleting, status, clog, late, body, faults, deletes, muddied>>

(* A crash and the recovery after it: MarkOrphans marks the bodies left present. *)
Crash ==
  /\ faults < MaxFaults /\ faults' = faults + 1
  /\ conn' = {s \in conn : sess[s] = "none"}
  /\ sess' = [s \in Sessions |-> IF sess[s] = "none" THEN "none" ELSE "closed"]
  /\ call' = [k \in Calls |-> IF call[k].pc = "idle" THEN call[k] ELSE [pc |-> "done", sw |-> 0]]
  /\ live' = [k \in Calls |-> NoLive] /\ byAccount' = 0 /\ bySession' = [s \in Sessions |-> 0]
  /\ switching' = {} /\ deleting' = {} /\ ends' = {} /\ muddied' = TRUE
  /\ \E marked \in SUBSET {c \in Characters : body[c] = "present"} :
       clog' = [c \in Characters |-> IF c \in marked THEN Append(clog[c], "mark") ELSE clog[c]]
  /\ UNCHANGED <<sessEnd, status, late, body, deletes>>

RosterNext ==
  \/ \E s \in Sessions :
       \/ OpenSession(s) \/ ConnClosed(s) \/ CloseSession(s) \/ ReleaseSession(s)
       \/ \E k \in Calls, c \in Characters : SelectCharacter(k, s, c)
  \/ \E k \in Calls :
       \/ TeardownProduces(k) \/ TeardownEnds(k) \/ SelectRefused(k) \/ SelectLocked(k)
       \/ SwitchUnbinds(k) \/ ReleaseOrphanedSwitch(k) \/ BindProduces(k)
  \/ \E c \in Characters :
       \/ DeleteClaims(c) \/ DeleteFlips(c) \/ SweepPurges(c) \/ Apply(c)
       \/ LinkdeadExpires(c) \/ ObserveLinkdead(c)
  \/ \E rec \in late : Lands(rec)
  \/ Crash

RosterSpec == RosterInit /\ [][RosterNext]_rosterVars

--------------------------------------------------------------------------------

Running(k) == call[k].pc \in {"switch", "orphan", "bind"}
Tearing(k) == live[k].tear \in {"produce", "logged", "failed"}

(* The variables' types. *)
RosterTypeOK ==
  /\ conn \subseteq Sessions
  /\ sess \in [Sessions -> {"none", "open", "closing", "closed"}]
  /\ sessEnd \in [Sessions -> {"quit", "linkdead"}]
  /\ \A k \in Calls : call[k].pc \in {"idle", "select", "switch", "orphan", "bind", "done"}
  /\ byAccount \in 0..MaxSelects /\ bySession \in [Sessions -> 0..MaxSelects]
  /\ switching \subseteq Characters /\ deleting \subseteq Characters
  /\ status \in [Characters -> {"active", "deleted", "purged"}]
  /\ \A c \in Characters : clog[c] \in Seq(Records)
  /\ late \subseteq Characters \X Records /\ ends \subseteq Characters
  /\ body \in [Characters -> {"none", "dormant", "present", "linkdead"}]

(* The Account is never locked out: the flag it holds is owned by someone who *)
(* will free it or by whoever plays -- a call still binding, a teardown, an   *)
(* open Session that holds it, or a linkdead hold.  (The leak of the closing  *)
(* check, roster.go:404.)                                                     *)
FlagOwned ==
  /\ byAccount # 0 =>
       \/ Running(byAccount) \/ Tearing(byAccount) \/ live[byAccount].linkdead
       \/ /\ live[byAccount].confirmed /\ bySession[live[byAccount].s] = byAccount
          /\ sess[live[byAccount].s] \in {"open", "closing"}
  /\ \A s \in Sessions : sess[s] = "open" => s \in conn
  /\ \A c \in switching : \E k \in Calls :
       call[k].pc \in {"switch", "orphan"} /\ live[call[k].sw].c = c

(* Of a delete and a select of one Character exactly one wins: a Character    *)
(* that is not ACTIVE has no flag and no switch that would give it one back,  *)
(* and, while no produce failed, no live body once its records are applied    *)
(* (roster.go:419-431, 985-994).  Stated while no record that nobody answers  *)
(* for may be in the log: a failed produce's, an orphaned switch's, or that   *)
(* of a switch overtaken by its Session's teardown (muddied), for which       *)
(* NoBodyOutlivesDelete fails.                                                *)
NeverLiveDeleted ==
  ~muddied => \A c \in Characters : status[c] # "active" =>
    /\ byAccount # 0 => live[byAccount].c # c
    /\ c \notin switching
    /\ faults = 0 /\ clog[c] = <<>> => body[c] # "present"


(* A linkdead hold is for a body that can still end or be reconnected: the    *)
(* mark is to be applied, the body is linkdead, or its end is to be observed. *)
(* Only a record nobody answers for any more can break this.                  *)
HoldHasBody ==
  byAccount # 0 /\ live[byAccount].linkdead /\ ~muddied =>
    LET c == live[byAccount].c IN
    body[c] \in {"linkdead", "present"} \/ clog[c] # <<>> \/ c \in ends \/ Running(byAccount)

(* One live body per Account while every record is applied and no produce     *)
(* failed: any other select is already_live until the linkdead body's despawn *)
(* frees the flag (roster.go:667-670).                                        *)
OneLiveBody ==
  /\ \A c \in Characters : clog[c] = <<>>
  /\ faults = 0
  => Cardinality({c \in Characters : body[c] \in {"present", "linkdead"}}) <= 1

================================================================================
