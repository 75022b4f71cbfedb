-------------------------------- MODULE Bindings --------------------------------
(******************************************************************************)
(* The routing table (server/ingress/bindings.go): which Session drives a     *)
(* Character, and how long an Intent is held while the Character is between   *)
(* Zones.  One Character and the Sessions that may be bound to it; an Intent  *)
(* is a goroutine in Binding, whose steps are its locked sections and its     *)
(* wait.  Transits are numbered as they begin.                                *)
(******************************************************************************)
EXTENDS Integers, FiniteSets

CONSTANTS
  BindSessions,  \* the Sessions that bind the Character
  MaxTransits    \* bound: crossings

ASSUME BindingsAssumption == IsFiniteSet(BindSessions) /\ MaxTransits \in Nat

VARIABLES
  bindOf,   \* each Session's binding: [st, transit, expired]
  byActor,     \* the Sessions the Character is bound to, at most one
  transits,    \* how many transits began
  settled,     \* the transits whose settled channel is closed
  ripe,        \* the transits whose hold has passed on the clock
  intent       \* each Session's Intent in Binding: [pc, transit]

bindVars == <<bindOf, byActor, transits, settled, ripe, intent>>

Unbound == [st |-> "unbound", transit |-> 0, expired |-> FALSE]
Settled == [st |-> "settled", transit |-> 0, expired |-> FALSE]
NoIntent == [pc |-> "none", transit |-> 0]

BindingsInit ==
  /\ bindOf = [s \in BindSessions |-> Unbound] /\ byActor = {}
  /\ transits = 0 /\ settled = {} /\ ripe = {}
  /\ intent = [s \in BindSessions |-> NoIntent]

(* A transit of one of the Sessions S that is abandoned or over. *)
SessionCloses(S) == settled' = settled \cup ({bindOf[s].transit : s \in S} \ {0})

(* Whoever had the Character keeps the binding. *)
BindSessionBeside(s) ==
  /\ SessionCloses({s})
  /\ bindOf' = [bindOf EXCEPT ![s] = Settled]
  /\ byActor' = {s}
  /\ UNCHANGED <<transits, ripe, intent>>

(* unbindLocked of the Session and of whoever had the Character, then the new binding. *)
BindSession(s) ==
  /\ SessionCloses({s} \cup byActor)
  /\ bindOf' = [t \in BindSessions |->
       IF t = s THEN Settled ELSE IF t \in byActor THEN Unbound ELSE bindOf[t]]
  /\ byActor' = {s}
  /\ UNCHANGED <<transits, ripe, intent>>

UnbindSession(s) ==
  /\ SessionCloses({s})
  /\ bindOf' = [bindOf EXCEPT ![s] = Unbound]
  /\ byActor' = byActor \ {s}
  /\ UNCHANGED <<transits, ripe, intent>>

(* Publish of a CharacterLeft: a transit begins, unless one has. *)
CharacterLeft ==
  /\ transits < MaxTransits
  /\ \E s \in byActor :
       /\ bindOf[s].transit = 0
       /\ bindOf' = [bindOf EXCEPT ![s] =
            [st |-> "transit", transit |-> transits + 1, expired |-> FALSE]]
  /\ transits' = transits + 1
  /\ UNCHANGED <<byActor, settled, ripe, intent>>

(* Publish of a CharacterArrived, EntityRelocated or CharacterReconnected. *)
CharacterArrived ==
  /\ byActor # {} /\ SessionCloses(byActor)
  /\ bindOf' = [t \in BindSessions |-> IF t \in byActor THEN Settled ELSE bindOf[t]]
  /\ UNCHANGED <<byActor, transits, ripe, intent>>

(* The clock: ingress.transit_hold has passed since the transit began. *)
HoldPasses(n) ==
  /\ n \in 1..transits /\ ripe' = ripe \cup {n}
  /\ UNCHANGED <<bindOf, byActor, transits, settled, intent>>

(* Binding's locked section: unbound, settled or expired is answered at once; *)
(* else the Intent waits for the transit it has read.                         *)
ReadBinding(s) ==
  /\ \/ intent[s].pc = "none"
     \/ intent[s].pc = "held" /\ intent[s].transit \in settled
  /\ intent' = [intent EXCEPT ![s] =
       IF bindOf[s].transit # 0 /\ ~bindOf[s].expired
         THEN [pc |-> "held", transit |-> bindOf[s].transit]
         ELSE NoIntent]
  /\ UNCHANGED <<bindOf, byActor, transits, settled, ripe>>

(* The caller's context ends in the wait. *)
HeldCanceled(s) ==
  /\ intent[s].pc = "held"
  /\ intent' = [intent EXCEPT ![s] = NoIntent]
  /\ UNCHANGED <<bindOf, byActor, transits, settled, ripe>>

(* The wait is over by the clock: select may take the timer although the     *)
(* transit has ended too.                                                     *)
TimerFires(s) ==
  /\ intent[s].pc = "held" /\ intent[s].transit \in ripe
  /\ intent' = [intent EXCEPT ![s].pc = "expire"]
  /\ UNCHANGED <<bindOf, byActor, transits, settled, ripe>>

(* Mutant: whatever transit the Session is in is marked. *)
ExpireAny(s) ==
  /\ intent[s].pc = "expire"
  /\ bindOf' = [bindOf EXCEPT ![s].expired = (bindOf[s].transit # 0)]
  /\ intent' = [intent EXCEPT ![s] = NoIntent]
  /\ UNCHANGED <<byActor, transits, settled, ripe>>

(* expire: only the transit that was waited for is marked. *)
Expire(s) ==
  /\ intent[s].pc = "expire"
  /\ bindOf' = [bindOf EXCEPT ![s].expired = @ \/ bindOf[s].transit = intent[s].transit]
  /\ intent' = [intent EXCEPT ![s] = NoIntent]
  /\ UNCHANGED <<byActor, transits, settled, ripe>>

BindingsNext ==
  \/ \E s \in BindSessions :
       \/ BindSession(s) \/ UnbindSession(s)
       \/ ReadBinding(s) \/ HeldCanceled(s) \/ TimerFires(s) \/ Expire(s)
  \/ CharacterLeft \/ CharacterArrived
  \/ \E n \in 1..MaxTransits : HoldPasses(n)

--------------------------------------------------------------------------------
BindingsTypeOK ==
  /\ \A s \in BindSessions :
       /\ bindOf[s].st \in {"unbound", "settled", "transit"}
       /\ (bindOf[s].st = "transit") = (bindOf[s].transit # 0)
       /\ intent[s].pc \in {"none", "held", "expire"}
  /\ byActor = {s \in BindSessions : bindOf[s].st # "unbound"}

(* An Intent is refused in_transit without being held only when the transit    *)
(* its Session is in has itself run out of its hold: the timer of an Intent    *)
(* that waited for an earlier transit, or under an earlier binding, takes      *)
(* nothing from this one.  And no Intent waits for a transit that has ended    *)
(* without being woken, so it never waits for one the Session has left behind. *)
HoldIsItsOwn ==
  \A s \in BindSessions :
    /\ bindOf[s].expired => bindOf[s].transit \in ripe
    /\ intent[s].pc = "held" /\ intent[s].transit # bindOf[s].transit
         => intent[s].transit \in settled

================================================================================
