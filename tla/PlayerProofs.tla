----------------------------- MODULE PlayerProofs -----------------------------
(***************************************************************************)
(* Proofs about who may play and what a player sees: the Partition's health  *)
(* (PartitionHealth), the bindings (Bindings), the roster (Roster) and the   *)
(* Event stream (Stream), for any number of producers, Sessions, Characters, *)
(* calls, faults, Events, subscriptions and reconnects.  The flag of an      *)
(* Account is always owned; a hold has its body, and a Character with a body *)
(* is not deleted, unless two calls shared a claim or a switch overtaken by  *)
(* the teardown went on.  What the client was sent is everything in its      *)
(* sight since the last Resync.                                              *)
(***************************************************************************)
EXTENDS Roster, Bindings, PartitionHealth, Stream, Integers, SequenceTheorems, WellFoundedInduction, TLAPS

-------------------------------------------------------------------------------
(* The least of a set of naturals. *)

(* A set of naturals that is not empty has a least element. *)
LEMMA LeastNatural ==
  ASSUME NEW S \in SUBSET Nat, S # {}
  PROVE  \E n \in S : \A x \in S : n <= x
<1> DEFINE R == {r \in Nat \X Nat : r[1] < r[2]}
<1>1. IsWellFoundedOn(R, Nat)
  <2>1. OpToRel(<, Nat) = R
    BY DEF OpToRel
  <2> QED BY <2>1, NatLessThanWellFounded
<1>2. PICK n \in S : \A x \in S : <<x, n>> \notin R
  BY <1>1, WFMin, Zenon
<1>3. \A x \in S : ~(x < n)
  BY <1>2
<1> QED BY <1>3

-------------------------------------------------------------------------------
(* The Partition's health. *)

(* The variables' types, those a step reads; and a client said to be built    *)
(* since the last recovery is there to be kept.                               *)
HealthInv ==
  /\ HealthTypeOK
  /\ probeMark \in BOOLEAN /\ degraded \in BOOLEAN /\ since \in BOOLEAN /\ gauge \in BOOLEAN
  /\ notice \in [Publishers -> [pc : {"none", "gauge", "set", "drop"}, degraded : BOOLEAN,
                                read : BOOLEAN]]
  /\ submit \in [Producers -> [pc : {"none", "checked", "produced"},
                               heard : {"nothing", "ok", "refused"}]]
  /\ since => current # 0

(* A Partition that is healthy, nothing probed and nothing submitted. *)
LEMMA HealthInitInv == HealthInit => HealthInv
<1> SUFFICES ASSUME HealthInit PROVE HealthInv
  OBVIOUS
<1> USE HealthAssumption DEF HealthInit, Quiet, NoSubmit
<1>1. notice \in [Publishers -> [pc : {"none", "gauge", "set", "drop"}, degraded : BOOLEAN,
                                read : BOOLEAN]]
  OBVIOUS
<1>2. submit \in [Producers -> [pc : {"none", "checked", "produced"},
                               heard : {"nothing", "ok", "refused"}]]
  OBVIOUS
<1>3. \A g \in Publishers : notice[g].pc \in {"none", "gauge", "set", "drop"}
  BY <1>1
<1>4. degraded = (produceMark # "none" \/ probeMark)
  BY Zenon
<1>5. current \in 0..clients /\ clients \in 0..MaxClients /\ leaderMiss \in 0..2 /\ metadataMiss \in 0..2
  OBVIOUS
<1>6. probeMark \in BOOLEAN /\ degraded \in BOOLEAN /\ since \in BOOLEAN /\ gauge \in BOOLEAN
      /\ produceMark \in {"none", "held", "ripe"} /\ (since => current # 0)
  BY Zenon
<1> QED BY <1>1, <1>2, <1>3, <1>4, <1>5, <1>6, Zenon DEF HealthInv, HealthTypeOK

(* What settleLocked leaves: the flag follows the marks. *)
LEMMA SettleKeeps ==
  ASSUME HealthInv, NEW g \in Publishers, NEW produce \in {"none", "held", "ripe"},
         NEW probe \in BOOLEAN, SettleLocked(g, produce, probe)
  PROVE  /\ produceMark' \in {"none", "held", "ripe"} /\ probeMark' \in BOOLEAN
         /\ degraded' = (produceMark' # "none" \/ probeMark') /\ degraded' \in BOOLEAN
         /\ since' \in BOOLEAN /\ (since' => since)
         /\ (since' => (degraded' <=> degraded))
         /\ notice' \in [Publishers -> [pc : {"none", "gauge", "set", "drop"},
                                        degraded : BOOLEAN, read : BOOLEAN]]
<1> DEFINE now == produce # "none" \/ probe
<1>1. now \in BOOLEAN
  OBVIOUS
<1>2. produceMark' = produce /\ probeMark' = probe /\ degraded' = now
      /\ since' = (since /\ (now = degraded))
      /\ notice' = IF now = degraded THEN notice
                   ELSE [notice EXCEPT ![g] = [pc |-> "gauge", degraded |-> now, read |-> FALSE]]
  BY Zenon DEF SettleLocked
<1> HIDE DEF now
<1>3. notice' \in [Publishers -> [pc : {"none", "gauge", "set", "drop"},
                                        degraded : BOOLEAN, read : BOOLEAN]]
  <2>1. [pc |-> "gauge", degraded |-> now, read |-> FALSE] \in
        [pc : {"none", "gauge", "set", "drop"}, degraded : BOOLEAN, read : BOOLEAN]
    BY <1>1
  <2> QED BY <1>2, <2>1 DEF HealthInv
<1>4. since' \in BOOLEAN /\ (since' => since) /\ (since' => (degraded' <=> degraded))
  BY <1>1, <1>2 DEF HealthInv
<1> QED BY <1>1, <1>2, <1>3, <1>4 DEF now

(* A step keeps HealthInv and never takes a client built since. *)
LEMMA HealthStep ==
  ASSUME HealthInv, [HealthNext]_healthVars
  PROVE  HealthInv' /\ (since /\ ~degraded' => current' = current)
<1> USE HealthAssumption
<1> DEFINE Notices == [pc : {"none", "gauge", "set", "drop"}, degraded : BOOLEAN, read : BOOLEAN]
           Submits == [pc : {"none", "checked", "produced"}, heard : {"nothing", "ok", "refused"}]
<1>t. /\ produceMark \in {"none", "held", "ripe"} /\ leaderMiss \in 0..2 /\ metadataMiss \in 0..2
      /\ current \in 0..clients /\ clients \in 0..MaxClients
      /\ degraded = (produceMark # "none" \/ probeMark)
      /\ probeMark \in BOOLEAN /\ degraded \in BOOLEAN /\ since \in BOOLEAN /\ gauge \in BOOLEAN
      /\ notice \in [Publishers -> Notices] /\ submit \in [Producers -> Submits]
      /\ (since => current # 0)
  BY DEF HealthInv, HealthTypeOK
<1>a. \A g \in Publishers : notice[g] \in Notices /\ notice[g].pc \in {"none", "gauge", "set", "drop"}
                            /\ notice[g].degraded \in BOOLEAN /\ notice[g].read \in BOOLEAN
  BY <1>t
<1>b. \A p \in Producers : submit[p] \in Submits
  BY <1>t
<1>c. SUFFICES /\ produceMark' \in {"none", "held", "ripe"} /\ leaderMiss' \in 0..2
               /\ metadataMiss' \in 0..2
               /\ current' \in 0..clients' /\ clients' \in 0..MaxClients
               /\ degraded' = (produceMark' # "none" \/ probeMark')
               /\ probeMark' \in BOOLEAN /\ degraded' \in BOOLEAN /\ since' \in BOOLEAN
               /\ gauge' \in BOOLEAN
               /\ notice' \in [Publishers -> Notices] /\ submit' \in [Producers -> Submits]
               /\ (since' => current' # 0)
               /\ (since /\ ~degraded' => current' = current)
  <2>1. notice' \in [Publishers -> Notices] =>
          \A g \in Publishers : notice'[g].pc \in {"none", "gauge", "set", "drop"}
    OBVIOUS
  <2> QED BY <2>1 DEF HealthInv, HealthTypeOK
<1> HIDE DEF Notices, Submits
<1>1. CASE ObserveProbe
  <2>1. leaderMiss' \in 0..2 /\ metadataMiss' \in 0..2
    <3>1. \/ metadataMiss' = AtMostTwo(metadataMiss + 1) /\ leaderMiss' = 0
          \/ metadataMiss' = 0 /\ leaderMiss' = AtMostTwo(leaderMiss + 1)
          \/ metadataMiss' = 0 /\ leaderMiss' = 0
      BY <1>1, Zenon DEF ObserveProbe, ProbeFails, ProbeNoLeader, ProbeBelowMinISR, ProbeHealthy
    <3> QED BY <3>1, <1>t DEF AtMostTwo
  <2>2. PICK m \in {"none", "held", "ripe"}, b \in BOOLEAN : SettleLocked(Probe, m, b)
    <3>1. Healed \in {"none", "held", "ripe"}
      BY <1>t DEF Healed
    <3>2. (probeMark \/ metadataMiss + 1 >= 2) \in BOOLEAN
          /\ (probeMark \/ leaderMiss + 1 >= 2) \in BOOLEAN
      OBVIOUS
    <3> QED BY <1>1, <1>t, <3>1, <3>2, Zenon DEF ObserveProbe, ProbeFails, ProbeNoLeader,
               ProbeBelowMinISR, ProbeHealthy
  <2>3. UNCHANGED <<gauge, current, clients, submit>>
    BY <1>1 DEF ObserveProbe
  <2>4. Probe \in Publishers
    BY DEF Probe, Publishers
  <2> QED BY <2>1, <2>2, <2>3, <2>4, <1>t, SettleKeeps DEF Notices
<1>2. CASE DegradedHoldPasses
  BY <1>2, <1>t DEF DegradedHoldPasses
<1>3. ASSUME NEW p \in Producers, CheckDegraded(p) PROVE <1>c!1
  <2>1. submit' \in [Producers -> Submits]
    BY <1>3, <1>t DEF CheckDegraded, Submits
  <2> QED BY <2>1, <1>3, <1>t DEF CheckDegraded, healthUnchanged
<1>4. ASSUME NEW p \in Producers, ClientFor(p) PROVE <1>c!1
  <2>1. submit' \in [Producers -> Submits]
    BY <1>4, <1>t DEF ClientFor, Submits
  <2>2. UNCHANGED <<healthUnchanged, notice, gauge>>
    BY <1>4 DEF ClientFor
  <2>3. CASE current # 0 /\ UNCHANGED <<current, clients, since>>
    BY <2>1, <2>2, <2>3, <1>t DEF healthUnchanged
  <2>4. CASE current = 0 /\ clients < MaxClients
             /\ current' = clients + 1 /\ clients' = clients + 1 /\ since' = ~degraded
    <3>1. current' \in 0..clients' /\ clients' \in 0..MaxClients /\ current' # 0 /\ ~since
      BY <2>4, <1>t
    <3>2. since' \in BOOLEAN
      BY <2>4, <1>t
    <3> QED BY <2>1, <2>2, <3>1, <3>2, <1>t DEF healthUnchanged
  <2> QED BY <1>4, <2>3, <2>4 DEF ClientFor
<1>5. ASSUME NEW p \in Producers, PromiseFires(p) PROVE <1>c!1
  <2>1. submit' \in [Producers -> Submits]
    BY <1>5, <1>t DEF PromiseFires, Submits, NoSubmit
  <2>2. p \in Publishers
    BY DEF Publishers
  <2>3. CASE SettleLocked(p, "held", probeMark)
    BY <2>1, <2>2, <2>3, <1>5, <1>t, SettleKeeps DEF Notices, PromiseFires
  <2>4. CASE UNCHANGED <<produceMark, probeMark, degraded, since, notice>>
    BY <2>1, <2>4, <1>5, <1>t DEF PromiseFires
  <2> QED BY <1>5, <2>3, <2>4 DEF PromiseFires
<1>6. ASSUME NEW word \in {"ok", "refused"}, NoteProduceResponse(word) PROVE <1>c!1
  <2>1. submit' \in [Producers -> Submits]
    BY <1>6, <1>t DEF NoteProduceResponse, Submits
  <2> QED BY <2>1, <1>6, <1>t DEF NoteProduceResponse, healthUnchanged
<1>7. ASSUME NEW g \in Publishers, ReadFlag(g) PROVE <1>c!1
  <2>1. notice' \in [Publishers -> Notices]
    BY <1>7, <1>t, ZenonT(40) DEF ReadFlag, Notices
  <2> QED BY <2>1, <1>7, <1>t DEF ReadFlag, healthUnchanged
<1>8. ASSUME NEW g \in Publishers, SetGauge(g) PROVE <1>c!1
  <2>1. notice' \in [Publishers -> Notices]
    BY <1>8, <1>t DEF SetGauge, Notices
  <2> QED BY <2>1, <1>8, <1>t, <1>a DEF SetGauge, healthUnchanged
<1>9. ASSUME NEW g \in Publishers, IfDegraded(g) PROVE <1>c!1
  <2>1. notice' \in [Publishers -> Notices]
    BY <1>9, <1>t DEF IfDegraded, Notices, Quiet
  <2>2. since' \in BOOLEAN /\ (since' => since /\ current' # 0)
    BY <1>9, <1>t DEF IfDegraded
  <2>3. current' \in 0..clients /\ clients' = clients /\ (~degraded => current' = current)
    BY <1>9, <1>t DEF IfDegraded
  <2> QED BY <2>1, <2>2, <2>3, <1>9, <1>t DEF IfDegraded, healthUnchanged
<1>10. CASE UNCHANGED healthVars
  BY <1>10, <1>t DEF healthVars
<1> QED BY <1>1, <1>2, <1>3, <1>4, <1>5, <1>6, <1>7, <1>8, <1>9, <1>10 DEF HealthNext

-------------------------------------------------------------------------------
(* The bindings. *)

BindingStates == [st : {"unbound", "settled", "transit"}, transit : Nat, expired : BOOLEAN]
IntentStates == [pc : {"none", "held", "expire"}, transit : Nat]

(* What Binding's Intents may rely on, beside HoldIsItsOwn: a timer fires     *)
(* only for a transit whose hold has passed.                                  *)
BindingsInv ==
  /\ bindOf \in [BindSessions -> BindingStates] /\ intent \in [BindSessions -> IntentStates]
  /\ byActor = {s \in BindSessions : bindOf[s].st # "unbound"}
  /\ transits \in Nat
  /\ \A s \in BindSessions :
       /\ bindOf[s].st = "transit" <=> bindOf[s].transit # 0
       /\ intent[s].pc # "none" => intent[s].transit # 0
       /\ intent[s].pc = "expire" => intent[s].transit \in ripe
       /\ bindOf[s].expired => bindOf[s].transit \in ripe
       /\ intent[s].pc = "held" /\ intent[s].transit # bindOf[s].transit
            => intent[s].transit \in settled

(* Nobody is bound. *)
LEMMA BindingsInitInv == BindingsInit => BindingsInv
BY DEF BindingsInit, BindingsInv, Unbound, NoIntent, BindingStates, IntentStates

(* What it says of the types and of a hold. *)
LEMMA BindingsInvSafe == BindingsInv => BindingsTypeOK /\ HoldIsItsOwn
<1> SUFFICES ASSUME BindingsInv PROVE BindingsTypeOK /\ HoldIsItsOwn
  OBVIOUS
<1>1. HoldIsItsOwn
  BY DEF BindingsInv, HoldIsItsOwn
<1>2. ASSUME NEW s \in BindSessions
      PROVE  /\ bindOf[s].st \in {"unbound", "settled", "transit"}
             /\ (bindOf[s].st = "transit") = (bindOf[s].transit # 0)
             /\ intent[s].pc \in {"none", "held", "expire"}
  <2>1. bindOf[s] \in BindingStates /\ intent[s] \in IntentStates
        /\ (bindOf[s].st = "transit" <=> bindOf[s].transit # 0)
    BY DEF BindingsInv
  <2> QED BY <2>1 DEF BindingStates, IntentStates
<1> QED BY <1>1, <1>2 DEF BindingsTypeOK, BindingsInv

(* Bind, Unbind, Binding with its timer, and the Events of a transit keep it. *)
LEMMA BindingsStep ==
  ASSUME BindingsInv, [BindingsNext]_bindVars
  PROVE  BindingsInv'
<1> DEFINE Good(s) ==
       /\ bindOf[s].st = "transit" <=> bindOf[s].transit # 0
       /\ intent[s].pc # "none" => intent[s].transit # 0
       /\ intent[s].pc = "expire" => intent[s].transit \in ripe
       /\ bindOf[s].expired => bindOf[s].transit \in ripe
       /\ intent[s].pc = "held" /\ intent[s].transit # bindOf[s].transit
            => intent[s].transit \in settled
<1>t. /\ bindOf \in [BindSessions -> BindingStates] /\ intent \in [BindSessions -> IntentStates]
      /\ byActor = {s \in BindSessions : bindOf[s].st # "unbound"}
      /\ transits \in Nat
  BY DEF BindingsInv
<1>g. \A s \in BindSessions : Good(s)
  BY DEF BindingsInv
<1>u. Unbound \in BindingStates /\ Settled \in BindingStates /\ NoIntent \in IntentStates
      /\ Unbound.st = "unbound" /\ Settled.st = "settled" /\ Unbound.transit = 0
      /\ Settled.transit = 0 /\ Unbound.expired = FALSE /\ Settled.expired = FALSE
      /\ NoIntent.pc = "none"
  BY DEF Unbound, Settled, NoIntent, BindingStates, IntentStates
\* The bindings of the Sessions S are replaced by one that is in no transit, and closed.
<1>m. ASSUME NEW S \in SUBSET BindSessions, SessionCloses(S), UNCHANGED <<ripe, intent>>,
             bindOf' \in [BindSessions -> BindingStates],
             \A s \in S : bindOf'[s] \in {Unbound, Settled},
             \A s \in BindSessions \ S : bindOf'[s] = bindOf[s]
      PROVE  \A s \in BindSessions : Good(s)'
  <2> SUFFICES ASSUME NEW s \in BindSessions PROVE Good(s)'
    OBVIOUS
  <2>1. settled \subseteq settled' /\ \A t \in S : bindOf[t].transit # 0 => bindOf[t].transit \in settled'
    BY <1>m DEF SessionCloses
  <2>2. CASE s \in S
    BY <2>1, <2>2, <1>m, <1>g, <1>u
  <2>3. CASE s \notin S
    BY <2>1, <2>3, <1>m, <1>g
  <2> QED BY <2>2, <2>3
<1>c. SUFFICES /\ bindOf' \in [BindSessions -> BindingStates]
               /\ intent' \in [BindSessions -> IntentStates]
               /\ byActor' = {s \in BindSessions : bindOf'[s].st # "unbound"}
               /\ transits' \in Nat
               /\ \A s \in BindSessions : Good(s)'
  BY DEF BindingsInv
<1>1. ASSUME NEW s \in BindSessions, BindSession(s) PROVE <1>c!1
  <2>1. bindOf' \in [BindSessions -> BindingStates]
    BY <1>1, <1>t, <1>u DEF BindSession
  <2>2. \A t \in {s} \cup byActor : bindOf'[t] \in {Unbound, Settled}
    BY <1>1, <1>t DEF BindSession
  <2>3. \A t \in BindSessions \ ({s} \cup byActor) : bindOf'[t] = bindOf[t]
    BY <1>1, <1>t DEF BindSession
  <2>4. byActor' = {t \in BindSessions : bindOf'[t].st # "unbound"}
    BY <1>1, <1>t, <1>u DEF BindSession
  <2>5. SessionCloses({s} \cup byActor) /\ UNCHANGED <<ripe, intent, transits>>
        /\ {s} \cup byActor \in SUBSET BindSessions
    BY <1>1, <1>t DEF BindSession
  <2> QED BY <2>1, <2>2, <2>3, <2>4, <2>5, <1>t, <1>m
<1>2. ASSUME NEW s \in BindSessions, UnbindSession(s) PROVE <1>c!1
  <2>1. bindOf' \in [BindSessions -> BindingStates]
    BY <1>2, <1>t, <1>u DEF UnbindSession
  <2>2. \A t \in {s} : bindOf'[t] \in {Unbound, Settled}
    BY <1>2, <1>t DEF UnbindSession
  <2>3. \A t \in BindSessions \ {s} : bindOf'[t] = bindOf[t]
    BY <1>2, <1>t DEF UnbindSession
  <2>4. byActor' = {t \in BindSessions : bindOf'[t].st # "unbound"}
    BY <1>2, <1>t, <1>u DEF UnbindSession
  <2>5. SessionCloses({s}) /\ UNCHANGED <<ripe, intent, transits>>
    BY <1>2 DEF UnbindSession
  <2> QED BY <2>1, <2>2, <2>3, <2>4, <2>5, <1>t, <1>m
<1>3. CASE CharacterArrived
  <2>1. bindOf' \in [BindSessions -> BindingStates]
    BY <1>3, <1>t, <1>u DEF CharacterArrived
  <2>2. \A t \in byActor : bindOf'[t] \in {Unbound, Settled}
    BY <1>3, <1>t DEF CharacterArrived
  <2>3. \A t \in BindSessions \ byActor : bindOf'[t] = bindOf[t]
    BY <1>3, <1>t DEF CharacterArrived
  <2>4. byActor' = {t \in BindSessions : bindOf'[t].st # "unbound"}
    BY <1>3, <1>t, <1>u DEF CharacterArrived
  <2>5. SessionCloses(byActor) /\ UNCHANGED <<ripe, intent, transits>>
        /\ byActor \in SUBSET BindSessions
    BY <1>3, <1>t DEF CharacterArrived
  <2> QED BY <2>1, <2>2, <2>3, <2>4, <2>5, <1>t, <1>m
<1>4. CASE CharacterLeft
  <2>1. PICK s \in byActor :
          /\ bindOf[s].transit = 0
          /\ bindOf' = [bindOf EXCEPT ![s] =
               [st |-> "transit", transit |-> transits + 1, expired |-> FALSE]]
    BY <1>4 DEF CharacterLeft
  <2>2. s \in BindSessions /\ transits' = transits + 1 /\ UNCHANGED <<byActor, settled, ripe, intent>>
    BY <1>4, <1>t DEF CharacterLeft
  <2>3. [st |-> "transit", transit |-> transits + 1, expired |-> FALSE] \in BindingStates
    BY <1>t DEF BindingStates
  <2>4. bindOf' \in [BindSessions -> BindingStates]
        /\ byActor' = {t \in BindSessions : bindOf'[t].st # "unbound"}
    BY <2>1, <2>2, <2>3, <1>t
  <2>5. ASSUME NEW t \in BindSessions PROVE Good(t)'
    <3>1. CASE t = s
      <4>1. bindOf'[t].transit = transits + 1 /\ bindOf'[t].st = "transit" /\ bindOf'[t].expired = FALSE
        BY <2>1, <2>2, <3>1, <1>t
      <4>2. transits + 1 # 0
        BY <1>t
      <4> QED BY <4>1, <4>2, <2>1, <2>2, <3>1, <1>g
    <3>2. CASE t # s
      BY <2>1, <2>2, <3>2, <1>g, <1>t
    <3> QED BY <3>1, <3>2
  <2>6. transits' \in Nat
    BY <2>2, <1>t
  <2> QED BY <2>2, <2>4, <2>5, <2>6, <1>t
<1>5. ASSUME NEW n \in 1..MaxTransits, HoldPasses(n) PROVE <1>c!1
  BY <1>5, <1>t, <1>g DEF HoldPasses
<1>6. ASSUME NEW s \in BindSessions, ReadBinding(s) PROVE <1>c!1
  <2>0. bindOf[s] \in BindingStates
    BY <1>t
  <2>1. (IF bindOf[s].transit # 0 /\ ~bindOf[s].expired
         THEN [pc |-> "held", transit |-> bindOf[s].transit] ELSE NoIntent) \in IntentStates
    BY <1>u, <2>0 DEF BindingStates, IntentStates
  <2>2. intent' \in [BindSessions -> IntentStates]
    BY <2>1, <1>6, <1>t DEF ReadBinding
  <2>3. UNCHANGED <<bindOf, byActor, transits, settled, ripe>>
    BY <1>6 DEF ReadBinding
  <2>4. ASSUME NEW t \in BindSessions PROVE Good(t)'
    BY <1>6, <1>t, <1>g, <1>u, <2>3 DEF ReadBinding
  <2> QED BY <2>2, <2>3, <2>4, <1>t
<1>7. ASSUME NEW s \in BindSessions, HeldCanceled(s) PROVE <1>c!1
  BY <1>7, <1>t, <1>g, <1>u DEF HeldCanceled
<1>8. ASSUME NEW s \in BindSessions, TimerFires(s) PROVE <1>c!1
  <2>1. intent' \in [BindSessions -> IntentStates]
    BY <1>8, <1>t DEF TimerFires, IntentStates
  <2>2. ASSUME NEW t \in BindSessions PROVE Good(t)'
    <3>1. intent[t] \in IntentStates
      BY <1>t
    <3> QED BY <1>8, <1>t, <1>g, <3>1 DEF TimerFires, IntentStates
  <2> QED BY <1>8, <2>1, <2>2, <1>t DEF TimerFires
<1>9. ASSUME NEW s \in BindSessions, Expire(s) PROVE <1>c!1
  <2>0. bindOf[s] \in BindingStates
    BY <1>t
  <2>1. PICK e : e = (bindOf[s].expired \/ bindOf[s].transit = intent[s].transit)
    OBVIOUS
  <2>2. e \in BOOLEAN /\ (e => bindOf[s].transit \in ripe)
    BY <2>1, <1>9, <1>g DEF Expire
  <2>3. bindOf' = [bindOf EXCEPT ![s].expired = e]
    BY <2>1, <1>9 DEF Expire
  <2>4. intent' = [intent EXCEPT ![s] = NoIntent] /\ UNCHANGED <<byActor, transits, settled, ripe>>
    BY <1>9 DEF Expire
  <2>5. bindOf'[s].st = bindOf[s].st /\ bindOf'[s].transit = bindOf[s].transit /\ bindOf'[s].expired = e
        /\ \A t \in BindSessions \ {s} : bindOf'[t] = bindOf[t]
    BY <2>0, <2>3, <1>t DEF BindingStates
  <2>6. bindOf' \in [BindSessions -> BindingStates]
    BY <2>0, <2>2, <2>3, <1>t DEF BindingStates
  <2>7. byActor' = {t \in BindSessions : bindOf'[t].st # "unbound"}
    BY <2>5, <2>4, <1>t
  <2>8. ASSUME NEW t \in BindSessions PROVE Good(t)'
    BY <2>2, <2>4, <2>5, <1>t, <1>g, <1>u
  <2> QED BY <2>4, <2>6, <2>7, <2>8, <1>t, <1>u
<1>10. CASE UNCHANGED bindVars
  BY <1>10, <1>t, <1>g DEF bindVars
<1> QED BY <1>1, <1>2, <1>3, <1>4, <1>5, <1>6, <1>7, <1>8, <1>9, <1>10 DEF BindingsNext

-------------------------------------------------------------------------------
(* The roster: the flag an Account holds, its owner, and the claims of *)
(* switches.                                                           *)

LiveStates ==
  [s : Sessions \cup {0}, c : Characters \cup {0}, confirmed : BOOLEAN,
   tear : {"none", "produce", "logged", "failed", "released", "switched"},
   end : {"quit", "linkdead"}, linkdead : BOOLEAN, prev : 0..MaxSelects, ended : BOOLEAN]
CallStates ==
  [pc : {"idle", "select", "switch", "orphan", "bind", "done"}, sw : 0..MaxSelects]

FlagTypes ==
  /\ conn \subseteq Sessions
  /\ sess \in [Sessions -> {"none", "open", "closing", "closed"}]
  /\ sessEnd \in [Sessions -> {"quit", "linkdead"}]
  /\ live \in [Calls -> LiveStates] /\ call \in [Calls -> CallStates]
  /\ byAccount \in 0..MaxSelects /\ bySession \in [Sessions -> 0..MaxSelects]
  /\ switching \subseteq Characters
WorldTypes ==
  /\ deleting \subseteq Characters
  /\ status \in [Characters -> {"active", "deleted", "purged"}]
  /\ clog \in [Characters -> Seq(Records)]
  /\ late \subseteq Characters \X Records /\ ends \subseteq Characters
  /\ body \in [Characters -> {"none", "dormant", "present", "linkdead"}]
  /\ muddied \in BOOLEAN

Unbinding(k) == call[k].pc \in {"switch", "orphan"}

(* A call and the flag it makes, at each of its places. *)
CallShape(k) ==
  /\ call[k].pc \in {"idle", "select"} =>
       ~live[k].confirmed /\ live[k].tear = "none" /\ ~live[k].linkdead /\ live[k].prev = 0 /\ call[k].sw = 0
  /\ call[k].pc = "select" \/ Running(k) => live[k].s \in Sessions /\ live[k].c \in Characters
  /\ live[k].linkdead => live[k].tear = "released"
  /\ live[k].tear # "none" => live[k].s \in Sessions /\ live[k].c \in Characters
  /\ Running(k) => ~live[k].confirmed /\ live[k].tear # "switched"
  /\ Running(k) /\ live[k].tear = "none" =>
       byAccount = k /\ bySession[live[k].s] = k /\ sess[live[k].s] \in {"open", "closing"}
  /\ call[k].pc = "bind" /\ call[k].sw = 0 => byAccount = k /\ live[k].tear \in {"none", "produce"}
  /\ Running(k) /\ live[k].prev # 0 =>
       /\ call[k].pc = "bind" /\ call[k].sw = 0
       /\ live[live[k].prev].linkdead /\ live[live[k].prev].c = live[k].c
  /\ call[k].pc = "orphan" => live[k].tear # "none" /\ (byAccount = k => live[k].linkdead)

(* A call that still has to unbind the Character it leaves. *)
SwitchShape(k) ==
  Unbinding(k) =>
    /\ call[k].sw \in Calls /\ call[call[k].sw].pc = "done" /\ live[call[k].sw].tear = "switched"
    /\ live[call[k].sw].confirmed /\ live[call[k].sw].s = live[k].s
    /\ \A j \in Calls : Unbinding(j) /\ j # k => call[j].sw # call[k].sw

(* The flag the Account holds, and those the Sessions hold. *)
HeldShape ==
  byAccount # 0 =>
    /\ call[byAccount].pc \notin {"idle", "select"}
    /\ live[byAccount].s \in Sessions /\ live[byAccount].c \in Characters
    /\ live[byAccount].tear # "switched"
    /\ live[byAccount].tear = "released" => live[byAccount].linkdead
    /\ call[byAccount].pc = "done" /\ ~live[byAccount].linkdead => live[byAccount].confirmed
SessionShape(s) ==
  bySession[s] # 0 =>
    /\ live[bySession[s]].s = s /\ live[bySession[s]].c \in Characters
    /\ call[bySession[s]].pc \notin {"idle", "select"}

FlagInv ==
  /\ FlagTypes /\ HeldShape /\ FlagOwned
  /\ \A k \in Calls : CallShape(k) /\ SwitchShape(k)
  /\ \A s \in Sessions : SessionShape(s)

(* The flag nobody has set. *)
LEMMA NoLiveType == NoLive \in LiveStates
BY RosterAssumption DEF NoLive, LiveStates

(* No flag is set and nobody is connected. *)
LEMMA FlagInit == RosterInit => FlagInv
<1> SUFFICES ASSUME RosterInit PROVE FlagInv
  OBVIOUS
<1>1. FlagTypes
  BY NoLiveType, RosterAssumption DEF RosterInit, FlagTypes, CallStates, Calls
<1>2. HeldShape /\ FlagOwned
  BY DEF RosterInit, HeldShape, FlagOwned
<1>3. ASSUME NEW k \in Calls PROVE CallShape(k) /\ SwitchShape(k)
  BY <1>3 DEF RosterInit, CallShape, SwitchShape, Running, Unbinding, NoLive
<1>4. ASSUME NEW s \in Sessions PROVE SessionShape(s)
  BY DEF RosterInit, SessionShape
<1> QED BY <1>1, <1>2, <1>3, <1>4 DEF FlagInv

(* A step that leaves flags and Sessions alone. *)
LEMMA FlagSame ==
  ASSUME FlagInv, UNCHANGED <<sessVars, flagVars>>
  PROVE  FlagInv'
BY DEF FlagInv, FlagTypes, HeldShape, FlagOwned, CallShape, SwitchShape, SessionShape, Running,
       Unbinding, Tearing, sessVars, flagVars

(* A Session opens, or begins to close: no flag moves. *)
LEMMA FlagSessions ==
  ASSUME FlagInv, NEW s \in Sessions,
         OpenSession(s) \/ ConnClosed(s) \/ CloseSession(s)
  PROVE  FlagInv'
<1>1. /\ UNCHANGED flagVars /\ conn' \subseteq Sessions
      /\ sess' \in [Sessions -> {"none", "open", "closing", "closed"}]
      /\ sessEnd' \in [Sessions -> {"quit", "linkdead"}]
  BY DEF OpenSession, ConnClosed, CloseSession, Closes, FlagInv, FlagTypes
<1>2. \A t \in Sessions : /\ sess[t] \in {"open", "closing"} => sess'[t] \in {"open", "closing"}
                          /\ sess'[t] = "open" => t \in conn'
  BY DEF OpenSession, ConnClosed, CloseSession, Closes, FlagInv, FlagTypes, FlagOwned
<1>3. FlagTypes'
  BY <1>1 DEF FlagInv, FlagTypes, flagVars
<1>4. HeldShape' /\ \A t \in Sessions : SessionShape(t)'
  BY <1>1 DEF FlagInv, HeldShape, SessionShape, flagVars
<1>5. FlagOwned'
  BY <1>1, <1>2 DEF FlagInv, FlagOwned, HeldShape, flagVars, Running, Tearing
<1>6. \A k \in Calls : CallShape(k)' /\ SwitchShape(k)'
  BY <1>1, <1>2 DEF FlagInv, CallShape, SwitchShape, Running, Unbinding, flagVars
<1> QED BY <1>3, <1>4, <1>5, <1>6 DEF FlagInv

(* ReleaseSession. *)
LEMMA FlagReleaseSession ==
  ASSUME FlagInv, NEW s \in Sessions, ReleaseSession(s)
  PROVE  FlagInv'
<1> DEFINE l == bySession[s]
<1>0. l \in 0..MaxSelects /\ (l # 0 => l \in Calls)
  BY RosterAssumption DEF FlagInv, FlagTypes, Calls
<1>u. UNCHANGED <<conn, sessEnd, call, byAccount, bySession, switching>>
  BY DEF ReleaseSession
<1>1. /\ sess[s] = "closing" /\ sess' = [sess EXCEPT ![s] = "closed"]
  BY DEF ReleaseSession
<1>2. CASE l # 0 /\ live[l].tear = "none"
  <2>1. live' = [live EXCEPT ![l].tear = "produce", ![l].end = sessEnd[s]]
    BY <1>2 DEF ReleaseSession, Releasing
  <2>2. live[l] \in LiveStates /\ sessEnd[s] \in {"quit", "linkdead"} /\ l \in Calls
    BY <1>0, <1>2 DEF FlagInv, FlagTypes
  <2>3. live' \in [Calls -> LiveStates]
    BY <2>1, <2>2 DEF FlagInv, FlagTypes, LiveStates
  <2>4. /\ \A j \in Calls \ {l} : live'[j] = live[j]
        /\ live'[l].s = live[l].s /\ live'[l].c = live[l].c /\ live'[l].confirmed = live[l].confirmed
        /\ live'[l].linkdead = live[l].linkdead /\ live'[l].prev = live[l].prev
        /\ live'[l].tear = "produce"
    BY <2>1, <2>2 DEF FlagInv, FlagTypes, LiveStates
  <2> HIDE DEF l
  <2>5. FlagTypes'
    BY <2>3, <1>1, <1>u DEF FlagInv, FlagTypes
  <2>6. HeldShape'
    BY <2>2, <2>4, <1>2, <1>u, <1>0 DEF FlagInv, HeldShape, FlagTypes, Calls
  <2>7. \A t \in Sessions : SessionShape(t)'
    BY <2>2, <2>4, <1>2, <1>u, RosterAssumption, SMTT(40) DEF FlagInv, SessionShape, FlagTypes, Calls
  <2>8. \A k \in Calls : live'[k].c = live[k].c /\ live'[k].s = live[k].s
    BY <2>4
  <2>9. FlagOwned'
    <3>1. \A t \in Sessions : sess'[t] = "open" => t \in conn'
      BY <1>1, <1>u DEF FlagInv, FlagOwned, FlagTypes
    <3>2. \A c \in switching' : \E k \in Calls : call'[k].pc \in {"switch", "orphan"} /\ live'[call'[k].sw].c = c
      BY <1>u, <2>8 DEF FlagInv, FlagOwned, SwitchShape, Unbinding
    <3>3. ASSUME byAccount # 0 PROVE
            \/ Running(byAccount)' \/ Tearing(byAccount)' \/ live'[byAccount].linkdead
            \/ /\ live'[byAccount].confirmed /\ bySession'[live'[byAccount].s] = byAccount
               /\ sess'[live'[byAccount].s] \in {"open", "closing"}
      <4>1. byAccount \in Calls
        BY <3>3, RosterAssumption DEF FlagInv, FlagTypes, Calls
      <4>2. CASE byAccount = l
        BY <4>2, <2>4, <1>u DEF Tearing
      <4>3. CASE byAccount # l
        BY <4>1, <4>3, <2>4, <3>3, <1>1, <1>u DEF FlagInv, FlagOwned, HeldShape, FlagTypes, Running, Tearing, l
      <4> QED BY <4>2, <4>3
    <3> QED BY <1>u, <3>1, <3>2, <3>3 DEF FlagOwned
  <2>10. ASSUME NEW k \in Calls PROVE CallShape(k)' /\ SwitchShape(k)'
    <3>1. CASE k = l
      <4>1. call[k].pc \notin {"idle", "select"} /\ live[k].s = s /\ live[k].c \in Characters
        BY <3>1, <2>2, <1>2 DEF FlagInv, SessionShape, l
      <4>4. live[k].prev # 0 => live[k].prev \in Calls
        BY RosterAssumption DEF FlagInv, FlagTypes, LiveStates, Calls
      <4>2. CallShape(k)'
        BY <3>1, <4>1, <4>4, <2>4, <1>u, <1>2 DEF FlagInv, CallShape, Running
      <4>3. SwitchShape(k)'
        BY <3>1, <2>4, <1>u, <1>2 DEF FlagInv, SwitchShape, Unbinding
      <4> QED BY <4>2, <4>3
    <3>2. CASE k # l
      <4>1. live'[k] = live[k] /\ CallShape(k)
        BY <3>2, <2>4 DEF FlagInv
      <4>2. Running(k) /\ live[k].tear = "none" => live[k].s # s
        BY <3>2, <4>1 DEF CallShape, l
      <4>3. live[k].prev \in 0..MaxSelects
        BY DEF FlagInv, FlagTypes, LiveStates
      <4>4. live[k].prev # 0 => live[k].prev \in Calls
        BY <4>3, RosterAssumption DEF Calls
      <4>5. CallShape(k)'
        BY <4>1, <4>2, <4>4, <2>4, <1>u, <1>1 DEF FlagInv, FlagTypes, CallShape, Running
      <4>6. SwitchShape(k)'
        BY <3>2, <2>4, <1>u, <1>2 DEF FlagInv, SwitchShape, Unbinding
      <4> QED BY <4>5, <4>6
    <3> QED BY <3>1, <3>2
  <2> QED BY <2>5, <2>6, <2>7, <2>9, <2>10 DEF FlagInv
<1>3. CASE ~(l # 0 /\ live[l].tear = "none")
  <2>1. live' = live
    BY <1>3 DEF ReleaseSession, Releasing
  <2>2. FlagTypes'
    BY <2>1, <1>1, <1>u DEF FlagInv, FlagTypes
  <2>3. HeldShape' /\ \A t \in Sessions : SessionShape(t)'
    BY <2>1, <1>u DEF FlagInv, HeldShape, SessionShape
  <2>4. FlagOwned'
    <3>1. byAccount # 0 => byAccount \in Calls
      BY RosterAssumption DEF FlagInv, FlagTypes, Calls
    <3>2. byAccount # 0 => live[byAccount].tear \in
            {"none", "produce", "logged", "failed", "released", "switched"}
      BY <3>1 DEF FlagInv, FlagTypes, LiveStates
    <3>3. \A t \in Sessions : t # s => sess'[t] = sess[t]
      BY <1>1 DEF FlagInv, FlagTypes
    <3>4. sess'[s] = "closed"
      BY <1>1 DEF FlagInv, FlagTypes
    <3> QED BY <2>1, <3>2, <3>3, <3>4, <1>u, <1>3 DEF FlagInv, FlagOwned, HeldShape, Running, Tearing
  <2>5. ASSUME NEW k \in Calls PROVE CallShape(k)' /\ SwitchShape(k)'
    <3>1. \A t \in Sessions : t # s => sess'[t] = sess[t]
      BY <1>1 DEF FlagInv, FlagTypes
    <3>2. Running(k) /\ live[k].tear = "none" => live[k].s # s
      <4>1. k # 0
        BY DEF Calls
      <4> QED BY <1>3, <4>1 DEF FlagInv, CallShape
    <3>3. CallShape(k)'
      BY <2>1, <3>1, <3>2, <1>u DEF FlagInv, CallShape, Running
    <3>4. SwitchShape(k)'
      BY <2>1, <1>u DEF FlagInv, SwitchShape, Unbinding
    <3> QED BY <3>3, <3>4
  <2> QED BY <2>2, <2>3, <2>4, <2>5 DEF FlagInv
<1> QED BY <1>2, <1>3

(* The numbers of the flags. *)
FlagNumbered ==
  /\ byAccount # 0 => byAccount \in Calls
  /\ \A k \in Calls : k # 0 /\ live[k] \in LiveStates /\ call[k] \in CallStates
  /\ \A k \in Calls : live[k].prev # 0 => live[k].prev \in Calls
  /\ \A k \in Calls : live[k].tear \in {"none", "produce", "logged", "failed", "released", "switched"}
  /\ \A k \in Calls : call[k].pc \in {"idle", "select", "switch", "orphan", "bind", "done"}
  /\ \A s \in Sessions : bySession[s] # 0 => bySession[s] \in Calls

(* Flags are numbered by the calls that set them. *)
LEMMA FlagNumbers == FlagInv => FlagNumbered
<1> SUFFICES ASSUME FlagInv PROVE FlagNumbered
  OBVIOUS
<1>1. \A n \in 0..MaxSelects : n # 0 => n \in Calls
  BY RosterAssumption DEF Calls
<1>2. \A k \in Calls : k # 0 /\ live[k] \in LiveStates /\ call[k] \in CallStates
  BY RosterAssumption DEF FlagInv, FlagTypes, Calls
<1>3. \A k \in Calls : live[k].prev \in 0..MaxSelects
  BY <1>2 DEF LiveStates
<1>4. \A k \in Calls : live[k].tear \in {"none", "produce", "logged", "failed", "released", "switched"}
  BY <1>2 DEF LiveStates
<1>5. \A k \in Calls : call[k].pc \in {"idle", "select", "switch", "orphan", "bind", "done"}
  BY <1>2 DEF CallStates
<1>6. byAccount \in 0..MaxSelects /\ \A s \in Sessions : bySession[s] \in 0..MaxSelects
  BY DEF FlagInv, FlagTypes
<1> QED BY <1>1, <1>2, <1>3, <1>4, <1>5, <1>6 DEF FlagNumbered

(* SelectCharacter is called. *)
LEMMA FlagSelectCharacter ==
  ASSUME FlagInv, NEW k \in Calls, NEW s \in Sessions, NEW c \in Characters,
         SelectCharacter(k, s, c)
  PROVE  FlagInv'
<1>u. UNCHANGED <<sessVars, byAccount, bySession, switching>>
  BY DEF SelectCharacter
<1>n. FlagNumbered
  BY FlagNumbers
<1>1. call[k].pc = "idle" /\ call' = [call EXCEPT ![k].pc = "select"]
      /\ live' = [live EXCEPT ![k].s = s, ![k].c = c]
  BY DEF SelectCharacter
<1>2. live' \in [Calls -> LiveStates] /\ call' \in [Calls -> CallStates]
  <2>1. live[k] \in LiveStates /\ call[k] \in CallStates
    BY <1>n DEF FlagNumbered
  <2>2. [live[k] EXCEPT !.s = s, !.c = c] \in LiveStates /\ [call[k] EXCEPT !.pc = "select"] \in CallStates
    BY <2>1 DEF LiveStates, CallStates
  <2> QED BY <1>1, <2>2 DEF FlagInv, FlagTypes
<1>3. /\ \A j \in Calls \ {k} : live'[j] = live[j] /\ call'[j] = call[j]
      /\ live'[k].s = s /\ live'[k].c = c /\ live'[k].confirmed = live[k].confirmed
      /\ live'[k].linkdead = live[k].linkdead /\ live'[k].prev = live[k].prev
      /\ live'[k].tear = live[k].tear /\ call'[k].pc = "select" /\ call'[k].sw = call[k].sw
  BY <1>1, <1>n DEF FlagNumbered, FlagInv, FlagTypes, LiveStates, CallStates
<1>4. byAccount # k /\ \A t \in Sessions : bySession[t] # k
  BY <1>1, <1>n DEF FlagNumbered, FlagInv, HeldShape, SessionShape
<1>5. FlagTypes'
  BY <1>2, <1>u DEF FlagInv, FlagTypes, sessVars
<1>6. HeldShape' /\ \A t \in Sessions : SessionShape(t)'
  BY <1>3, <1>4, <1>u, <1>n DEF FlagNumbered, FlagInv, HeldShape, SessionShape
<1>7. \A j \in Calls : Unbinding(j) => j # k /\ call[j].sw # k /\ call[j].sw \in Calls
  BY <1>1 DEF FlagInv, SwitchShape, Unbinding
<1>8. FlagOwned'
  BY <1>3, <1>4, <1>7, <1>u, <1>n DEF FlagNumbered, FlagInv, FlagOwned, HeldShape, Running, Tearing, Unbinding, sessVars
<1>9. \A j \in Calls : SwitchShape(j)'
  BY <1>3, <1>7, <1>u DEF FlagInv, SwitchShape, Unbinding
<1>10. ASSUME NEW j \in Calls PROVE CallShape(j)'
  <2>1. CASE j = k
    BY <2>1, <1>1, <1>3, <1>u DEF FlagInv, CallShape, Running
  <2>2. CASE j # k
    <3>1. Running(j) /\ live[j].prev # 0 => live[j].prev # k
      BY <1>1 DEF FlagInv, CallShape
    <3> QED BY <2>2, <3>1, <1>3, <1>u, <1>n DEF FlagNumbered, FlagInv, CallShape, Running, sessVars
  <2> QED BY <2>1, <2>2
<1> QED BY <1>5, <1>6, <1>8, <1>9, <1>10 DEF FlagInv

(* The teardown writes its record, or fails to. *)
LEMMA FlagTeardownProduces ==
  ASSUME FlagInv, NEW k \in Calls, TeardownProduces(k)
  PROVE  FlagInv'
<1>u. UNCHANGED <<sessVars, call, byAccount, bySession, switching>>
  BY DEF TeardownProduces
<1>n. FlagNumbered
  BY FlagNumbers
<1>1. /\ live[k].tear = "produce" /\ (call[k].pc = "done" \/ call[k].sw # 0)
  BY DEF TeardownProduces
<1>2. PICK t \in {"logged", "failed"} : live' = [live EXCEPT ![k].tear = t]
  BY DEF TeardownProduces
<1>3. live' \in [Calls -> LiveStates]
  <2>1. live[k] \in LiveStates
    BY <1>n DEF FlagNumbered
  <2>2. [live[k] EXCEPT !.tear = t] \in LiveStates
    BY <2>1 DEF LiveStates
  <2> QED BY <1>2, <2>2 DEF FlagInv, FlagTypes
<1>4. /\ \A j \in Calls \ {k} : live'[j] = live[j]
      /\ live'[k].s = live[k].s /\ live'[k].c = live[k].c /\ live'[k].confirmed = live[k].confirmed
      /\ live'[k].linkdead = live[k].linkdead /\ live'[k].prev = live[k].prev
      /\ live'[k].tear = t
  BY <1>2, <1>n DEF FlagNumbered, FlagInv, FlagTypes, LiveStates
<1>5. FlagTypes'
  BY <1>3, <1>u DEF FlagInv, FlagTypes, sessVars
<1>6. HeldShape'
  BY <1>1, <1>4, <1>u, <1>n DEF FlagNumbered, FlagInv, HeldShape
<1>7. \A s \in Sessions : SessionShape(s)'
  BY <1>4, <1>u, <1>n DEF FlagNumbered, FlagInv, SessionShape
<1>8. \A j \in Calls : live'[j].c = live[j].c /\ live'[j].s = live[j].s
                       /\ live'[j].confirmed = live[j].confirmed /\ live'[j].linkdead = live[j].linkdead
                       /\ live'[j].prev = live[j].prev
  BY <1>4
<1>9. \A j \in Calls : Unbinding(j) => call[j].sw # k /\ call[j].sw \in Calls
  BY <1>1 DEF FlagInv, SwitchShape
<1>10. FlagOwned'
  <2>1. \A c \in switching : \E j \in Calls : call[j].pc \in {"switch", "orphan"} /\ live'[call[j].sw].c = c
    BY <1>8, <1>9 DEF FlagInv, FlagOwned, Unbinding
  <2>2. byAccount = k => live'[k].tear \in {"produce", "logged", "failed"}
    BY <1>4
  <2> QED BY <2>1, <2>2, <1>4, <1>u, <1>n DEF FlagNumbered, FlagInv, FlagOwned, Running, Tearing, sessVars
<1>11. \A j \in Calls : SwitchShape(j)'
  BY <1>4, <1>8, <1>9, <1>u DEF FlagInv, SwitchShape, Unbinding
<1>12. \A j \in Calls : CallShape(j)'
  BY <1>1, <1>4, <1>8, <1>u, <1>n DEF FlagNumbered, FlagInv, CallShape, Running, sessVars
<1> QED BY <1>5, <1>6, <1>7, <1>10, <1>11, <1>12 DEF FlagInv

(* The teardown frees the flag, or leaves it for the hold. *)
LEMMA FlagTeardownEnds ==
  ASSUME FlagInv, NEW k \in Calls, TeardownEnds(k)
  PROVE  FlagInv'
<1>u. UNCHANGED <<sessVars, call, switching>>
  BY DEF TeardownEnds
<1>n. FlagNumbered
  BY FlagNumbers
<1>1. live[k].tear \in {"logged", "failed"}
  BY DEF TeardownEnds
<1>2. PICK h \in BOOLEAN : /\ live' = [live EXCEPT ![k].tear = "released", ![k].linkdead = h]
                           /\ h => byAccount = k
                           /\ byAccount' = IF h THEN byAccount ELSE Dropped(k)
  BY DEF TeardownEnds
<1>3. live' \in [Calls -> LiveStates]
  <2>1. live[k] \in LiveStates
    BY <1>n DEF FlagNumbered
  <2>2. [live[k] EXCEPT !.tear = "released", !.linkdead = h] \in LiveStates
    BY <2>1 DEF LiveStates
  <2> QED BY <1>2, <2>2 DEF FlagInv, FlagTypes
<1>4. /\ \A j \in Calls \ {k} : live'[j] = live[j]
      /\ live'[k].s = live[k].s /\ live'[k].c = live[k].c /\ live'[k].confirmed = live[k].confirmed
      /\ live'[k].linkdead = h /\ live'[k].prev = live[k].prev
      /\ live'[k].tear = "released"
  BY <1>2, <1>n DEF FlagNumbered, FlagInv, FlagTypes, LiveStates
<1>5. bySession' \in [Sessions -> 0..MaxSelects]
      /\ \A s \in Sessions : bySession'[s] = IF bySession[s] = k THEN 0 ELSE bySession[s]
  BY RosterAssumption DEF TeardownEnds, DroppedSession, FlagInv, FlagTypes
<1>6. /\ byAccount' # 0 => byAccount' = byAccount
      /\ byAccount' = k => h
      /\ byAccount # k => byAccount' = byAccount
  BY <1>2, <1>n DEF FlagNumbered, Dropped
<1>7. FlagTypes'
  BY <1>3, <1>5, <1>6, <1>u, RosterAssumption DEF FlagInv, FlagTypes, sessVars
<1>8. HeldShape'
  BY <1>4, <1>6, <1>u, <1>n DEF FlagNumbered, FlagInv, HeldShape
<1>9. \A s \in Sessions : SessionShape(s)'
  BY <1>4, <1>5, <1>u, <1>n DEF FlagNumbered, FlagInv, SessionShape
<1>10. \A j \in Calls : live'[j].c = live[j].c /\ live'[j].s = live[j].s
                       /\ live'[j].confirmed = live[j].confirmed /\ live'[j].prev = live[j].prev
  BY <1>4
<1>11. \A j \in Calls : Unbinding(j) => call[j].sw # k /\ call[j].sw \in Calls
  BY <1>1 DEF FlagInv, SwitchShape
<1>12. FlagOwned'
  <2>1. \A c \in switching : \E j \in Calls : call[j].pc \in {"switch", "orphan"} /\ live'[call[j].sw].c = c
    BY <1>10, <1>11 DEF FlagInv, FlagOwned, Unbinding
  <2>2. CASE byAccount' # 0 /\ byAccount' # k
    <3>1. byAccount' = byAccount /\ byAccount \in Calls /\ live'[byAccount] = live[byAccount]
      BY <2>2, <1>4, <1>6, <1>n DEF FlagNumbered
    <3>2. \A s \in Sessions : bySession[s] = byAccount => bySession'[s] = byAccount
      BY <2>2, <3>1, <1>5
    <3>3. live[byAccount].s \in Sessions
      BY <2>2, <3>1 DEF FlagInv, HeldShape
    <3> QED BY <2>1, <2>2, <3>1, <3>2, <3>3, <1>u DEF FlagInv, FlagOwned, Running, Tearing, sessVars
  <2>3. CASE byAccount' = 0 \/ byAccount' = k
    BY <2>1, <2>3, <1>4, <1>6, <1>u DEF FlagInv, FlagOwned, Running, Tearing, sessVars
  <2> QED BY <2>2, <2>3
<1>13. \A j \in Calls : SwitchShape(j)'
  BY <1>4, <1>10, <1>11, <1>u DEF FlagInv, SwitchShape, Unbinding
<1>14. ASSUME NEW j \in Calls PROVE CallShape(j)'
  <2>1. CASE j = k
    <3>1. CallShape(k)
      BY DEF FlagInv
    <3>2. ~(call[k].pc = "bind" /\ call[k].sw = 0)
      BY <3>1, <1>1 DEF CallShape
    <3>3. call[k].pc \notin {"idle", "select"}
      BY <3>1, <1>1 DEF CallShape
    <3>4. live[k].s \in Sessions /\ live[k].c \in Characters
      BY <3>1, <1>1 DEF CallShape
    <3> QED BY <2>1, <3>1, <3>2, <3>3, <3>4, <1>1, <1>4, <1>6, <1>u DEF CallShape, Running
  <2>2. CASE j # k
    <3>1. CallShape(j)
      BY DEF FlagInv
    <3>2. live'[j] = live[j] /\ call'[j] = call[j]
      BY <2>2, <1>4, <1>u
    <3>3. Running(j) /\ live[j].prev # 0 => live[j].prev # k /\ live[j].prev \in Calls
      BY <3>1, <1>1, <1>n DEF FlagNumbered, CallShape, FlagInv
    <3>4. Running(j) /\ live[j].tear = "none" => byAccount = j /\ byAccount' = j /\ bySession'[live[j].s] = j
      BY <2>2, <3>1, <1>5, <1>6 DEF CallShape
    <3>5. call[j].pc = "bind" /\ call[j].sw = 0 => byAccount' = j
      BY <2>2, <3>1, <1>6 DEF CallShape
    <3>6. byAccount' = j => byAccount = j
      BY <1>6, <1>n DEF FlagNumbered
    <3> QED BY <3>1, <3>2, <3>3, <3>4, <3>5, <3>6, <1>4, <1>u DEF CallShape, Running, sessVars
  <2> QED BY <2>1, <2>2
<1> QED BY <1>7, <1>8, <1>9, <1>12, <1>13, <1>14 DEF FlagInv

(* A select that installs nothing. *)
LEMMA FlagSelectRefused ==
  ASSUME FlagInv, NEW k \in Calls, call[k].pc = "select", Fails(k),
         UNCHANGED <<sessVars, live, byAccount, bySession, switching>>
  PROVE  FlagInv'
<1>n. FlagNumbered
  BY FlagNumbers
<1>1. call' \in [Calls -> CallStates]
  BY <1>n DEF FlagNumbered, Fails, FlagInv, FlagTypes, CallStates
<1>2. /\ \A j \in Calls \ {k} : call'[j] = call[j]
      /\ call'[k].pc = "done" /\ call'[k].sw = call[k].sw
  BY <1>n DEF FlagNumbered, Fails, FlagInv, FlagTypes, CallStates
<1>3. FlagTypes'
  BY <1>1 DEF FlagInv, FlagTypes, sessVars
<1>4. byAccount # k /\ \A t \in Sessions : bySession[t] # k
  BY <1>n DEF FlagNumbered, FlagInv, HeldShape, SessionShape
<1>5. HeldShape' /\ \A t \in Sessions : SessionShape(t)'
  BY <1>2, <1>4, <1>n DEF FlagNumbered, FlagInv, HeldShape, SessionShape
<1>6. \A j \in Calls : Unbinding(j) => j # k /\ call[j].sw # k /\ call[j].sw \in Calls
  BY DEF FlagInv, SwitchShape, Unbinding
<1>7. FlagOwned'
  BY <1>2, <1>4, <1>6, <1>n DEF FlagNumbered, FlagInv, FlagOwned, HeldShape, Running, Tearing, Unbinding, sessVars
<1>8. \A j \in Calls : SwitchShape(j)' /\ CallShape(j)'
  BY <1>2, <1>6 DEF FlagInv, SwitchShape, CallShape, Running, Unbinding, sessVars
<1> QED BY <1>3, <1>5, <1>7, <1>8 DEF FlagInv

(* A hold is taken over by a call that is then refused, or its end is observed. *)
LEMMA FlagHoldFreed ==
  ASSUME FlagInv, byAccount # 0, live[byAccount].linkdead, byAccount' = 0,
         bySession' = DroppedSession(byAccount), UNCHANGED <<sessVars, live, call, switching>>
  PROVE  FlagInv'
<1>n. FlagNumbered
  BY FlagNumbers
<1>1. bySession' \in [Sessions -> 0..MaxSelects]
      /\ \A s \in Sessions : bySession'[s] = 0 \/ (bySession'[s] = bySession[s])
  BY RosterAssumption DEF DroppedSession, FlagInv, FlagTypes
<1>2. FlagTypes' /\ HeldShape' /\ \A s \in Sessions : SessionShape(s)'
  BY <1>1, RosterAssumption DEF FlagInv, FlagTypes, HeldShape, SessionShape, sessVars
<1>3. FlagOwned'
  BY DEF FlagInv, FlagOwned, sessVars
<1>4. \A j \in Calls : SwitchShape(j)'
  BY DEF FlagInv, SwitchShape, Unbinding
<1>5. ASSUME NEW j \in Calls PROVE CallShape(j)'
  <2>1. CallShape(j) /\ j # 0
    BY <1>n DEF FlagInv, FlagNumbered
  <2>2. ~(Running(j) /\ live[j].tear = "none") /\ ~(call[j].pc = "bind" /\ call[j].sw = 0)
    BY <2>1, <1>n DEF CallShape, FlagInv, FlagNumbered
  <2> QED BY <2>1, <2>2 DEF CallShape, Running
<1> QED BY <1>2, <1>3, <1>4, <1>5 DEF FlagInv

(* The section that installs a flag. *)
LEMMA FlagInstalls ==
  ASSUME FlagInv, NEW k \in Calls, SelectLocked(k), ~Refused(k)
  PROVE  FlagInv'
<1>n. FlagNumbered
  BY FlagNumbers
<1> DEFINE cur == byAccount
           hold == IF Reconnects(k) THEN cur ELSE 0
           old == IF Switches(k) THEN cur ELSE 0
<1>1. /\ call[k].pc = "select" /\ (cur = 0 \/ hold # 0 \/ old # 0)
      /\ call' = [call EXCEPT ![k] = [pc |-> IF old # 0 THEN "switch" ELSE "bind", sw |-> old]]
      /\ live' = [j \in Calls |->
             IF j = k THEN [live[k] EXCEPT !.prev = hold]
             ELSE IF j = old THEN [live[j] EXCEPT !.tear = "switched"] ELSE live[j]]
      /\ switching' = IF old # 0 THEN switching \cup {live[old].c} ELSE switching
      /\ byAccount' = k
      /\ bySession' = [bySession EXCEPT ![live[k].s] = k]
      /\ UNCHANGED sessVars
  BY DEF SelectLocked
<1>2. sess[live[k].s] = "open" /\ live[k].s \in Sessions /\ live[k].c \in Characters
      /\ ~live[k].confirmed /\ live[k].tear = "none" /\ ~live[k].linkdead /\ k # 0
  BY <1>1, <1>n DEF Refused, FlagInv, CallShape, FlagNumbered
<1>3. /\ hold # 0 => hold = byAccount /\ hold \in Calls /\ live[hold].linkdead /\ live[hold].c = live[k].c
                      /\ old = 0
      /\ old # 0 => old = byAccount /\ old \in Calls /\ live[old].confirmed /\ live[old].tear = "none"
                    /\ ~live[old].linkdead /\ live[old].s = live[k].s
      /\ byAccount # k
  BY <1>1, <1>n DEF Reconnects, Switches, Releasing, FlagNumbered, FlagInv, HeldShape
<1>4. old \in 0..MaxSelects /\ hold \in 0..MaxSelects
  BY RosterAssumption DEF FlagInv, FlagTypes
<1> HIDE DEF cur, hold, old
<1>5. live' \in [Calls -> LiveStates] /\ call' \in [Calls -> CallStates]
  <2>1. \A j \in Calls : live[j] \in LiveStates
    BY <1>n DEF FlagNumbered
  <2>2. [live[k] EXCEPT !.prev = hold] \in LiveStates
    BY <2>1, <1>4 DEF LiveStates
  <2>3. \A j \in Calls : [live[j] EXCEPT !.tear = "switched"] \in LiveStates
    BY <2>1 DEF LiveStates
  <2>4. [pc |-> IF old # 0 THEN "switch" ELSE "bind", sw |-> old] \in CallStates
    BY <1>4 DEF CallStates
  <2> QED BY <1>1, <2>1, <2>2, <2>3, <2>4 DEF FlagInv, FlagTypes
<1>6. /\ \A j \in Calls \ {k} : call'[j] = call[j]
      /\ call'[k].pc = (IF old # 0 THEN "switch" ELSE "bind") /\ call'[k].sw = old
      /\ \A j \in Calls \ {k} : j # old => live'[j] = live[j]
      /\ \A j \in Calls : live'[j].s = live[j].s /\ live'[j].c = live[j].c
             /\ live'[j].confirmed = live[j].confirmed /\ live'[j].linkdead = live[j].linkdead
      /\ \A j \in Calls \ {k} : live'[j].prev = live[j].prev
      /\ live'[k].prev = hold /\ live'[k].tear = "none"
      /\ old # 0 => live'[old].tear = "switched"
  <2>1. \A j \in Calls : live[j] \in LiveStates
    BY <1>n DEF FlagNumbered
  <2> QED BY <2>1, <1>1, <1>2, <1>3 DEF FlagInv, FlagTypes, LiveStates
<1>7. /\ \A s \in Sessions \ {live[k].s} : bySession'[s] = bySession[s]
      /\ bySession'[live[k].s] = k /\ bySession' \in [Sessions -> 0..MaxSelects]
      /\ k \in 0..MaxSelects
  BY <1>1, <1>2, RosterAssumption DEF FlagInv, FlagTypes, Calls
<1>8. switching' \subseteq Characters
  <2>1. old # 0 => live[old].c \in Characters
    BY <1>3 DEF FlagInv, HeldShape
  <2> QED BY <2>1, <1>1 DEF FlagInv, FlagTypes
<1>9. FlagTypes'
  BY <1>1, <1>5, <1>7, <1>8 DEF FlagInv, FlagTypes, sessVars
<1>p. call'[k].pc \in {"switch", "bind"}
  BY <1>6
<1>10. HeldShape'
  BY <1>1, <1>2, <1>6, <1>p DEF HeldShape
<1>11. \A s \in Sessions : SessionShape(s)'
  BY <1>2, <1>6, <1>7, <1>n DEF FlagInv, SessionShape, FlagNumbered
<1>12. \A j \in Calls : Unbinding(j) => j # k /\ call[j].sw \in Calls /\ call[j].sw # k /\ call[j].sw # old
  <2> SUFFICES ASSUME NEW j \in Calls, Unbinding(j)
               PROVE  j # k /\ call[j].sw \in Calls /\ call[j].sw # k /\ call[j].sw # old
    OBVIOUS
  <2>1. call[j].sw \in Calls /\ live[call[j].sw].tear = "switched"
    BY DEF FlagInv, SwitchShape
  <2>2. call[j].sw # 0
    BY <2>1, <1>n DEF FlagNumbered
  <2> QED BY <2>1, <2>2, <1>1, <1>2, <1>3 DEF Unbinding
<1>13. FlagOwned'
  <2>1. \A c \in switching' : \E j \in Calls : call'[j].pc \in {"switch", "orphan"} /\ live'[call'[j].sw].c = c
    <3>1. ASSUME NEW c \in switching PROVE
            \E j \in Calls : call'[j].pc \in {"switch", "orphan"} /\ live'[call'[j].sw].c = c
      <4>1. PICK j \in Calls : call[j].pc \in {"switch", "orphan"} /\ live[call[j].sw].c = c
        BY <3>1 DEF FlagInv, FlagOwned
      <4> QED BY <4>1, <1>6, <1>12 DEF Unbinding
    <3>2. old # 0 => call'[k].pc \in {"switch", "orphan"} /\ live'[call'[k].sw].c = live[old].c
      BY <1>3, <1>6
    <3> QED BY <3>1, <3>2, <1>1
  <2>2. Running(k)'
    BY <1>6 DEF Running
  <2> QED BY <2>1, <2>2, <1>1 DEF FlagInv, FlagOwned, sessVars, Running
<1>14. ASSUME NEW j \in Calls PROVE SwitchShape(j)'
  <2>1. CASE j = k
    <3>1. CASE old = 0
      BY <2>1, <3>1, <1>6 DEF SwitchShape, Unbinding
    <3>2. CASE old # 0
      <4>1. call[old].pc = "done" /\ old # k
        <5>1. ~Running(old) /\ call[old].pc \notin {"idle", "select"} /\ old \in Calls
          BY <3>2, <1>3 DEF FlagInv, HeldShape, CallShape
        <5>2. call[old].pc \in {"idle", "select", "switch", "orphan", "bind", "done"}
          BY <5>1, <1>n DEF FlagNumbered
        <5> QED BY <5>1, <5>2, <3>2, <1>3 DEF Running
      <4> QED BY <2>1, <3>2, <4>1, <1>3, <1>6, <1>12 DEF SwitchShape, Unbinding
    <3> QED BY <3>1, <3>2
  <2>2. CASE j # k
    <3>1. CASE ~Unbinding(j)
      BY <2>2, <3>1, <1>6 DEF SwitchShape, Unbinding
    <3>2. CASE Unbinding(j)
      <4>1. SwitchShape(j)
        BY DEF FlagInv
      <4> QED BY <2>2, <3>2, <4>1, <1>6, <1>12 DEF SwitchShape, Unbinding
    <3> QED BY <3>1, <3>2
  <2> QED BY <2>1, <2>2
<1>15. ASSUME NEW j \in Calls PROVE CallShape(j)'
  <2>0. CallShape(j)
    BY DEF FlagInv
  <2>1. CASE j = k
    <3>1. sess'[live[k].s] = "open"
      BY <1>1, <1>2 DEF sessVars
    <3>2. hold # 0 => live'[hold].linkdead /\ live'[hold].c = live'[k].c
      BY <1>3, <1>6
    <3>3. call'[k].pc = "bind" <=> old = 0
      BY <1>6
    <3>4. live'[k].c \in Characters /\ live'[k].s \in Sessions /\ ~live'[k].confirmed /\ ~live'[k].linkdead
          /\ live'[k].tear = "none" /\ live'[k].prev = hold /\ call'[k].sw = old
          /\ sess'[live'[k].s] = "open" /\ bySession'[live'[k].s] = k /\ byAccount' = k
      BY <3>1, <1>1, <1>2, <1>6, <1>7
    <3> QED BY <2>1, <3>2, <3>3, <3>4, <1>3, <1>p DEF CallShape, Running
  <2>2. CASE j # k
    <3>1. call'[j] = call[j] /\ live'[j].s = live[j].s /\ live'[j].c = live[j].c
          /\ live'[j].confirmed = live[j].confirmed /\ live'[j].linkdead = live[j].linkdead
          /\ live'[j].prev = live[j].prev
      BY <2>2, <1>6
    <3>2. ~(Running(j) /\ live[j].tear = "none")
      <4>1. ASSUME Running(j), live[j].tear = "none" PROVE FALSE
        <5>1. byAccount = j /\ ~live[j].confirmed /\ j # 0
          BY <4>1, <2>0, <1>n DEF CallShape, FlagNumbered
        <5>2. hold = j \/ old = j
          BY <5>1, <1>1, <1>3 DEF cur
        <5> QED BY <4>1, <5>1, <5>2, <2>0, <1>3 DEF CallShape
      <4> QED BY <4>1
    <3>3. ~(call[j].pc = "bind" /\ call[j].sw = 0)
      <4>1. ASSUME call[j].pc = "bind", call[j].sw = 0 PROVE FALSE
        <5>1. byAccount = j /\ ~live[j].confirmed /\ j # 0 /\ live[j].tear # "released"
          BY <4>1, <2>0, <1>n DEF CallShape, FlagNumbered, Running
        <5>2. hold = j \/ old = j
          BY <5>1, <1>1, <1>3 DEF cur
        <5> QED BY <4>1, <5>1, <5>2, <2>0, <1>3 DEF CallShape
      <4> QED BY <4>1
    <3>4. CASE j = old
      <4>1. call[j].pc = "done" /\ live'[j].tear = "switched"
        BY <3>4, <1>3, <1>6, <1>n DEF FlagNumbered, FlagInv, HeldShape, CallShape, Running
      <4>2. live[j].s \in Sessions /\ live[j].c \in Characters /\ ~live[j].linkdead
        BY <3>4, <1>3, <1>n DEF FlagNumbered, FlagInv, HeldShape
      <4> QED BY <3>1, <4>1, <4>2 DEF CallShape, Running
    <3>5. CASE j # old
      <4>1. live'[j] = live[j]
        BY <2>2, <3>5, <1>6
      <4> QED BY <2>0, <2>2, <3>1, <3>2, <3>3, <4>1, <1>1 DEF CallShape, Running
    <3> QED BY <3>4, <3>5
  <2> QED BY <2>1, <2>2
<1> QED BY <1>9, <1>10, <1>11, <1>13, <1>14, <1>15 DEF FlagInv

(* A switch writes the Unbind of the Character it leaves. *)
LEMMA FlagSwitchUnbinds ==
  ASSUME FlagInv, NEW k \in Calls, SwitchUnbinds(k)
  PROVE  FlagInv'
<1>n. FlagNumbered
  BY FlagNumbers
<1> DEFINE old == call[k].sw
<1>u. UNCHANGED sessVars /\ call[k].pc = "switch"
  BY DEF SwitchUnbinds
<1>1. /\ CallShape(k) /\ SwitchShape(k) /\ Running(k) /\ k # 0
      /\ old \in Calls /\ old # k /\ live[old].tear = "switched" /\ call[old].pc = "done"
      /\ live[old].confirmed /\ live[old].s = live[k].s /\ old # 0
      /\ \A j \in Calls : Unbinding(j) /\ j # k => call[j].sw # old
      /\ ~live[k].confirmed
  BY <1>u, <1>n DEF FlagInv, SwitchShape, CallShape, Unbinding, Running, FlagNumbered
<1>o. \A j \in Calls : Unbinding(j) => call[j].sw \in Calls /\ call[j].sw # k /\ live[call[j].sw].tear = "switched"
  BY <1>u DEF FlagInv, SwitchShape
<1>r. ASSUME NEW j \in Calls, Running(j), live[j].prev # 0
      PROVE  live[j].prev \in Calls /\ live[live[j].prev].linkdead /\ live[j].prev # old
  <2>1. live[j].prev \in Calls /\ live[live[j].prev].linkdead
    BY <1>r, <1>n DEF FlagInv, CallShape, FlagNumbered
  <2>2. live[live[j].prev].tear = "released"
    BY <2>1 DEF FlagInv, CallShape
  <2> QED BY <2>1, <2>2, <1>1
<1>2. CASE /\ call' = [call EXCEPT ![k].pc = "bind"]
           /\ switching' = switching \ {live[old].c}
           /\ UNCHANGED <<live, byAccount, bySession>>
  <2>1. /\ call' \in [Calls -> CallStates] /\ call'[k].pc = "bind" /\ call'[k].sw = old
        /\ \A j \in Calls \ {k} : call'[j] = call[j]
    BY <1>2, <1>n DEF FlagNumbered, CallStates, FlagInv, FlagTypes
  <2>2. FlagTypes' /\ HeldShape' /\ \A s \in Sessions : SessionShape(s)'
    <3>1. FlagTypes'
      BY <1>2, <2>1, <1>u DEF FlagInv, FlagTypes, sessVars
    <3>2. HeldShape'
      BY <1>2, <2>1, <1>u, <1>n DEF FlagInv, HeldShape, FlagNumbered
    <3>3. \A s \in Sessions : SessionShape(s)'
      BY <1>2, <2>1, <1>u, <1>n DEF FlagInv, SessionShape, FlagNumbered
    <3> QED BY <3>1, <3>2, <3>3
  <2>3. \A j \in Calls : SwitchShape(j)'
    BY <1>2, <2>1, <1>1, <1>o, <1>u DEF FlagInv, SwitchShape, Unbinding
  <2>4. FlagOwned'
    BY <1>2, <2>1, <1>1, <1>u, <1>n DEF FlagInv, FlagOwned, Running, Tearing, sessVars, FlagNumbered
  <2>5. ASSUME NEW j \in Calls PROVE CallShape(j)'
    <3>1. CASE j = k
      <4>1. live[k].prev = 0
        BY <1>1, <1>u DEF CallShape
      <4> QED BY <3>1, <4>1, <1>2, <2>1, <1>1, <1>u DEF CallShape, Running, sessVars
    <3>2. CASE j # k
      BY <3>2, <1>2, <2>1, <1>u DEF FlagInv, CallShape, Running, sessVars
    <3> QED BY <3>1, <3>2
  <2> QED BY <2>2, <2>3, <2>4, <2>5 DEF FlagInv
<1>3. CASE /\ Releasing(k)
           /\ call' = [call EXCEPT ![k].pc = "orphan"]
           /\ byAccount' = Dropped(k) /\ bySession' = DroppedSession(k)
           /\ UNCHANGED <<live, switching>>
  <2>1. /\ call' \in [Calls -> CallStates] /\ call'[k].pc = "orphan" /\ call'[k].sw = old
        /\ \A j \in Calls \ {k} : call'[j] = call[j]
    BY <1>3, <1>n DEF FlagNumbered, CallStates, FlagInv, FlagTypes
  <2>2. /\ byAccount' # k /\ (byAccount # k => byAccount' = byAccount)
        /\ byAccount' # 0 => byAccount' = byAccount
        /\ byAccount' \in 0..MaxSelects
    BY <1>3, <1>1, RosterAssumption DEF Dropped, FlagInv, FlagTypes
  <2>3. bySession' \in [Sessions -> 0..MaxSelects]
        /\ \A s \in Sessions : bySession'[s] = IF bySession[s] = k THEN 0 ELSE bySession[s]
    BY <1>3, RosterAssumption DEF DroppedSession, FlagInv, FlagTypes
  <2>4. FlagTypes'
    BY <1>3, <2>1, <2>2, <2>3, <1>u DEF FlagInv, FlagTypes, sessVars
  <2>5. HeldShape'
    BY <1>3, <2>1, <2>2, <1>n DEF FlagInv, HeldShape, FlagNumbered
  <2>6. \A s \in Sessions : SessionShape(s)'
    BY <1>3, <2>1, <2>3, <1>n DEF FlagInv, SessionShape, FlagNumbered
  <2>7. \A j \in Calls : SwitchShape(j)'
    BY <1>3, <2>1, <1>1, <1>o, <1>u DEF FlagInv, SwitchShape, Unbinding
  <2>8. FlagOwned'
    <3>1. \A c \in switching' : \E j \in Calls : call'[j].pc \in {"switch", "orphan"} /\ live'[call'[j].sw].c = c
      BY <1>3, <2>1, <1>u DEF FlagInv, FlagOwned
    <3>2. byAccount' # 0 => byAccount' = byAccount /\ byAccount \in Calls \ {k} /\ live[byAccount].s \in Sessions
      BY <2>2, <1>n DEF FlagNumbered, FlagInv, HeldShape
    <3> QED BY <3>1, <3>2, <1>3, <2>1, <2>2, <2>3, <1>u DEF FlagInv, FlagOwned, Running, Tearing, sessVars
  <2>9. ASSUME NEW j \in Calls PROVE CallShape(j)'
    <3>0. CallShape(j)
      BY DEF FlagInv
    <3>1. CASE j = k
      <4>1. live[k].tear # "none" /\ live[k].prev = 0
        BY <1>1, <1>3, <1>u DEF CallShape, Releasing
      <4> QED BY <3>1, <4>1, <1>3, <2>1, <2>2, <1>1, <1>u DEF CallShape, Running, sessVars
    <3>2. CASE j # k
      <4>1. byAccount = j => byAccount' = j
        BY <3>2, <2>2
      <4>2. byAccount' = j => byAccount = j
        BY <3>2, <2>2, <1>n DEF FlagNumbered
      <4>3. Running(j) /\ live[j].tear = "none" => bySession'[live[j].s] = j
        BY <3>0, <3>2, <2>3 DEF CallShape
      <4> QED BY <3>0, <3>2, <4>1, <4>2, <4>3, <1>3, <2>1, <1>u DEF CallShape, Running, sessVars
    <3> QED BY <3>1, <3>2
  <2> QED BY <2>4, <2>5, <2>6, <2>7, <2>8, <2>9 DEF FlagInv
<1>4. CASE /\ ~Releasing(k) /\ Fails(k)
           /\ live' = [live EXCEPT ![old].tear = "none"]
           /\ byAccount' = old /\ bySession' = [bySession EXCEPT ![live[k].s] = old]
           /\ switching' = switching \ {live[old].c}
  <2>1. /\ call' \in [Calls -> CallStates] /\ call'[k].pc = "done" /\ call'[k].sw = old
        /\ \A j \in Calls \ {k} : call'[j] = call[j]
    BY <1>4, <1>n DEF FlagNumbered, CallStates, FlagInv, FlagTypes, Fails
  <2>2. live' \in [Calls -> LiveStates]
    <3>1. live[old] \in LiveStates
      BY <1>1, <1>n DEF FlagNumbered
    <3>2. [live[old] EXCEPT !.tear = "none"] \in LiveStates
      BY <3>1 DEF LiveStates
    <3> QED BY <3>2, <1>4 DEF FlagInv, FlagTypes
  <2>3. /\ \A j \in Calls \ {old} : live'[j] = live[j]
        /\ \A j \in Calls : live'[j].s = live[j].s /\ live'[j].c = live[j].c
             /\ live'[j].confirmed = live[j].confirmed /\ live'[j].linkdead = live[j].linkdead
             /\ live'[j].prev = live[j].prev
        /\ live'[old].tear = "none"
    <3>1. live[old] \in LiveStates
      BY <1>1, <1>n DEF FlagNumbered
    <3> QED BY <3>1, <1>1, <1>4 DEF FlagInv, FlagTypes, LiveStates
  <2>4. /\ byAccount = k /\ bySession[live[k].s] = k /\ live[k].s \in Sessions
        /\ sess[live[k].s] \in {"open", "closing"}
    BY <1>1, <1>4 DEF CallShape, Releasing
  <2>5. /\ bySession' \in [Sessions -> 0..MaxSelects] /\ bySession'[live[k].s] = old
        /\ \A s \in Sessions \ {live[k].s} : bySession'[s] = bySession[s]
        /\ old \in 0..MaxSelects
    BY <1>1, <1>4, <2>4, RosterAssumption DEF FlagInv, FlagTypes, Calls
  <2>6. live[old].c \in Characters /\ live[old].s \in Sessions /\ ~live[old].linkdead
    BY <1>1 DEF FlagInv, CallShape
  <2>p. \A j \in Calls : j # k => byAccount # j
    BY <2>4
  <2> HIDE DEF old
  <2>7. FlagTypes'
    BY <1>4, <1>u, <2>1, <2>2, <2>5 DEF FlagInv, FlagTypes, sessVars
  <2>8. HeldShape'
    BY <1>4, <1>1, <2>1, <2>3, <2>6 DEF HeldShape
  <2>9. \A s \in Sessions : SessionShape(s)'
    <3> SUFFICES ASSUME NEW s \in Sessions PROVE SessionShape(s)'
      OBVIOUS
    <3>1. CASE s = live[k].s
      BY <3>1, <1>1, <2>1, <2>3, <2>5, <2>6 DEF SessionShape
    <3>2. CASE s # live[k].s
      <4>1. bySession[s] # k
        BY <3>2, <1>1 DEF FlagInv, SessionShape
      <4>2. bySession'[s] = bySession[s]
        BY <3>2, <2>5
      <4> QED BY <4>1, <4>2, <2>1, <2>3, <1>n DEF FlagInv, FlagNumbered, SessionShape
    <3> QED BY <3>1, <3>2
  <2>10. \A j \in Calls : Unbinding(j)' => j # k /\ Unbinding(j) /\ call[j].sw \in Calls /\ call[j].sw # old
                                          /\ call[j].sw # k
    BY <2>1, <1>1, <1>o DEF Unbinding
  <2>11. \A j \in Calls : SwitchShape(j)'
    BY <2>1, <2>3, <2>10 DEF FlagInv, SwitchShape, Unbinding
  <2>12. FlagOwned'
    <3>1. \A c \in switching' : \E j \in Calls : call'[j].pc \in {"switch", "orphan"} /\ live'[call'[j].sw].c = c
      <4> SUFFICES ASSUME NEW c \in switching'
                   PROVE \E j \in Calls : call'[j].pc \in {"switch", "orphan"} /\ live'[call'[j].sw].c = c
        OBVIOUS
      <4>1. PICK j \in Calls : call[j].pc \in {"switch", "orphan"} /\ live[call[j].sw].c = c
        BY <1>4 DEF FlagInv, FlagOwned
      <4>2. j # k
        BY <4>1, <1>4 DEF old
      <4> QED BY <4>1, <4>2, <2>1, <2>3, <1>o DEF Unbinding
    <3>2. live'[old].confirmed /\ bySession'[live'[old].s] = old
          /\ sess'[live'[old].s] \in {"open", "closing"}
      BY <1>1, <2>3, <2>4, <2>5, <1>u DEF sessVars
    <3> QED BY <3>1, <3>2, <1>4, <1>u DEF FlagInv, FlagOwned, sessVars
  <2>13. ASSUME NEW j \in Calls PROVE CallShape(j)'
    <3>0. CallShape(j)
      BY DEF FlagInv
    <3>1. CASE j = k
      BY <3>1, <2>1, <2>3, <1>1, <1>4 DEF CallShape, Running, Releasing
    <3>2. CASE j = old
      BY <3>2, <2>1, <2>3, <2>6, <1>1 DEF CallShape, Running
    <3>3. CASE j # k /\ j # old
      <4>1. live'[j] = live[j] /\ call'[j] = call[j]
        BY <3>3, <2>1, <2>3
      <4>2. ~(Running(j) /\ live[j].tear = "none") /\ ~(call[j].pc = "bind" /\ call[j].sw = 0)
        BY <3>0, <3>3, <2>p DEF CallShape
      <4>3. Running(j) /\ live[j].prev # 0 => live[j].prev \in Calls
        BY <1>n DEF FlagNumbered
      <4> QED BY <3>0, <3>3, <4>1, <4>2, <4>3, <2>3, <1>4 DEF CallShape, Running
    <3> QED BY <3>1, <3>2, <3>3
  <2> QED BY <2>7, <2>8, <2>9, <2>11, <2>12, <2>13 DEF FlagInv
<1> QED BY <1>2, <1>3, <1>4 DEF SwitchUnbinds

(* A switch whose call is gone, at its late Unbind. *)
LEMMA FlagReleaseOrphanedSwitch ==
  ASSUME FlagInv, NEW k \in Calls, ReleaseOrphanedSwitch(k)
  PROVE  FlagInv'
<1>n. FlagNumbered
  BY FlagNumbers
<1>u. /\ UNCHANGED <<sessVars, live, byAccount, bySession>> /\ call[k].pc = "orphan" /\ Fails(k)
      /\ switching' = switching \ {live[call[k].sw].c}
  BY DEF ReleaseOrphanedSwitch
<1>1. /\ call' \in [Calls -> CallStates] /\ call'[k].pc = "done" /\ call'[k].sw = call[k].sw
      /\ \A j \in Calls \ {k} : call'[j] = call[j]
  BY <1>u, <1>n DEF FlagNumbered, CallStates, FlagInv, FlagTypes, Fails
<1>2. live[k].tear # "none" /\ (byAccount = k => live[k].linkdead) /\ CallShape(k) /\ Running(k)
  BY <1>u DEF FlagInv, CallShape, Running
<1>3. FlagTypes'
  BY <1>u, <1>1 DEF FlagInv, FlagTypes, sessVars
<1>4. HeldShape'
  BY <1>u, <1>1, <1>2, <1>n DEF FlagInv, HeldShape, FlagNumbered
<1>5. \A s \in Sessions : SessionShape(s)'
  BY <1>u, <1>1, <1>n DEF FlagInv, SessionShape, FlagNumbered
<1>6. \A j \in Calls : Unbinding(j) => call[j].sw # k
  BY <1>u DEF FlagInv, SwitchShape
<1>7. \A j \in Calls : SwitchShape(j)'
  BY <1>u, <1>1, <1>6 DEF FlagInv, SwitchShape, Unbinding
<1>8. FlagOwned'
  BY <1>u, <1>1, <1>2, <1>n DEF FlagInv, FlagOwned, Running, Tearing, sessVars, FlagNumbered
<1>9. \A j \in Calls : CallShape(j)'
  BY <1>u, <1>1, <1>2 DEF FlagInv, CallShape, Running, sessVars
<1> QED BY <1>3, <1>4, <1>5, <1>7, <1>8, <1>9 DEF FlagInv

(* The Bind is written, or fails. *)
LEMMA FlagBindProduces ==
  ASSUME FlagInv, NEW k \in Calls, BindProduces(k)
  PROVE  FlagInv'
<1>n. FlagNumbered
  BY FlagNumbers
<1>u. /\ UNCHANGED <<sessVars, switching>> /\ call[k].pc = "bind"
      /\ call' = [call EXCEPT ![k].pc = "done"]
  BY DEF BindProduces
<1>1. /\ call' \in [Calls -> CallStates] /\ call'[k].pc = "done" /\ call'[k].sw = call[k].sw
      /\ \A j \in Calls \ {k} : call'[j] = call[j]
  BY <1>u, <1>n DEF FlagNumbered, CallStates, FlagInv, FlagTypes
<1>2. CallShape(k) /\ Running(k) /\ k # 0
  BY <1>u, <1>n DEF FlagInv, Running, FlagNumbered
<1>3. \A j \in Calls : Unbinding(j) => j # k /\ call[j].sw # k
  BY <1>u DEF FlagInv, SwitchShape, Unbinding
<1>4. CASE /\ live' = [live EXCEPT ![k].confirmed = TRUE, ![k].prev = 0]
           /\ UNCHANGED <<byAccount, bySession>>
  <2>1. live' \in [Calls -> LiveStates]
    <3>1. live[k] \in LiveStates
      BY <1>n DEF FlagNumbered
    <3>2. [live[k] EXCEPT !.confirmed = TRUE, !.prev = 0] \in LiveStates
      <4>1. 0 \in 0..MaxSelects
        BY RosterAssumption
      <4> QED BY <3>1, <4>1 DEF LiveStates
    <3> QED BY <3>2, <1>4 DEF FlagInv, FlagTypes
  <2>2. /\ \A j \in Calls \ {k} : live'[j] = live[j]
        /\ \A j \in Calls : live'[j].s = live[j].s /\ live'[j].c = live[j].c
             /\ live'[j].tear = live[j].tear /\ live'[j].linkdead = live[j].linkdead
        /\ live'[k].confirmed /\ live'[k].prev = 0
    <3>1. live[k] \in LiveStates
      BY <1>n DEF FlagNumbered
    <3> QED BY <3>1, <1>4 DEF FlagInv, FlagTypes, LiveStates
  <2>0. UNCHANGED <<byAccount, bySession>>
    BY <1>4
  <2>3. FlagTypes'
    BY <1>u, <1>1, <2>0, <2>1 DEF FlagInv, FlagTypes, sessVars
  <2>4. HeldShape'
    BY <2>0, <1>1, <2>2, <1>n DEF FlagInv, HeldShape, FlagNumbered
  <2>5. \A s \in Sessions : SessionShape(s)'
    BY <2>0, <1>1, <2>2, <1>n DEF FlagInv, SessionShape, FlagNumbered
  <2>6. \A j \in Calls : SwitchShape(j)'
    BY <1>1, <1>3, <2>2 DEF FlagInv, SwitchShape, Unbinding
  <2>7. FlagOwned'
    <3>1. \A c \in switching' : \E j \in Calls : call'[j].pc \in {"switch", "orphan"} /\ live'[call'[j].sw].c = c
      <4> SUFFICES ASSUME NEW c \in switching
                   PROVE \E j \in Calls : call'[j].pc \in {"switch", "orphan"} /\ live'[call'[j].sw].c = c
        BY <1>u
      <4>1. PICK j \in Calls : call[j].pc \in {"switch", "orphan"} /\ live[call[j].sw].c = c
        BY DEF FlagInv, FlagOwned
      <4>2. j # k /\ call[j].sw \in Calls
        BY <4>1, <1>3 DEF Unbinding, FlagInv, SwitchShape
      <4> QED BY <4>1, <4>2, <1>1, <2>2
    <3>2. CASE byAccount = k
      <4>1. live[k].tear = "none" => bySession[live[k].s] = k /\ sess[live[k].s] \in {"open", "closing"}
        BY <1>2 DEF CallShape
      <4>2. live[k].tear = "released" => live[k].linkdead
        BY <3>2, <1>2 DEF FlagInv, HeldShape
      <4>3. live[k].tear \in {"none", "produce", "logged", "failed", "released"}
        BY <1>2, <1>n DEF FlagNumbered, CallShape
      <4> QED BY <3>1, <3>2, <4>1, <4>2, <4>3, <2>0, <1>u, <2>2 DEF FlagInv, FlagOwned, Running, Tearing, sessVars
    <3>3. CASE byAccount # k
      BY <3>1, <3>3, <1>1, <2>0, <1>u, <2>2, <1>n DEF FlagInv, FlagOwned, Running, Tearing, sessVars, FlagNumbered
    <3> QED BY <3>2, <3>3
  <2>8. ASSUME NEW j \in Calls PROVE CallShape(j)'
    <3>0. CallShape(j)
      BY DEF FlagInv
    <3>1. CASE j = k
      BY <3>1, <1>1, <1>2, <2>2 DEF CallShape, Running
    <3>2. CASE j # k
      <4>1. live'[j] = live[j] /\ call'[j] = call[j]
        BY <3>2, <1>1, <2>2
      <4>2. Running(j) /\ live[j].prev # 0 => live[j].prev \in Calls
        BY <1>n DEF FlagNumbered
      <4> QED BY <3>0, <4>1, <4>2, <2>0, <1>u, <2>2 DEF CallShape, Running, sessVars
    <3> QED BY <3>1, <3>2
  <2> QED BY <2>3, <2>4, <2>5, <2>6, <2>7, <2>8 DEF FlagInv
<1>5. CASE /\ byAccount' = PutBack(k) /\ bySession' = DroppedSession(k) /\ UNCHANGED live
  <2> DEFINE p == live[k].prev
  <2>1. p # 0 => /\ byAccount = k /\ p \in Calls /\ live[p].linkdead /\ live[p].tear = "released" /\ p # k
                 /\ live[p].s \in Sessions /\ live[p].c \in Characters
                 /\ call[p].pc \notin {"idle", "select"}
    <3>1. p # 0 => byAccount = k /\ p \in Calls /\ live[p].linkdead /\ live[k].tear # "released"
      BY <1>2, <1>n DEF CallShape, FlagNumbered
    <3> QED BY <3>1 DEF FlagInv, CallShape
  <2>2. \/ byAccount' = byAccount /\ byAccount # k
        \/ byAccount' = 0 /\ byAccount = k
        \/ byAccount' = p /\ p # 0 /\ byAccount = k
    BY <1>5, <1>2, <2>1 DEF PutBack, Dropped
  <2>3. byAccount' \in 0..MaxSelects
    BY <2>2, <2>1, <1>n, RosterAssumption DEF FlagInv, FlagTypes, Calls
  <2>4. bySession' \in [Sessions -> 0..MaxSelects]
        /\ \A s \in Sessions : bySession'[s] = IF bySession[s] = k THEN 0 ELSE bySession[s]
    BY <1>5, RosterAssumption DEF DroppedSession, FlagInv, FlagTypes
  <2> HIDE DEF p
  <2>5. FlagTypes'
    BY <1>u, <1>1, <1>5, <2>3, <2>4 DEF FlagInv, FlagTypes, sessVars
  <2>6. HeldShape'
    <3>1. CASE byAccount' = byAccount /\ byAccount # k
      BY <3>1, <1>1, <1>5, <1>n DEF FlagInv, HeldShape, FlagNumbered
    <3>2. CASE byAccount' = 0
      BY <3>2 DEF HeldShape
    <3>3. CASE byAccount' = p /\ p # 0
      BY <3>3, <2>1, <1>1, <1>5 DEF HeldShape
    <3> QED BY <2>2, <3>1, <3>2, <3>3
  <2>7. \A s \in Sessions : SessionShape(s)'
    BY <1>5, <1>1, <2>4, <1>n DEF FlagInv, SessionShape, FlagNumbered
  <2>8. \A j \in Calls : SwitchShape(j)'
    BY <1>1, <1>3, <1>5 DEF FlagInv, SwitchShape, Unbinding
  <2>9. FlagOwned'
    <3>1. \A c \in switching' : \E j \in Calls : call'[j].pc \in {"switch", "orphan"} /\ live'[call'[j].sw].c = c
      BY <1>1, <1>3, <1>5, <1>u DEF FlagInv, FlagOwned, Unbinding
    <3>2. CASE byAccount' = byAccount /\ byAccount # k /\ byAccount # 0
      <4>1. byAccount \in Calls /\ live[byAccount].s \in Sessions /\ call'[byAccount] = call[byAccount]
        BY <3>2, <1>1, <1>n DEF FlagInv, FlagNumbered, HeldShape
      <4>2. \A s \in Sessions : bySession[s] = byAccount => bySession'[s] = byAccount
        BY <3>2, <2>4
      <4> QED BY <3>1, <3>2, <4>1, <4>2, <1>5, <1>u DEF FlagInv, FlagOwned, Running, Tearing, sessVars
    <3>3. CASE byAccount' = 0
      BY <3>1, <3>3, <1>u DEF FlagInv, FlagOwned, sessVars
    <3>4. CASE byAccount' = p /\ p # 0
      BY <3>1, <3>4, <2>1, <1>5, <1>u DEF FlagInv, FlagOwned, sessVars
    <3> QED BY <2>2, <3>2, <3>3, <3>4
  <2>10. ASSUME NEW j \in Calls PROVE CallShape(j)'
    <3>0. CallShape(j) /\ j # 0
      BY <1>n DEF FlagInv, FlagNumbered
    <3>1. CASE j = k
      BY <3>1, <1>1, <1>2, <1>5 DEF CallShape, Running
    <3>2. CASE j # k
      <4>1. live'[j] = live[j] /\ call'[j] = call[j]
        BY <3>2, <1>1, <1>5
      <4>2. byAccount = j => byAccount' = j
        BY <3>2, <2>2
      <4>3. byAccount' = j => byAccount = j \/ live[j].linkdead
        BY <3>0, <2>1, <2>2
      <4>4. Running(j) /\ live[j].tear = "none" => bySession'[live[j].s] = j
        BY <3>0, <3>2, <2>4 DEF CallShape
      <4> QED BY <3>0, <4>1, <4>2, <4>3, <4>4, <1>5, <1>u DEF CallShape, Running, sessVars
    <3> QED BY <3>1, <3>2
  <2> QED BY <2>5, <2>6, <2>7, <2>8, <2>9, <2>10 DEF FlagInv
<1> QED BY <1>4, <1>5 DEF BindProduces

(* A hold that a reconnect has taken is marked ended. *)
LEMMA FlagEnded ==
  ASSUME FlagInv, NEW p \in Calls, live' = [live EXCEPT ![p].ended = TRUE],
         UNCHANGED <<sessVars, call, byAccount, bySession, switching>>
  PROVE  FlagInv'
<1>n. FlagNumbered
  BY FlagNumbers
<1>1. live' \in [Calls -> LiveStates]
  <2>1. live[p] \in LiveStates
    BY <1>n DEF FlagNumbered
  <2>2. [live[p] EXCEPT !.ended = TRUE] \in LiveStates
    BY <2>1 DEF LiveStates
  <2> QED BY <2>2 DEF FlagInv, FlagTypes
<1>2. \A j \in Calls : live'[j].s = live[j].s /\ live'[j].c = live[j].c
             /\ live'[j].confirmed = live[j].confirmed /\ live'[j].linkdead = live[j].linkdead
             /\ live'[j].prev = live[j].prev /\ live'[j].tear = live[j].tear
  <2>1. live[p] \in LiveStates
    BY <1>n DEF FlagNumbered
  <2> QED BY <2>1 DEF FlagInv, FlagTypes, LiveStates
<1>3. FlagTypes'
  BY <1>1 DEF FlagInv, FlagTypes, sessVars
<1>4. HeldShape' /\ \A s \in Sessions : SessionShape(s)'
  BY <1>2, <1>n DEF FlagInv, HeldShape, SessionShape, FlagNumbered
<1>5. \A j \in Calls : SwitchShape(j)'
  BY <1>2 DEF FlagInv, SwitchShape, Unbinding
<1>6. FlagOwned'
  <2>1. \A c \in switching : \E j \in Calls : call[j].pc \in {"switch", "orphan"} /\ live'[call[j].sw].c = c
    BY <1>2 DEF FlagInv, FlagOwned, SwitchShape, Unbinding
  <2> QED BY <2>1, <1>2, <1>n DEF FlagInv, FlagOwned, Running, Tearing, sessVars, FlagNumbered
<1>7. \A j \in Calls : CallShape(j)'
  BY <1>2, <1>n DEF FlagInv, CallShape, Running, sessVars, FlagNumbered
<1> QED BY <1>3, <1>4, <1>5, <1>6, <1>7 DEF FlagInv

(* A crash clears every flag. *)
LEMMA FlagCrash ==
  ASSUME FlagInv, Crash
  PROVE  FlagInv'
<1>n. FlagNumbered
  BY FlagNumbers
<1>1. /\ conn' = {s \in conn : sess[s] = "none"}
      /\ sess' = [s \in Sessions |-> IF sess[s] = "none" THEN "none" ELSE "closed"]
      /\ call' = [k \in Calls |-> IF call[k].pc = "idle" THEN call[k] ELSE [pc |-> "done", sw |-> 0]]
      /\ live' = [k \in Calls |-> NoLive] /\ byAccount' = 0 /\ bySession' = [s \in Sessions |-> 0]
      /\ switching' = {} /\ sessEnd' = sessEnd
  BY DEF Crash
<1>2. FlagTypes'
  <2>1. [pc |-> "done", sw |-> 0] \in CallStates
    BY RosterAssumption DEF CallStates
  <2> QED BY <1>1, <2>1, <1>n, NoLiveType, RosterAssumption DEF FlagInv, FlagTypes, FlagNumbered
<1>3. HeldShape' /\ FlagOwned' /\ \A s \in Sessions : SessionShape(s)'
  BY <1>1 DEF HeldShape, FlagOwned, SessionShape
<1>4. \A j \in Calls : call'[j].pc \in {"idle", "done"} /\ (call'[j].pc = "idle" => call'[j].sw = 0)
  BY <1>1 DEF FlagInv, CallShape
<1>5. \A j \in Calls : SwitchShape(j)' /\ CallShape(j)'
  BY <1>1, <1>4 DEF SwitchShape, CallShape, Unbinding, Running, NoLive
<1> QED BY <1>2, <1>3, <1>5 DEF FlagInv

(* Every step of the roster keeps FlagInv. *)
LEMMA FlagStep ==
  ASSUME FlagInv, [RosterNext]_rosterVars
  PROVE  FlagInv'
<1>n. FlagNumbered
  BY FlagNumbers
<1>1. ASSUME NEW s \in Sessions, OpenSession(s) \/ ConnClosed(s) \/ CloseSession(s) PROVE FlagInv'
  BY <1>1, FlagSessions
<1>2. ASSUME NEW s \in Sessions, ReleaseSession(s) PROVE FlagInv'
  BY <1>2, FlagReleaseSession
<1>3. ASSUME NEW s \in Sessions, NEW k \in Calls, NEW c \in Characters, SelectCharacter(k, s, c) PROVE FlagInv'
  BY <1>3, FlagSelectCharacter
<1>4. ASSUME NEW k \in Calls, TeardownProduces(k) PROVE FlagInv'
  BY <1>4, FlagTeardownProduces
<1>5. ASSUME NEW k \in Calls, TeardownEnds(k) PROVE FlagInv'
  BY <1>5, FlagTeardownEnds
<1>6. ASSUME NEW k \in Calls, SelectRefused(k) PROVE FlagInv'
  BY <1>6, FlagSelectRefused DEF SelectRefused
<1>7. ASSUME NEW k \in Calls, SelectLocked(k) PROVE FlagInv'
  <2>1. CASE ~Refused(k)
    BY <1>7, <2>1, FlagInstalls
  <2>2. CASE Refused(k) /\ ~Reconnects(k)
    <3>1. byAccount' = byAccount /\ bySession' = bySession
      BY <1>7, <2>2 DEF SelectLocked
    <3> QED BY <3>1, <1>7, <2>2, FlagSelectRefused DEF SelectLocked
  <2>3. CASE Refused(k) /\ Reconnects(k)
    \* The hold is dropped, then the call fails: neither hinders the other.
    <3> SUFFICES FlagInv'
      OBVIOUS
    <3>1. /\ call[k].pc = "select" /\ Fails(k) /\ byAccount' = 0
          /\ bySession' = DroppedSession(byAccount) /\ byAccount # 0 /\ live[byAccount].linkdead
          /\ UNCHANGED <<sessVars, live, switching>>
      BY <1>7, <2>3 DEF SelectLocked, Reconnects
    <3>2. /\ call' \in [Calls -> CallStates] /\ call'[k].pc = "done" /\ call'[k].sw = call[k].sw
          /\ \A j \in Calls \ {k} : call'[j] = call[j]
      BY <3>1, <1>n DEF FlagNumbered, CallStates, FlagInv, FlagTypes, Fails
    <3>3. bySession' \in [Sessions -> 0..MaxSelects]
          /\ \A s \in Sessions : bySession'[s] = 0 \/ (bySession'[s] = bySession[s])
      BY <3>1, RosterAssumption DEF DroppedSession, FlagInv, FlagTypes
    <3>4. FlagTypes' /\ HeldShape'
      BY <3>1, <3>2, <3>3, RosterAssumption DEF FlagInv, FlagTypes, HeldShape, sessVars
    <3>5. \A s \in Sessions : SessionShape(s)'
      BY <3>1, <3>2, <3>3, <1>n DEF FlagInv, SessionShape, FlagNumbered
    <3>6. \A j \in Calls : Unbinding(j) => j # k /\ call[j].sw # k /\ call[j].sw \in Calls
      BY <3>1 DEF FlagInv, SwitchShape, Unbinding
    <3>7. FlagOwned'
      BY <3>1, <3>2, <3>6 DEF FlagInv, FlagOwned, Unbinding, sessVars
    <3>8. \A j \in Calls : SwitchShape(j)'
      BY <3>1, <3>2, <3>6 DEF FlagInv, SwitchShape, Unbinding
    <3>9. ASSUME NEW j \in Calls PROVE CallShape(j)'
      <4>1. CallShape(j) /\ j # 0
        BY <1>n DEF FlagInv, FlagNumbered
      <4>2. ~(Running(j) /\ live[j].tear = "none") /\ ~(call[j].pc = "bind" /\ call[j].sw = 0)
        BY <3>1, <4>1, <1>n DEF CallShape, FlagInv, FlagNumbered
      <4> QED BY <3>1, <3>2, <4>1, <4>2 DEF CallShape, Running
    <3> QED BY <3>4, <3>5, <3>7, <3>8, <3>9 DEF FlagInv
  <2> QED BY <2>1, <2>2, <2>3
<1>8. ASSUME NEW k \in Calls, SwitchUnbinds(k) PROVE FlagInv'
  BY <1>8, FlagSwitchUnbinds
<1>9. ASSUME NEW k \in Calls, ReleaseOrphanedSwitch(k) PROVE FlagInv'
  BY <1>9, FlagReleaseOrphanedSwitch
<1>10. ASSUME NEW k \in Calls, BindProduces(k) PROVE FlagInv'
  BY <1>10, FlagBindProduces
<1>11. ASSUME NEW c \in Characters,
              DeleteClaims(c) \/ DeleteFlips(c) \/ SweepPurges(c) \/ Apply(c) \/ LinkdeadExpires(c)
       PROVE  FlagInv'
  <2>1. UNCHANGED <<sessVars, flagVars>>
    BY <1>11 DEF DeleteClaims, DeleteFlips, SweepPurges, Apply, LinkdeadExpires
  <2> QED BY <2>1, FlagSame
<1>12. ASSUME NEW c \in Characters, ObserveLinkdead(c) PROVE FlagInv'
  <2>u. UNCHANGED <<sessVars, call, switching>>
    BY <1>12 DEF ObserveLinkdead
  <2>1. CASE byAccount # 0 /\ live[byAccount].linkdead /\ live[byAccount].c = c
    <3>1. byAccount' = 0 /\ bySession' = DroppedSession(byAccount) /\ UNCHANGED live
      BY <1>12, <2>1 DEF ObserveLinkdead
    <3> QED BY <2>1, <2>u, <3>1, FlagHoldFreed
  <2>2. CASE ~(byAccount # 0 /\ live[byAccount].linkdead /\ live[byAccount].c = c)
    <3>1. UNCHANGED <<byAccount, bySession>>
          /\ live' = IF byAccount # 0 /\ live[byAccount].prev # 0 /\ live[byAccount].c = c
                     THEN [live EXCEPT ![live[byAccount].prev].ended = TRUE] ELSE live
      BY <1>12, <2>2 DEF ObserveLinkdead
    <3>2. CASE byAccount # 0 /\ live[byAccount].prev # 0 /\ live[byAccount].c = c
      <4>1. live[byAccount].prev \in Calls
        BY <3>2, <1>n DEF FlagNumbered
      <4> QED BY <3>1, <3>2, <4>1, <2>u, FlagEnded
    <3>3. CASE live' = live
      <4>1. UNCHANGED <<sessVars, flagVars>>
        BY <3>1, <3>3, <2>u DEF flagVars
      <4> QED BY <4>1, FlagSame
    <3> QED BY <3>1, <3>2, <3>3
  <2> QED BY <2>1, <2>2
<1>13. ASSUME NEW rec \in late, Lands(rec) PROVE FlagInv'
  <2>1. UNCHANGED <<sessVars, flagVars>>
    BY <1>13 DEF Lands
  <2> QED BY <2>1, FlagSame
<1>14. CASE Crash
  BY <1>14, FlagCrash
<1>15. CASE UNCHANGED rosterVars
  <2>1. UNCHANGED <<sessVars, flagVars>>
    BY <1>15 DEF rosterVars
  <2> QED BY <2>1, FlagSame
<1> QED BY <1>1, <1>2, <1>3, <1>4, <1>5, <1>6, <1>7, <1>8, <1>9, <1>10, <1>11, <1>12, <1>13, <1>14,
           <1>15 DEF RosterNext

-------------------------------------------------------------------------------
(* The roster: the flag against deletes, the log and the World. *)

(* The claim of r.switching is kept: nobody plays a Character that a switch is *)
(* still to unbind.                                                            *)
ClaimKept ==
  \A k \in Calls : Unbinding(k) /\ byAccount # 0 => live[byAccount].c # live[call[k].sw].c

ClaimShape ==
  /\ \A k \in Calls : Unbinding(k) =>
       /\ live[call[k].sw].c \in switching
       /\ \A j \in Calls : Unbinding(j) /\ j # k => live[call[j].sw].c # live[call[k].sw].c
  /\ \A c \in Characters : c \in deleting \/ status[c] # "active" =>
       /\ byAccount # 0 => live[byAccount].c # c
       /\ c \notin switching

(* The body stands when the records have been applied ... *)
StaysPresent(log, b) ==
  \E i \in 0..Len(log) :
    /\ (i = 0 /\ b = "present") \/ (i # 0 /\ log[i] = "bind")
    /\ \A j \in 1..Len(log) : j > i => log[j] = "bind"
(* ... or is linkdead then. *)
EndsUp(log, b) ==
  \E i \in 0..Len(log) :
    /\ (i = 0 /\ b \in {"present", "linkdead"}) \/ (i # 0 /\ log[i] = "bind")
    /\ \A j \in 1..Len(log) : j > i => log[j] \in {"bind", "mark"}

(* A body stands once a Bind is applied. *)
LEMMA StaysOnBind ==
  ASSUME NEW log \in Seq(Records), NEW b
  PROVE  StaysPresent(Append(log, "bind"), b)
<1>1. Len(Append(log, "bind")) = Len(log) + 1 /\ Append(log, "bind")[Len(log) + 1] = "bind"
  BY DEF Records
<1>2. Len(log) + 1 \in 0..(Len(log) + 1) /\ Len(log) + 1 # 0 /\ Len(log) \in Nat
  OBVIOUS
<1> QED BY <1>1, <1>2 DEF StaysPresent

(* A body that stands can at worst be marked. *)
LEMMA StaysEndsUp ==
  ASSUME NEW log, NEW b, StaysPresent(log, b)
  PROVE  EndsUp(log, b)
BY DEF StaysPresent, EndsUp

(* A mark behind a body that stands leaves it linkdead. *)
LEMMA EndsOnMark ==
  ASSUME NEW log \in Seq(Records), NEW b, StaysPresent(log, b)
  PROVE  EndsUp(Append(log, "mark"), b)
<1>1. PICK i \in 0..Len(log) :
        /\ (i = 0 /\ b = "present") \/ (i # 0 /\ log[i] = "bind")
        /\ \A j \in 1..Len(log) : j > i => log[j] = "bind"
  BY DEF StaysPresent
<1>2. PICK new : new = Append(log, "mark")
  OBVIOUS
<1>3. Len(new) = Len(log) + 1 /\ new[Len(log) + 1] = "mark" /\ \A j \in 1..Len(log) : new[j] = log[j]
  BY <1>2 DEF Records
<1>4. i \in 0..Len(new)
  BY <1>3
<1>5. \A j \in 1..Len(new) : j > i => new[j] \in {"bind", "mark"}
  BY <1>1, <1>3
<1>6. (i = 0 /\ b \in {"present", "linkdead"}) \/ (i # 0 /\ new[i] = "bind")
  BY <1>1, <1>3
<1> QED BY <1>2, <1>4, <1>5, <1>6 DEF EndsUp

(* Applying the oldest record changes nothing of how the log ends ... *)
LEMMA StaysApplied ==
  ASSUME NEW log \in Seq(Records), log # <<>>, NEW b, StaysPresent(log, b)
  PROVE  StaysPresent(Tail(log), Applied(Head(log), b))
<1>1. PICK i \in 0..Len(log) :
        /\ (i = 0 /\ b = "present") \/ (i # 0 /\ log[i] = "bind")
        /\ \A j \in 1..Len(log) : j > i => log[j] = "bind"
  BY DEF StaysPresent
<1>2. PICK new : new = Tail(log)
  OBVIOUS
<1>3. Len(log) # 0 /\ Len(new) = Len(log) - 1 /\ \A j \in 1..Len(new) : new[j] = log[j + 1]
  BY <1>2
<1>4. PICK h : h = Head(log)
  OBVIOUS
<1>5. h = log[1]
  BY <1>4
<1>6. CASE i \in {0, 1}
  <2>1. h = "bind"
    BY <1>1, <1>3, <1>5, <1>6
  <2>2. Applied(h, b) = "present"
    BY <2>1 DEF Applied
  <2>3. 0 \in 0..Len(new) /\ \A j \in 1..Len(new) : j > 0 => new[j] = "bind"
    BY <1>1, <1>3, <1>6
  <2> QED BY <1>2, <1>4, <2>2, <2>3 DEF StaysPresent
<1>7. CASE i \notin {0, 1}
  <2>1. i - 1 \in 0..Len(new) /\ i - 1 # 0 /\ new[i - 1] = "bind"
    BY <1>1, <1>3, <1>7
  <2>2. \A j \in 1..Len(new) : j > i - 1 => new[j] = "bind"
    BY <1>1, <1>3
  <2> QED BY <1>2, <1>4, <2>1, <2>2 DEF StaysPresent
<1> QED BY <1>6, <1>7

(* ... in either way. *)
LEMMA EndsApplied ==
  ASSUME NEW log \in Seq(Records), log # <<>>, NEW b, EndsUp(log, b)
  PROVE  EndsUp(Tail(log), Applied(Head(log), b))
<1>1. PICK i \in 0..Len(log) :
        /\ (i = 0 /\ b \in {"present", "linkdead"}) \/ (i # 0 /\ log[i] = "bind")
        /\ \A j \in 1..Len(log) : j > i => log[j] \in {"bind", "mark"}
  BY DEF EndsUp
<1>2. PICK new : new = Tail(log)
  OBVIOUS
<1>3. Len(log) # 0 /\ Len(new) = Len(log) - 1 /\ \A j \in 1..Len(new) : new[j] = log[j + 1]
  BY <1>2
<1>4. PICK h : h = Head(log)
  OBVIOUS
<1>5. h = log[1]
  BY <1>4
<1>6. CASE i \in {0, 1}
  <2>1. h = "bind" \/ (h = "mark" /\ b \in {"present", "linkdead"})
    BY <1>1, <1>3, <1>5, <1>6
  <2>2. Applied(h, b) \in {"present", "linkdead"}
    BY <2>1 DEF Applied
  <2>3. 0 \in 0..Len(new) /\ \A j \in 1..Len(new) : j > 0 => new[j] \in {"bind", "mark"}
    BY <1>1, <1>3, <1>6
  <2> QED BY <1>2, <1>4, <2>2, <2>3 DEF EndsUp
<1>7. CASE i \notin {0, 1}
  <2>1. i - 1 \in 0..Len(new) /\ i - 1 # 0 /\ new[i - 1] = "bind"
    BY <1>1, <1>3, <1>7
  <2>2. \A j \in 1..Len(new) : j > i - 1 => new[j] \in {"bind", "mark"}
    BY <1>1, <1>3
  <2> QED BY <1>2, <1>4, <2>1, <2>2 DEF EndsUp
<1> QED BY <1>6, <1>7

(* With no record left, the body is what the log made it. *)
LEMMA EndsEmpty ==
  ASSUME NEW b, EndsUp(<<>>, b)
  PROVE  b \in {"present", "linkdead"}
BY DEF EndsUp

(* A body that stands at the end of the log and is linkdead now has a Bind to *)
(* come.                                                                      *)
LEMMA StaysNotLinkdead ==
  ASSUME NEW log, NEW b, StaysPresent(log, "linkdead")
  PROVE  StaysPresent(log, b)
BY DEF StaysPresent

Stands(c) == StaysPresent(clog[c], body[c])
Lingers(c) == EndsUp(clog[c], body[c])

(* What the flag the Account holds can rely on in the log and in the World ... *)
HeldWorld ==
  byAccount # 0 =>
    /\ call[byAccount].pc = "done" /\ live[byAccount].tear \in {"none", "produce", "failed"}
         => Stands(live[byAccount].c)
    /\ call[byAccount].pc = "done" /\ live[byAccount].tear = "logged" /\ live[byAccount].end = "linkdead"
         => Lingers(live[byAccount].c)
    /\ live[byAccount].linkdead
         => Running(byAccount) \/ Lingers(live[byAccount].c) \/ live[byAccount].c \in ends
(* ... and what a call that may fail puts back. *)
CallWorld(k) ==
  /\ call[k].pc = "bind" /\ live[k].prev # 0 =>
       \/ Running(live[k].prev) \/ Lingers(live[k].c) \/ live[k].c \in ends
       \/ live[live[k].prev].ended
  /\ call[k].pc = "switch" => Stands(live[call[k].sw].c)
  /\ call[k].pc = "orphan" => ~live[k].linkdead

WorldShape == HeldWorld /\ \A k \in Calls : CallWorld(k)

(* Whoever still runs holds the flag, and no teardown has overtaken it ... *)
KeptShape ==
  \A k \in Calls : Running(k) =>
    /\ call[k].pc # "orphan" /\ byAccount = k /\ live[k].tear \in {"none", "produce"}
    /\ call[k].pc = "switch" => live[k].c # live[call[k].sw].c

(* ... and a body nobody plays does not stand when the records have been *)
(* applied: no Bind is the last word on it.                              *)
NotUp(log, b) ==
  \E i \in 0..Len(log) :
    /\ (i = 0 /\ b # "present") \/ (i # 0 /\ log[i] # "bind")
    /\ \A j \in 1..Len(log) : j > i => log[j] # "bind"
Down(c) == NotUp(clog[c], body[c])
Played(c) ==
  \/ byAccount # 0 /\ live[byAccount].c = c
  \/ \E k \in Calls : call[k].pc = "switch" /\ live[call[k].sw].c = c
BodyShape ==
  /\ \A c \in Characters : ~Played(c) => Down(c)
  /\ byAccount # 0 /\ (live[byAccount].tear = "logged" \/ live[byAccount].linkdead)
       => Down(live[byAccount].c)
  /\ \A k \in Calls : live[k].tear # "failed"

(* The inductive invariant: once a record nobody answers for may be in the log, *)
(* only types and flags are left of it.                                         *)
RosterInv ==
  /\ FlagInv /\ WorldTypes /\ faults \in Nat
  /\ ~muddied => ClaimShape /\ KeptShape /\ WorldShape /\ (faults = 0 => BodyShape)
CleanInv == FlagInv /\ WorldTypes /\ ClaimShape /\ (~muddied => KeptShape /\ WorldShape)
Shapes == ClaimShape /\ (~muddied => WorldShape)

(* What leaves flags, deletes and the World alone. *)
LEMMA ShapesSame ==
  ASSUME CleanInv, UNCHANGED <<flagVars, deleting, status, worldVars>>
  PROVE  Shapes'
<1>1. ClaimShape'
  BY DEF CleanInv, ClaimShape, Unbinding, flagVars
<1>2. ~muddied' => WorldShape'
  BY DEF CleanInv, WorldShape, HeldWorld, CallWorld, Stands, Lingers, Running, flagVars, worldVars
<1> QED BY <1>1, <1>2 DEF Shapes

(* ReleaseSession. *)
LEMMA ShapesReleaseSession ==
  ASSUME CleanInv, NEW s \in Sessions, ReleaseSession(s)
  PROVE  Shapes'
<1> DEFINE l == bySession[s]
<1>n. FlagInv /\ FlagNumbered
  BY FlagNumbers DEF CleanInv
<1>u. UNCHANGED <<call, byAccount, switching, deleting, status, worldVars>>
  BY DEF ReleaseSession
<1>1. CASE l # 0 /\ live[l].tear = "none"
  <2>1. live' = [live EXCEPT ![l].tear = "produce", ![l].end = sessEnd[s]]
    BY <1>1 DEF ReleaseSession, Releasing
  <2>2. live[l] \in LiveStates /\ l \in Calls
    BY <1>1, <1>n DEF FlagNumbered
  <2>3. /\ \A j \in Calls \ {l} : live'[j] = live[j]
        /\ \A j \in Calls : /\ live'[j].c = live[j].c /\ live'[j].linkdead = live[j].linkdead
                            /\ live'[j].prev = live[j].prev /\ live'[j].ended = live[j].ended
        /\ live'[l].tear = "produce"
    BY <2>1, <2>2, <1>n DEF FlagInv, FlagTypes, LiveStates
  <2> HIDE DEF l
  <2>4. ClaimShape'
    <3>1. \A k \in Calls : Unbinding(k) => call[k].sw \in Calls
      BY <1>n DEF FlagInv, SwitchShape
    <3> QED BY <3>1, <2>3, <1>u, <1>n DEF CleanInv, ClaimShape, Unbinding, FlagNumbered
  <2>5. ASSUME ~muddied' PROVE HeldWorld'
    BY <2>3, <2>5, <1>1, <1>u, <1>n DEF CleanInv, WorldShape, HeldWorld, Stands, Lingers, Running, worldVars, FlagNumbered
  <2>6. ASSUME ~muddied', NEW k \in Calls PROVE CallWorld(k)'
    <3>1. Unbinding(k) => call[k].sw \in Calls
      BY <1>n DEF FlagInv, SwitchShape
    <3>2. live[k].prev # 0 => live[k].prev \in Calls
      BY <1>n DEF FlagNumbered
    <3> QED BY <3>1, <3>2, <2>3, <2>6, <1>u DEF CleanInv, WorldShape, CallWorld, Stands, Lingers, Running, Unbinding, worldVars
  <2> QED BY <2>4, <2>5, <2>6 DEF Shapes, WorldShape
<1>2. CASE ~(l # 0 /\ live[l].tear = "none")
  <2>1. live' = live
    BY <1>2 DEF ReleaseSession, Releasing
  <2>2. ClaimShape'
    BY <2>1, <1>u DEF CleanInv, ClaimShape, Unbinding
  <2>3. ~muddied' => WorldShape'
    BY <2>1, <1>u DEF CleanInv, WorldShape, HeldWorld, CallWorld, Stands, Lingers, Running, worldVars
  <2> QED BY <2>2, <2>3 DEF Shapes
<1> QED BY <1>1, <1>2

(* SelectCharacter is called. *)
LEMMA ShapesSelectCharacter ==
  ASSUME CleanInv, NEW k \in Calls, NEW s \in Sessions, NEW c \in Characters, SelectCharacter(k, s, c)
  PROVE  Shapes'
<1>n. FlagInv /\ FlagNumbered
  BY FlagNumbers DEF CleanInv
<1>u. UNCHANGED <<byAccount, switching, deleting, status, worldVars>>
  BY DEF SelectCharacter
<1>1. call[k].pc = "idle" /\ call' = [call EXCEPT ![k].pc = "select"]
      /\ live' = [live EXCEPT ![k].s = s, ![k].c = c]
  BY DEF SelectCharacter
<1>2. /\ \A j \in Calls \ {k} : live'[j] = live[j] /\ call'[j] = call[j]
      /\ live'[k].linkdead = live[k].linkdead /\ call'[k].pc = "select"
  BY <1>1, <1>n DEF FlagInv, FlagTypes, FlagNumbered, LiveStates, CallStates
<1>3. byAccount # k
  BY <1>1, <1>n DEF FlagInv, HeldShape, FlagNumbered
<1>4. \A j \in Calls : Unbinding(j) => j # k /\ call[j].sw # k /\ call[j].sw \in Calls
  BY <1>1, <1>n DEF FlagInv, SwitchShape, Unbinding
<1>5. \A j \in Calls : Unbinding(j)' <=> Unbinding(j)
  BY <1>1, <1>2 DEF Unbinding
<1>6. ClaimShape'
  BY <1>2, <1>3, <1>4, <1>5, <1>u, <1>n DEF CleanInv, ClaimShape, FlagNumbered
<1>7. ASSUME ~muddied' PROVE HeldWorld'
  BY <1>2, <1>3, <1>7, <1>u, <1>n DEF CleanInv, WorldShape, HeldWorld, Stands, Lingers, Running, worldVars, FlagNumbered
<1>8. ASSUME ~muddied', NEW j \in Calls PROVE CallWorld(j)'
  <2>1. CASE j = k
    BY <2>1, <1>2 DEF CallWorld
  <2>2. CASE j # k
    <3>1. call[j].pc = "bind" /\ live[j].prev # 0 => live[j].prev \in Calls /\ live[j].prev # k
      BY <1>1, <1>n DEF FlagInv, CallShape, Running, FlagNumbered
    <3> QED BY <2>2, <3>1, <1>2, <1>4, <1>8, <1>u DEF CleanInv, WorldShape, CallWorld, Stands, Lingers, Running, Unbinding, worldVars
  <2> QED BY <2>1, <2>2
<1> QED BY <1>6, <1>7, <1>8 DEF Shapes, WorldShape

(* A call in `select' fails, with or without the hold it was to take. *)
LEMMA ShapesFails ==
  ASSUME CleanInv, NEW k \in Calls, call[k].pc = "select", Fails(k), byAccount' \in {0, byAccount},
         UNCHANGED <<live, switching, deleting, status, worldVars>>
  PROVE  Shapes'
<1>n. FlagInv /\ FlagNumbered
  BY FlagNumbers DEF CleanInv
<1>2. /\ \A j \in Calls \ {k} : call'[j] = call[j]
      /\ call'[k].pc = "done"
  BY <1>n DEF FlagInv, FlagTypes, FlagNumbered, CallStates, Fails
<1>3. byAccount # k
  BY <1>n DEF FlagInv, HeldShape, FlagNumbered
<1>4. \A j \in Calls : Unbinding(j)' <=> Unbinding(j)
  BY <1>2 DEF Unbinding
<1>5. \A j \in Calls : Unbinding(j) => j # k
  BY DEF Unbinding
<1>6. ClaimShape'
  BY <1>2, <1>4, <1>5 DEF CleanInv, ClaimShape
<1>7. ASSUME ~muddied' PROVE HeldWorld'
  BY <1>2, <1>3, <1>7, <1>n DEF CleanInv, WorldShape, HeldWorld, Stands, Lingers, Running, worldVars, FlagNumbered
<1>8. ASSUME ~muddied', NEW j \in Calls PROVE CallWorld(j)'
  <2>1. CASE j = k
    BY <2>1, <1>2 DEF CallWorld
  <2>2. CASE j # k
    <3>1. live[j].prev # 0 => live[j].prev \in Calls
      BY <1>n DEF FlagNumbered
    <3>2. \A i \in Calls : Running(i) => Running(i)'
      BY <1>2 DEF Running
    <3> QED BY <2>2, <3>1, <3>2, <1>2, <1>8 DEF CleanInv, WorldShape, CallWorld, Stands, Lingers, worldVars
  <2> QED BY <2>1, <2>2
<1> QED BY <1>6, <1>7, <1>8 DEF Shapes, WorldShape

(* The teardown frees the flag, or leaves it for the hold. *)
LEMMA ShapesTeardownEnds ==
  ASSUME CleanInv, NEW k \in Calls, TeardownEnds(k)
  PROVE  Shapes'
<1>n. FlagInv /\ FlagNumbered
  BY FlagNumbers DEF CleanInv
<1>u. UNCHANGED <<call, switching, deleting, status, worldVars>>
  BY DEF TeardownEnds
<1>1. live[k].tear \in {"logged", "failed"}
  BY DEF TeardownEnds
<1>2. PICK h \in BOOLEAN :
        /\ live' = [live EXCEPT ![k].tear = "released", ![k].linkdead = h]
        /\ h <=> live[k].end = "linkdead" /\ live[k].tear = "logged" /\ byAccount = k
        /\ byAccount' = IF h THEN byAccount ELSE Dropped(k)
  BY DEF TeardownEnds
<1>3. /\ \A j \in Calls \ {k} : live'[j] = live[j]
      /\ \A j \in Calls : /\ live'[j].c = live[j].c /\ live'[j].prev = live[j].prev
                          /\ live'[j].ended = live[j].ended
      /\ live'[k].linkdead = h /\ live'[k].tear = "released"
  BY <1>2, <1>n DEF FlagInv, FlagTypes, LiveStates, FlagNumbered
<1>4. /\ byAccount' # 0 => byAccount' = byAccount
      /\ byAccount' = k => h
  BY <1>2, <1>n DEF Dropped, FlagNumbered
<1>5. \A j \in Calls : Unbinding(j) => call[j].sw \in Calls
  BY <1>n DEF FlagInv, SwitchShape
<1>6. ClaimShape'
  BY <1>3, <1>4, <1>5, <1>u, <1>n DEF CleanInv, ClaimShape, Unbinding, FlagNumbered
<1>7. ASSUME ~muddied' PROVE HeldWorld'
  <2>0. HeldWorld
    BY <1>7, <1>u DEF CleanInv, WorldShape, worldVars
  <2>1. CASE byAccount' = k
    <3>1. h /\ byAccount = k
      BY <2>1, <1>2, <1>4
    <3>2. call[k].pc = "done" => Lingers(live[k].c)
      BY <2>0, <3>1, <1>2, <1>n DEF HeldWorld, FlagNumbered
    <3>3. call[k].pc # "done" => Running(k)
      BY <3>1, <1>n DEF FlagInv, HeldShape, FlagNumbered, Running
    <3> QED BY <2>1, <3>2, <3>3, <1>3, <1>u DEF HeldWorld, Lingers, Running, worldVars
  <2>2. CASE byAccount' # k
    BY <2>0, <2>2, <1>3, <1>4, <1>u, <1>n DEF HeldWorld, Stands, Lingers, Running, worldVars, FlagNumbered
  <2> QED BY <2>1, <2>2
<1>8. ASSUME ~muddied', NEW j \in Calls PROVE CallWorld(j)'
  <2>0. CallWorld(j)
    BY <1>8, <1>u DEF CleanInv, WorldShape, worldVars
  <2>1. live[j].prev # 0 => live[j].prev \in Calls
    BY <1>n DEF FlagNumbered
  <2>2. call[j].pc = "orphan" => ~live'[j].linkdead
    <3>1. CASE j = k /\ h
      <4>1. call[k].pc = "orphan" => live[k].linkdead
        BY <3>1, <1>2, <1>n DEF FlagInv, CallShape
      <4>2. ~live[k].linkdead
        BY <1>1, <1>n DEF FlagInv, CallShape
      <4> QED BY <3>1, <4>1, <4>2
    <3>2. CASE j = k /\ ~h
      BY <3>2, <1>3
    <3>3. CASE j # k
      BY <3>3, <2>0, <1>3 DEF CallWorld
    <3> QED BY <3>1, <3>2, <3>3
  <2> QED BY <2>0, <2>1, <2>2, <1>3, <1>5, <1>u DEF CallWorld, Stands, Lingers, Running, Unbinding, worldVars
<1> QED BY <1>6, <1>7, <1>8 DEF Shapes, WorldShape

(* The locked section of SelectCharacter installs a flag. *)
LEMMA ShapesInstalls ==
  ASSUME CleanInv, ClaimKept, NEW k \in Calls, SelectLocked(k), ~Refused(k)
  PROVE  Shapes'
<1>n. FlagInv /\ FlagNumbered
  BY FlagNumbers DEF CleanInv
<1> DEFINE hold == IF Reconnects(k) THEN byAccount ELSE 0
           old == IF Switches(k) THEN byAccount ELSE 0
<1>1. /\ call[k].pc = "select" /\ (byAccount = 0 \/ hold # 0 \/ old # 0)
      /\ call' = [call EXCEPT ![k] = [pc |-> IF old # 0 THEN "switch" ELSE "bind", sw |-> old]]
      /\ live' = [j \in Calls |->
             IF j = k THEN [live[k] EXCEPT !.prev = hold]
             ELSE IF j = old THEN [live[j] EXCEPT !.tear = "switched"] ELSE live[j]]
      /\ switching' = IF old # 0 THEN switching \cup {live[old].c} ELSE switching
      /\ byAccount' = k
      /\ UNCHANGED <<deleting, status, worldVars>>
  BY DEF SelectLocked
<1>2. live[k].c \notin deleting /\ status[live[k].c] = "active" /\ ~live[k].linkdead /\ k # 0
      /\ live[k].tear = "none"
  BY <1>1, <1>n DEF Refused, FlagInv, CallShape, FlagNumbered
<1>3. /\ hold # 0 => hold = byAccount /\ hold \in Calls /\ live[hold].linkdead /\ live[hold].c = live[k].c
      /\ old # 0 => old = byAccount /\ old \in Calls /\ live[old].confirmed /\ live[old].tear = "none"
      /\ byAccount # k
  BY <1>1, <1>n DEF Reconnects, Switches, Releasing, FlagNumbered, FlagInv, HeldShape
<1>d. old # 0 => call[old].pc = "done"
  <2>1. old # 0 => ~Running(old) /\ call[old].pc \notin {"idle", "select"} /\ old \in Calls
    BY <1>3, <1>n DEF FlagInv, HeldShape, CallShape
  <2> QED BY <2>1, <1>n DEF Running, FlagNumbered
<1> HIDE DEF hold, old
<1>4. /\ \A j \in Calls \ {k} : call'[j] = call[j]
      /\ call'[k].pc = (IF old # 0 THEN "switch" ELSE "bind") /\ call'[k].sw = old
      /\ \A j \in Calls : live'[j].c = live[j].c /\ live'[j].ended = live[j].ended
             /\ live'[j].linkdead = live[j].linkdead
      /\ \A j \in Calls \ {k} : live'[j].prev = live[j].prev
      /\ live'[k].prev = hold
  <2>1. \A j \in Calls : live[j] \in LiveStates
    BY <1>n DEF FlagNumbered
  <2> QED BY <2>1, <1>1, <1>3, <1>n DEF FlagInv, FlagTypes, LiveStates
<1>p. call'[k].pc \in {"switch", "bind"} /\ (call'[k].pc = "switch" <=> old # 0)
  BY <1>4
<1>5. \A j \in Calls : Unbinding(j) => j # k /\ call[j].sw \in Calls
  BY <1>1, <1>n DEF FlagInv, SwitchShape, Unbinding
<1>6. \A j \in Calls : Unbinding(j)' <=> Unbinding(j) \/ (j = k /\ old # 0)
  BY <1>1, <1>4, <1>p DEF Unbinding
<1>u. UNCHANGED <<deleting, status, worldVars>> /\ byAccount' = k
      /\ switching' = IF old # 0 THEN switching \cup {live[old].c} ELSE switching
  BY <1>1
<1>7. ClaimShape'
  <2>1. \A j \in Calls : Unbinding(j)' => live'[call'[j].sw].c \in switching'
    BY <1>3, <1>4, <1>5, <1>6, <1>u DEF CleanInv, ClaimShape
  <2>2. \A i, j \in Calls : Unbinding(i) /\ Unbinding(j) /\ i # j
                            => live'[call'[j].sw].c # live'[call'[i].sw].c
    BY <1>4, <1>5 DEF CleanInv, ClaimShape
  <2>3. \A j \in Calls : Unbinding(j) /\ old # 0 => live'[call'[j].sw].c # live'[call'[k].sw].c
    BY <1>3, <1>4, <1>5, <1>n DEF ClaimKept, FlagNumbered
  <2>4. \A i, j \in Calls : Unbinding(i)' /\ Unbinding(j)' /\ i # j
                            => live'[call'[j].sw].c # live'[call'[i].sw].c
    BY <2>2, <2>3, <1>6
  <2>5. \A c \in Characters : c \in deleting \/ status[c] # "active" => live[k].c # c /\ c \notin switching'
    BY <1>2, <1>3, <1>u, <1>n DEF CleanInv, ClaimShape, FlagNumbered
  <2> QED BY <2>1, <2>4, <2>5, <1>4, <1>u DEF ClaimShape
<1>8. ASSUME ~muddied' PROVE HeldWorld'
  BY <1>2, <1>4, <1>p, <1>u DEF HeldWorld
<1>9. ASSUME ~muddied', NEW j \in Calls PROVE CallWorld(j)'
  <2>0. WorldShape
    BY <1>9, <1>u DEF CleanInv, worldVars
  <2>r. \A i \in Calls : Running(i) => Running(i)'
    BY <1>1, <1>4 DEF Running
  <2>1. CASE j = k
    <3>1. CASE old = 0
      <4>0. PICK h : h = hold
        OBVIOUS
      <4>1. h # 0 => Running(h) \/ Lingers(live[k].c) \/ live[k].c \in ends
        BY <2>0, <4>0, <1>3 DEF WorldShape, HeldWorld
      <4>2. h # 0 => Running(h)' \/ Lingers(live[k].c) \/ live[k].c \in ends
        BY <4>0, <4>1, <2>r, <1>3
      <4>3. live'[k].prev = h /\ live'[k].c = live[k].c /\ call'[k].pc # "orphan" /\ call'[k].pc # "switch"
        BY <3>1, <4>0, <1>p, <1>4
      <4> QED BY <2>1, <4>2, <4>3, <1>u DEF CallWorld, Lingers, worldVars, Running
    <3>2. CASE old # 0
      <4>1. Stands(live[old].c)
        BY <2>0, <3>2, <1>3, <1>d DEF WorldShape, HeldWorld
      <4> QED BY <2>1, <3>2, <4>1, <1>p, <1>3, <1>4, <1>u DEF CallWorld, Stands, worldVars
    <3> QED BY <3>1, <3>2
  <2>2. CASE j # k
    <3>1. live[j].prev # 0 => live[j].prev \in Calls
      BY <1>n DEF FlagNumbered
    <3>2. live'[j].prev = live[j].prev /\ call'[j] = call[j]
      BY <2>2, <1>4
    <3>3. Running(live[j].prev) /\ live[j].prev # 0 => (Running(live[j].prev))'
      BY <3>1, <3>2, <2>r DEF Running
    <3> QED BY <2>0, <2>2, <3>1, <3>2, <3>3, <1>4, <1>5, <1>u DEF WorldShape, CallWorld, Stands, Lingers, worldVars, Unbinding
  <2> QED BY <2>1, <2>2
<1> QED BY <1>7, <1>8, <1>9 DEF Shapes, WorldShape

(* The teardown writes its record, or fails to. *)
LEMMA ShapesTeardownProduces ==
  ASSUME CleanInv, ClaimKept, NEW k \in Calls, TeardownProduces(k)
  PROVE  Shapes'
<1>n. FlagInv /\ FlagNumbered
  BY FlagNumbers DEF CleanInv
<1>u. UNCHANGED <<call, byAccount, switching, deleting, status, body, ends>>
      /\ muddied' = (muddied \/ byAccount # k \/ call[k].pc # "done")
      /\ live[k].tear = "produce" /\ (call[k].pc = "done" \/ call[k].sw # 0)
  BY DEF TeardownProduces
<1>1. PICK ok \in BOOLEAN :
        /\ Produce(live[k].c, IF live[k].end = "linkdead" THEN "mark" ELSE "unbind", ok)
        /\ live' = [live EXCEPT ![k].tear = IF ok THEN "logged" ELSE "failed"]
  BY DEF TeardownProduces
<1>2. /\ \A j \in Calls \ {k} : live'[j] = live[j]
      /\ \A j \in Calls : /\ live'[j].c = live[j].c /\ live'[j].prev = live[j].prev
                          /\ live'[j].ended = live[j].ended /\ live'[j].linkdead = live[j].linkdead
                          /\ live'[j].end = live[j].end
      /\ live'[k].tear = IF ok THEN "logged" ELSE "failed"
  BY <1>1, <1>n DEF FlagInv, FlagTypes, LiveStates, FlagNumbered
<1>3. /\ live[k].c \in Characters /\ live[k].s \in Sessions /\ ~live[k].linkdead
  BY <1>u, <1>n DEF FlagInv, CallShape
<1>4. /\ ~ok => clog' = clog
      /\ \A c \in Characters : c # live[k].c => clog'[c] = clog[c]
      /\ ok /\ live[k].end = "linkdead" => clog'[live[k].c] = Append(clog[live[k].c], "mark")
  BY <1>1, <1>3 DEF Produce, CleanInv, WorldTypes
<1>5. \A j \in Calls : Unbinding(j) => call[j].sw \in Calls /\ live[call[j].sw].c \in Characters
  BY <1>n DEF FlagInv, SwitchShape, CallShape
<1>6. ClaimShape'
  BY <1>2, <1>5, <1>u, <1>n DEF CleanInv, ClaimShape, Unbinding, FlagNumbered
<1>7. ASSUME ~muddied' PROVE WorldShape'
  <2>0. WorldShape /\ byAccount = k /\ k # 0
    BY <1>7, <1>u, <1>n DEF CleanInv, FlagNumbered
  <2>1. HeldWorld'
    <3>1. call[k].pc = "done" => Stands(live[k].c)
      BY <2>0, <1>u DEF WorldShape, HeldWorld
    <3>2. call[k].pc = "done" /\ ~ok => (Stands(live[k].c))'
      BY <3>1, <1>2, <1>4, <1>u DEF Stands
    <3>3. call[k].pc = "done" /\ ok /\ live[k].end = "linkdead" => EndsUp(clog'[live[k].c], body'[live[k].c])
      <4>1. clog[live[k].c] \in Seq(Records)
        BY <1>3 DEF CleanInv, WorldTypes
      <4> QED BY <3>1, <4>1, <1>4, <1>u, EndsOnMark DEF Stands
    <3> QED BY <2>0, <3>2, <3>3, <1>2, <1>3, <1>u DEF HeldWorld, Lingers
  <2>2. ASSUME NEW j \in Calls PROVE CallWorld(j)'
    <3>1. ~(call[j].pc = "bind" /\ live[j].prev # 0)
      <4>1. ASSUME call[j].pc = "bind", live[j].prev # 0 PROVE FALSE
        <5>1. call[j].sw = 0 /\ byAccount = j
          BY <4>1, <1>n DEF FlagInv, CallShape, Running
        <5> QED BY <4>1, <5>1, <2>0, <1>u
      <4> QED BY <4>1
    <3>2. call[j].pc = "switch" => live[call[j].sw].c # live[k].c
      BY <2>0 DEF ClaimKept, Unbinding
    <3>3. call[j].pc = "switch" => live[call[j].sw].c \in Characters /\ call[j].sw \in Calls
      BY <1>5 DEF Unbinding
    <3>4. call[j].pc = "switch" => StaysPresent(clog'[live'[call[j].sw].c], body'[live'[call[j].sw].c])
      BY <2>0, <3>2, <3>3, <1>2, <1>4, <1>u DEF WorldShape, CallWorld, Stands
    <3>5. call[j].pc = "orphan" => ~live'[j].linkdead
      BY <2>0, <1>2 DEF WorldShape, CallWorld
    <3> QED BY <3>1, <3>4, <3>5, <1>2, <1>u DEF CallWorld, Stands
  <2> QED BY <2>1, <2>2 DEF WorldShape
<1> QED BY <1>6, <1>7 DEF Shapes

(* The unbind a switch, or an orphan of one, produces reaches no Character a *)
(* flag or another call relies on.                                           *)
LEMMA UnbindsItsOwn ==
  ASSUME CleanInv, ClaimKept, NEW k \in Calls, Unbinding(k), NEW ok \in BOOLEAN,
         Produce(live[call[k].sw].c, "unbind", ok), UNCHANGED body
  PROVE  /\ ~ok => clog' = clog
         /\ byAccount # 0 => /\ Stands(live[byAccount].c) => StaysPresent(clog'[live[byAccount].c], body'[live[byAccount].c])
                             /\ Lingers(live[byAccount].c) => EndsUp(clog'[live[byAccount].c], body'[live[byAccount].c])
         /\ \A j \in Calls : Unbinding(j) /\ j # k /\ Stands(live[call[j].sw].c)
              => StaysPresent(clog'[live[call[j].sw].c], body'[live[call[j].sw].c])
<1>n. FlagInv /\ FlagNumbered
  BY FlagNumbers DEF CleanInv
<1>1. \A j \in Calls : Unbinding(j) => call[j].sw \in Calls /\ live[call[j].sw].c \in Characters
  BY <1>n DEF FlagInv, SwitchShape, CallShape
<1>2. /\ ~ok => clog' = clog
      /\ \A c \in Characters : c # live[call[k].sw].c => clog'[c] = clog[c]
  BY <1>1 DEF Produce, CleanInv, WorldTypes
<1>3. byAccount # 0 => live[byAccount].c \in Characters /\ live[byAccount].c # live[call[k].sw].c
  BY <1>n DEF ClaimKept, FlagInv, HeldShape
<1>4. \A j \in Calls : Unbinding(j) /\ j # k => live[call[j].sw].c # live[call[k].sw].c
  BY DEF CleanInv, ClaimShape
<1> QED BY <1>1, <1>2, <1>3, <1>4 DEF Stands, Lingers

(* A switch writes the Unbind of the Character it leaves. *)
LEMMA ShapesSwitchUnbinds ==
  ASSUME CleanInv, ClaimKept, NEW k \in Calls, SwitchUnbinds(k)
  PROVE  Shapes'
<1>n. FlagInv /\ FlagNumbered
  BY FlagNumbers DEF CleanInv
<1>u. UNCHANGED <<deleting, status, body, ends>> /\ call[k].pc = "switch"
  BY DEF SwitchUnbinds
<1>o. PICK old : old = call[k].sw
  OBVIOUS
<1>1. PICK ok \in BOOLEAN :
       /\ Produce(live[old].c, "unbind", ok)
       /\ \/ /\ ok
             /\ call' = [call EXCEPT ![k].pc = "bind"]
             /\ switching' = switching \ {live[old].c}
             /\ UNCHANGED <<live, byAccount, bySession, muddied>>
          \/ /\ ~ok /\ Releasing(k)
             /\ call' = [call EXCEPT ![k].pc = "orphan"]
             /\ byAccount' = Dropped(k) /\ bySession' = DroppedSession(k)
             /\ muddied' = TRUE /\ UNCHANGED <<live, switching>>
          \/ /\ ~ok /\ ~Releasing(k) /\ Fails(k)
             /\ live' = [live EXCEPT ![old].tear = "none"]
             /\ byAccount' = old /\ bySession' = [bySession EXCEPT ![live[k].s] = old]
             /\ switching' = switching \ {live[old].c} /\ UNCHANGED muddied
  BY <1>o DEF SwitchUnbinds
<1>2. Unbinding(k) /\ Produce(live[call[k].sw].c, "unbind", ok) /\ UNCHANGED body
  BY <1>1, <1>o, <1>u DEF Unbinding
<1>3. /\ ~ok => clog' = clog
      /\ byAccount # 0 => /\ Stands(live[byAccount].c) => StaysPresent(clog'[live[byAccount].c], body'[live[byAccount].c])
                          /\ Lingers(live[byAccount].c) => EndsUp(clog'[live[byAccount].c], body'[live[byAccount].c])
      /\ \A j \in Calls : Unbinding(j) /\ j # k /\ Stands(live[call[j].sw].c)
           => StaysPresent(clog'[live[call[j].sw].c], body'[live[call[j].sw].c])
  BY <1>2, UnbindsItsOwn
<1>4. /\ \A j \in Calls \ {k} : call'[j] = call[j]
      /\ call'[k].pc \in {"bind", "orphan", "done"} /\ call'[k].sw = old
  BY <1>1, <1>o, <1>n DEF FlagInv, FlagTypes, FlagNumbered, CallStates, Fails
<1>5. /\ old \in Calls /\ old # k /\ live[old].tear = "switched" /\ call[old].pc = "done" /\ old # 0
      /\ ~live[old].linkdead /\ live[old].c \in Characters
      /\ live[k].prev = 0 /\ k # 0 /\ live[old].c \in switching
      /\ \A j \in Calls : Unbinding(j) => call[j].sw \in Calls
      /\ \A j \in Calls : Unbinding(j) /\ j # k => call[j].sw # old /\ live[call[j].sw].c # live[old].c
  <2>1. CallShape(k) /\ SwitchShape(k) /\ Unbinding(k) /\ Running(k)
    BY <1>n, <1>u DEF FlagInv, Unbinding, Running
  <2>2. old \in Calls /\ live[old].tear = "switched" /\ call[old].pc = "done" /\ live[old].c \in switching
    BY <2>1, <1>o DEF SwitchShape, CleanInv, ClaimShape
  <2>3. CallShape(old) /\ old # 0 /\ k # 0
    BY <2>2, <1>n DEF FlagInv, FlagNumbered
  <2>4. live[k].prev = 0
    BY <2>1, <1>u DEF CallShape
  <2>5. \A j \in Calls : Unbinding(j) => call[j].sw \in Calls
    BY <1>n DEF FlagInv, SwitchShape
  <2>6. \A j \in Calls : Unbinding(j) /\ j # k => call[j].sw # old /\ live[call[j].sw].c # live[old].c
    BY <2>1, <1>o DEF SwitchShape, CleanInv, ClaimShape
  <2>7. ~live[old].linkdead /\ live[old].c \in Characters
    BY <2>2, <2>3 DEF CallShape
  <2> QED BY <2>1, <2>2, <2>3, <2>4, <2>5, <2>6, <2>7, <1>u
<1>6. /\ \A j \in Calls : /\ live'[j].c = live[j].c /\ live'[j].prev = live[j].prev
                          /\ live'[j].ended = live[j].ended /\ live'[j].linkdead = live[j].linkdead
                          /\ live'[j].end = live[j].end
      /\ \A j \in Calls \ {old} : live'[j] = live[j]
  <2>1. CASE live' = live
    BY <2>1
  <2>2. CASE live' = [live EXCEPT ![old].tear = "none"]
    <3>1. live[old] \in LiveStates
      BY <1>5, <1>n DEF FlagNumbered
    <3> QED BY <2>2, <3>1, <1>5, <1>n DEF FlagInv, FlagTypes, LiveStates
  <2> QED BY <1>1, <2>1, <2>2
<1>7. /\ call'[k].pc = "bind" => switching' = switching \ {live[old].c} /\ byAccount' = byAccount /\ live' = live
      /\ call'[k].pc = "orphan" => switching' = switching /\ live' = live /\ byAccount' # k
            /\ (byAccount' # 0 => byAccount' = byAccount)
            /\ muddied' /\ clog' = clog
      /\ call'[k].pc = "done" => switching' = switching \ {live[old].c} /\ byAccount' = old /\ clog' = clog
      /\ ~muddied' => ~muddied
  <2>1. call[k] \in CallStates
    BY <1>n DEF FlagNumbered
  <2>2. CASE /\ ok
             /\ call' = [call EXCEPT ![k].pc = "bind"]
             /\ switching' = switching \ {live[old].c}
             /\ UNCHANGED <<live, byAccount, bySession, muddied>>
    <3>1. call'[k].pc = "bind"
      BY <2>1, <2>2, <1>n DEF CallStates, FlagInv, FlagTypes
    <3> QED BY <2>2, <3>1, <1>1
  <2>3. CASE /\ ~ok /\ Releasing(k)
             /\ call' = [call EXCEPT ![k].pc = "orphan"]
             /\ byAccount' = Dropped(k) /\ bySession' = DroppedSession(k)
             /\ muddied' = TRUE /\ UNCHANGED <<live, switching>>
    <3>1. call'[k].pc = "orphan"
      BY <2>1, <2>3, <1>n DEF CallStates, FlagInv, FlagTypes
    <3>2. byAccount' # k /\ (byAccount' # 0 => byAccount' = byAccount)
      BY <2>3, <1>5 DEF Dropped
    <3> QED BY <2>3, <3>1, <3>2, <1>1, <1>3
  <2>4. CASE /\ ~ok /\ ~Releasing(k) /\ Fails(k)
             /\ live' = [live EXCEPT ![old].tear = "none"]
             /\ byAccount' = old /\ bySession' = [bySession EXCEPT ![live[k].s] = old]
             /\ switching' = switching \ {live[old].c} /\ UNCHANGED muddied
    <3>1. call'[k].pc = "done"
      BY <2>1, <2>4, <1>n DEF CallStates, FlagInv, FlagTypes, Fails
    <3> QED BY <2>4, <3>1, <1>1, <1>3
  <2> QED BY <1>1, <2>2, <2>3, <2>4
<1>8. \A j \in Calls : Unbinding(j)' => Unbinding(j) /\ call'[j].sw = call[j].sw /\ call[j].sw \in Calls
                                       /\ (j = k => call'[k].pc = "orphan")
  BY <1>2, <1>4, <1>5, <1>o DEF Unbinding
<1>9. ClaimShape'
  <2>1. \A j \in Calls : Unbinding(j)' => live'[call'[j].sw].c \in switching'
    <3> SUFFICES ASSUME NEW j \in Calls, Unbinding(j)' PROVE live'[call'[j].sw].c \in switching'
      OBVIOUS
    <3>1. live[call[j].sw].c \in switching /\ live'[call'[j].sw].c = live[call[j].sw].c
      BY <1>6, <1>8 DEF CleanInv, ClaimShape
    <3>2. CASE j = k
      BY <3>1, <3>2, <1>7, <1>8
    <3>3. CASE j # k
      BY <3>1, <3>3, <1>4, <1>5, <1>7, <1>8
    <3> QED BY <3>2, <3>3
  <2>2. \A i, j \in Calls : Unbinding(i)' /\ Unbinding(j)' /\ i # j
                            => live'[call'[j].sw].c # live'[call'[i].sw].c
    BY <1>6, <1>8 DEF CleanInv, ClaimShape
  <2>3. switching' \subseteq switching
    BY <1>4, <1>7
  <2>4. \A c \in Characters : c \in deleting \/ status[c] # "active" =>
          /\ byAccount' # 0 => live'[byAccount'].c # c
          /\ c \notin switching'
    BY <2>3, <1>4, <1>5, <1>6, <1>7, <1>n DEF CleanInv, ClaimShape, FlagNumbered
  <2> QED BY <2>1, <2>2, <2>4, <1>u DEF ClaimShape
<1>10. ASSUME ~muddied' PROVE WorldShape'
  <2>0. WorldShape
    BY <1>10, <1>7 DEF CleanInv
  <2>1. HeldWorld'
    <3>1. CASE call'[k].pc = "done"
      <4>1. byAccount' = old /\ clog' = clog
        BY <3>1, <1>7
      <4>2. StaysPresent(clog'[live'[old].c], body'[live'[old].c])
        BY <2>0, <4>1, <1>5, <1>6, <1>o, <1>u DEF WorldShape, CallWorld, Stands
      <4>3. live'[old].tear = "none"
        <5>1. call'[k].pc # "bind" /\ call'[k].pc # "orphan"
          BY <3>1
        <5>2. live' = [live EXCEPT ![old].tear = "none"]
          <6>1. call[k] \in CallStates
            BY <1>n DEF FlagNumbered
          <6>2. call' = [call EXCEPT ![k].pc = "bind"] => call'[k].pc = "bind"
            BY <6>1, <1>n DEF CallStates, FlagInv, FlagTypes
          <6>3. call' = [call EXCEPT ![k].pc = "orphan"] => call'[k].pc = "orphan"
            BY <6>1, <1>n DEF CallStates, FlagInv, FlagTypes
          <6> QED BY <5>1, <6>2, <6>3, <1>1
        <5>3. live[old] \in LiveStates
          BY <1>5, <1>n DEF FlagNumbered
        <5> QED BY <5>2, <5>3, <1>5, <1>n DEF FlagInv, FlagTypes, LiveStates
      <4>4. ~live'[old].linkdead
        BY <1>5, <1>6
      <4> QED BY <4>1, <4>2, <4>3, <4>4 DEF HeldWorld, Stands
    <3>2. CASE call'[k].pc # "done" /\ byAccount' # 0
      <4>1. byAccount' = byAccount /\ live' = live /\ byAccount \in Calls
        BY <3>2, <1>4, <1>7, <1>n DEF FlagNumbered
      <4>2. byAccount = k => call'[k].pc = "bind"
        BY <3>2, <4>1, <1>4, <1>7
      <4>3. byAccount = k => Running(k) /\ Running(k)'
        BY <4>2, <1>u DEF Running
      <4>4. byAccount # k => call'[byAccount] = call[byAccount]
        BY <4>1, <1>4
      <4>5. CASE byAccount = k
        BY <4>1, <4>2, <4>3, <4>5 DEF HeldWorld
      <4>6. CASE byAccount # k
        BY <2>0, <3>2, <4>1, <4>4, <4>6, <1>3, <1>u DEF WorldShape, HeldWorld, Stands, Lingers, Running
      <4> QED BY <4>5, <4>6
    <3>3. CASE byAccount' = 0
      BY <3>3 DEF HeldWorld
    <3> QED BY <3>1, <3>2, <3>3
  <2>2. ASSUME NEW j \in Calls PROVE CallWorld(j)'
    <3>0. CallWorld(j)
      BY <2>0 DEF WorldShape
    <3>1. CASE j = k
      <4>1. live'[k].prev = 0 /\ call'[k].pc # "switch"
        BY <1>4, <1>5, <1>6
      <4>2. call'[k].pc = "orphan" => ~live'[k].linkdead
        BY <1>7, <1>10
      <4> QED BY <3>1, <4>1, <4>2 DEF CallWorld
    <3>2. CASE j # k
      <4>1. call'[j] = call[j] /\ live'[j].prev = live[j].prev /\ live'[j].c = live[j].c
            /\ live'[j].linkdead = live[j].linkdead
        BY <3>2, <1>4, <1>6
      <4>2. CASE call[j].pc = "bind" /\ live[j].prev # 0
        <5>1. PICK p \in Calls : p = live[j].prev
          BY <4>2, <1>n DEF FlagNumbered
        <5>2. byAccount = j /\ j # 0 /\ live[p].linkdead
          BY <4>2, <5>1, <1>n DEF FlagInv, CallShape, Running, FlagNumbered
        <5>3. Lingers(live[j].c) => EndsUp(clog'[live[j].c], body'[live[j].c])
          BY <5>2, <1>3
        <5>4. Running(p) => Running(p)'
          <6>1. CASE p = k
            <7>1. call'[k].pc = "done" => ~Releasing(k)
              <8>1. call[k] \in CallStates
                BY <1>n DEF FlagNumbered
              <8>2. call' = [call EXCEPT ![k].pc = "bind"] => call'[k].pc = "bind"
                BY <8>1, <1>n DEF CallStates, FlagInv, FlagTypes
              <8>3. call' = [call EXCEPT ![k].pc = "orphan"] => call'[k].pc = "orphan"
                BY <8>1, <1>n DEF CallStates, FlagInv, FlagTypes
              <8> QED BY <8>2, <8>3, <1>1
            <7>2. Releasing(k)
              BY <6>1, <5>2, <1>n DEF FlagInv, CallShape, Releasing
            <7> QED BY <6>1, <7>1, <7>2, <1>4 DEF Running
          <6>2. CASE p # k
            BY <6>2, <1>4 DEF Running
          <6> QED BY <6>1, <6>2
        <5>5. live'[p].ended = live[p].ended
          BY <1>6
        <5> QED BY <3>0, <4>1, <4>2, <5>1, <5>3, <5>4, <5>5, <1>u DEF CallWorld, Lingers, Running
      <4>3. CASE call[j].pc = "switch"
        <5>1. Unbinding(j) /\ call[j].sw \in Calls
          BY <4>3, <1>5 DEF Unbinding
        <5>2. StaysPresent(clog'[live'[call[j].sw].c], body'[live'[call[j].sw].c])
          BY <3>0, <3>2, <4>3, <5>1, <1>3, <1>6 DEF CallWorld
        <5> QED BY <4>1, <4>3, <5>2 DEF CallWorld, Stands
      <4>4. CASE call[j].pc # "switch" /\ ~(call[j].pc = "bind" /\ live[j].prev # 0)
        BY <3>0, <4>1, <4>4 DEF CallWorld
      <4> QED BY <4>2, <4>3, <4>4
    <3> QED BY <3>1, <3>2
  <2> QED BY <2>1, <2>2 DEF WorldShape
<1> QED BY <1>9, <1>10 DEF Shapes

(* A switch whose call is gone, at its late Unbind. *)
LEMMA ShapesReleaseOrphanedSwitch ==
  ASSUME CleanInv, ClaimKept, NEW k \in Calls, ReleaseOrphanedSwitch(k)
  PROVE  Shapes'
<1>n. FlagInv /\ FlagNumbered
  BY FlagNumbers DEF CleanInv
<1>u. /\ UNCHANGED <<live, byAccount, deleting, status, body, ends, muddied>>
      /\ call[k].pc = "orphan" /\ Fails(k)
      /\ switching' = switching \ {live[call[k].sw].c}
  BY DEF ReleaseOrphanedSwitch
<1>1. PICK ok \in BOOLEAN : Produce(live[call[k].sw].c, "unbind", ok)
  BY DEF ReleaseOrphanedSwitch
<1>2. Unbinding(k)
  BY <1>u DEF Unbinding
<1>3. /\ byAccount # 0 => /\ Stands(live[byAccount].c) => StaysPresent(clog'[live[byAccount].c], body'[live[byAccount].c])
                          /\ Lingers(live[byAccount].c) => EndsUp(clog'[live[byAccount].c], body'[live[byAccount].c])
      /\ \A j \in Calls : Unbinding(j) /\ j # k /\ Stands(live[call[j].sw].c)
           => StaysPresent(clog'[live[call[j].sw].c], body'[live[call[j].sw].c])
  BY <1>1, <1>2, <1>u, UnbindsItsOwn
<1>4. /\ \A j \in Calls \ {k} : call'[j] = call[j]
      /\ call'[k].pc = "done"
  BY <1>u, <1>n DEF FlagInv, FlagTypes, FlagNumbered, CallStates, Fails
<1>5. \A j \in Calls : Unbinding(j)' => Unbinding(j) /\ j # k /\ call'[j] = call[j]
  BY <1>4 DEF Unbinding
<1>6. ClaimShape'
  BY <1>2, <1>5, <1>u DEF CleanInv, ClaimShape
<1>7. ASSUME ~muddied' PROVE WorldShape'
  <2>0. WorldShape /\ ~live[k].linkdead /\ byAccount # k
    BY <1>7, <1>u, <1>n DEF CleanInv, WorldShape, CallWorld, FlagInv, CallShape
  <2>1. HeldWorld'
    <3>1. byAccount # 0 => byAccount \in Calls \ {k} /\ call'[byAccount] = call[byAccount]
      BY <2>0, <1>4, <1>n DEF FlagNumbered
    <3> QED BY <2>0, <3>1, <1>3, <1>u DEF WorldShape, HeldWorld, Stands, Lingers, Running
  <2>2. ASSUME NEW j \in Calls PROVE CallWorld(j)'
    <3>0. CallWorld(j)
      BY <2>0 DEF WorldShape
    <3>1. CASE j = k
      BY <3>1, <1>4 DEF CallWorld
    <3>2. CASE j # k /\ call[j].pc = "bind" /\ live[j].prev # 0
      <4>1. byAccount = j /\ live[live[j].prev].linkdead /\ live[j].prev \in Calls /\ j # 0
        BY <3>2, <1>n DEF FlagInv, CallShape, Running, FlagNumbered
      <4>2. live[j].prev # k
        BY <4>1, <2>0
      <4>3. call'[live[j].prev] = call[live[j].prev] /\ call'[j] = call[j]
        BY <3>2, <4>1, <4>2, <1>4
      <4> QED BY <3>0, <3>2, <4>1, <4>3, <1>3, <1>u DEF CallWorld, Lingers, Running
    <3>3. CASE j # k /\ ~(call[j].pc = "bind" /\ live[j].prev # 0)
      BY <3>0, <3>3, <1>3, <1>4, <1>u DEF CallWorld, Stands, Unbinding
    <3> QED BY <3>1, <3>2, <3>3
  <2> QED BY <2>1, <2>2 DEF WorldShape
<1> QED BY <1>6, <1>7 DEF Shapes

(* The Bind is written, or fails. *)
LEMMA ShapesBindProduces ==
  ASSUME CleanInv, NEW k \in Calls, BindProduces(k)
  PROVE  Shapes'
<1>n. FlagInv /\ FlagNumbered
  BY FlagNumbers DEF CleanInv
<1>u. /\ UNCHANGED <<switching, deleting, status, body, ends>> /\ call[k].pc = "bind"
      /\ call' = [call EXCEPT ![k].pc = "done"]
  BY DEF BindProduces
<1>1. /\ call'[k].pc = "done" /\ \A j \in Calls \ {k} : call'[j] = call[j]
  BY <1>u, <1>n DEF FlagNumbered, CallStates, FlagInv, FlagTypes
<1>2. CallShape(k) /\ Running(k) /\ k # 0 /\ live[k].c \in Characters
  BY <1>u, <1>n DEF FlagInv, Running, FlagNumbered, CallShape
<1>3. \A j \in Calls : /\ Unbinding(j) => j # k /\ call[j].sw \in Calls /\ live[call[j].sw].c \in Characters
                       /\ Unbinding(j)' <=> Unbinding(j)
                       /\ Unbinding(j)' => call'[j] = call[j]
  BY <1>u, <1>1, <1>n DEF FlagInv, SwitchShape, CallShape, Unbinding
<1>4. CASE /\ Produce(live[k].c, "bind", TRUE)
           /\ live' = [live EXCEPT ![k].confirmed = TRUE, ![k].prev = 0]
           /\ UNCHANGED <<byAccount, muddied>>
  <2>1. /\ \A j \in Calls \ {k} : live'[j] = live[j]
        /\ \A j \in Calls : /\ live'[j].c = live[j].c /\ live'[j].tear = live[j].tear
                            /\ live'[j].linkdead = live[j].linkdead /\ live'[j].ended = live[j].ended
                            /\ live'[j].end = live[j].end
        /\ live'[k].prev = 0
    BY <1>4, <1>n DEF FlagInv, FlagTypes, LiveStates, FlagNumbered
  <2>2. clog' = [clog EXCEPT ![live[k].c] = Append(@, "bind")]
    BY <1>4 DEF Produce
  <2>3. \A c \in Characters : /\ c # live[k].c => clog'[c] = clog[c]
                              /\ c = live[k].c => clog'[c] = Append(clog[c], "bind")
                              /\ clog[c] \in Seq(Records)
    BY <2>2 DEF CleanInv, WorldTypes
  <2>4. \A c \in Characters : StaysPresent(clog[c], body[c]) => StaysPresent(clog'[c], body'[c])
    BY <2>3, <1>u, StaysOnBind
  <2>5. StaysPresent(clog'[live[k].c], body'[live[k].c]) /\ EndsUp(clog'[live[k].c], body'[live[k].c])
    <3>0. PICK b : b = body'[live[k].c]
      OBVIOUS
    <3>1. PICK log \in Seq(Records) : log = clog[live[k].c]
      BY <2>3, <1>2
    <3>2. StaysPresent(Append(log, "bind"), b)
      BY StaysOnBind
    <3>3. EndsUp(Append(log, "bind"), b)
      BY <3>2, StaysEndsUp
    <3> QED BY <3>0, <3>1, <3>2, <3>3, <2>3, <1>2
  <2>6. \A c \in Characters : EndsUp(clog[c], body[c]) => EndsUp(clog'[c], body'[c])
    BY <2>3, <2>5, <1>u
  <2>7. UNCHANGED <<byAccount, muddied>>
    BY <1>4
  <2>8. ClaimShape'
    BY <2>1, <2>7, <1>3, <1>u, <1>n DEF CleanInv, ClaimShape, FlagNumbered
  <2>9. ASSUME ~muddied' PROVE WorldShape'
    <3>0. WorldShape
      BY <2>7, <2>9 DEF CleanInv
    <3>1. HeldWorld'
      <4>1. CASE byAccount = k
        BY <4>1, <2>1, <2>5, <2>7 DEF HeldWorld, Stands, Lingers
      <4>2. CASE byAccount # k /\ byAccount # 0
        <5>1. byAccount \in Calls /\ live[byAccount].c \in Characters
          BY <4>2, <1>n DEF FlagInv, HeldShape, FlagNumbered
        <5>2. live'[byAccount] = live[byAccount] /\ call'[byAccount] = call[byAccount]
          BY <4>2, <5>1, <2>1, <1>1
        <5> QED BY <3>0, <4>2, <5>1, <5>2, <2>4, <2>6, <2>7, <1>u DEF WorldShape, HeldWorld, Stands, Lingers, Running
      <4>3. CASE byAccount = 0
        BY <4>3, <2>7 DEF HeldWorld
      <4> QED BY <4>1, <4>2, <4>3
    <3>2. ASSUME NEW j \in Calls PROVE CallWorld(j)'
      <4>0. CallWorld(j)
        BY <3>0 DEF WorldShape
      <4>1. CASE j = k
        BY <4>1, <1>1 DEF CallWorld
      <4>2. CASE j # k /\ call[j].pc = "bind" /\ live[j].prev # 0
        <5>1. PICK p \in Calls : p = live[j].prev
          BY <4>2, <1>n DEF FlagNumbered
        <5>2. live[p].c = live[j].c /\ live[j].c \in Characters
          BY <4>2, <5>1, <1>n DEF FlagInv, CallShape, Running
        <5>3. p = k => EndsUp(clog'[live[j].c], body'[live[j].c])
          BY <5>2, <2>5
        <5>4. p # k => (Running(p) => Running(p)')
          BY <1>1 DEF Running
        <5>5. live'[j] = live[j] /\ call'[j] = call[j] /\ live'[p].ended = live[p].ended
          BY <4>2, <2>1, <1>1
        <5> QED BY <4>0, <4>2, <5>1, <5>2, <5>3, <5>4, <5>5, <2>6, <1>u DEF CallWorld, Lingers, Running
      <4>3. CASE j # k /\ ~(call[j].pc = "bind" /\ live[j].prev # 0)
        <5>1. live'[j] = live[j] /\ call'[j] = call[j]
          BY <4>3, <2>1, <1>1
        <5> QED BY <4>0, <4>3, <5>1, <2>1, <2>4, <1>3 DEF CallWorld, Stands, Unbinding
      <4> QED BY <4>1, <4>2, <4>3
    <3> QED BY <3>1, <3>2 DEF WorldShape
  <2> QED BY <2>8, <2>9 DEF Shapes
<1>5. CASE /\ Produce(live[k].c, "bind", FALSE)
           /\ byAccount' = PutBack(k) /\ UNCHANGED <<live, muddied>>
  <2> DEFINE p == live[k].prev
  <2>0. clog' = clog /\ UNCHANGED <<live, muddied>>
    BY <1>5 DEF Produce
  <2>1. p # 0 => byAccount = k /\ p \in Calls /\ live[p].linkdead /\ live[p].c = live[k].c
                 /\ live[p].tear = "released" /\ p # k
    <3>1. p # 0 => byAccount = k /\ p \in Calls /\ live[p].linkdead /\ live[p].c = live[k].c
                   /\ live[k].tear # "released"
      BY <1>2, <1>n DEF CallShape, FlagNumbered
    <3> QED BY <3>1, <1>n DEF FlagInv, CallShape
  <2>2. \/ byAccount' = byAccount /\ byAccount # k
        \/ byAccount' = 0
        \/ byAccount' = p /\ p # 0 /\ byAccount = k /\ ~live[p].ended
    BY <1>5, <1>2, <2>1 DEF PutBack, Dropped
  <2> HIDE DEF p
  <2>3. ClaimShape'
    <3>1. byAccount' # 0 => byAccount # 0 /\ live[byAccount'].c = live[byAccount].c
      BY <2>1, <2>2, <1>2
    <3> QED BY <3>1, <2>0, <1>3, <1>u DEF CleanInv, ClaimShape
  <2>4. ASSUME ~muddied' PROVE WorldShape'
    <3>0. WorldShape /\ ~live[k].linkdead
      BY <2>0, <2>4, <1>2, <1>n DEF CleanInv, KeptShape, FlagInv, CallShape
    <3>1. HeldWorld'
      <4>1. CASE byAccount' = byAccount /\ byAccount # k /\ byAccount # 0
        <5>1. call'[byAccount] = call[byAccount]
          BY <4>1, <1>1, <1>n DEF FlagNumbered
        <5> QED BY <3>0, <4>1, <5>1, <2>0, <1>u DEF WorldShape, HeldWorld, Stands, Lingers, Running
      <4>2. CASE byAccount' = 0
        BY <4>2 DEF HeldWorld
      <4>3. CASE byAccount' = p /\ p # 0 /\ byAccount = k /\ ~live[p].ended
        <5>1. Running(p) \/ Lingers(live[p].c) \/ live[p].c \in ends
          BY <3>0, <4>3, <2>1, <1>u DEF WorldShape, CallWorld, p
        <5>2. call'[p] = call[p]
          BY <4>3, <2>1, <1>1
        <5> QED BY <4>3, <5>1, <5>2, <2>0, <2>1, <1>u DEF HeldWorld, Lingers, Running
      <4> QED BY <2>2, <4>1, <4>2, <4>3
    <3>2. ASSUME NEW j \in Calls PROVE CallWorld(j)'
      <4>0. CallWorld(j)
        BY <3>0 DEF WorldShape
      <4>1. CASE j = k
        BY <4>1, <1>1 DEF CallWorld
      <4>2. CASE j # k
        <5>1. call[j].pc = "bind" /\ live[j].prev # 0 => live[j].prev \in Calls \ {k}
          BY <3>0, <1>n DEF FlagInv, CallShape, Running, FlagNumbered
        <5> QED BY <4>0, <4>2, <5>1, <2>0, <1>1, <1>u DEF CallWorld, Stands, Lingers, Running
      <4> QED BY <4>1, <4>2
    <3> QED BY <3>1, <3>2 DEF WorldShape
  <2> QED BY <2>3, <2>4 DEF Shapes
<1>6. PICK ok \in BOOLEAN :
       /\ Produce(live[k].c, "bind", ok)
       /\ \/ /\ ok
             /\ live' = [live EXCEPT ![k].confirmed = TRUE, ![k].prev = 0]
             /\ UNCHANGED <<byAccount, bySession>>
          \/ /\ ~ok
             /\ byAccount' = PutBack(k) /\ bySession' = DroppedSession(k)
             /\ UNCHANGED live
       /\ UNCHANGED muddied
  BY DEF BindProduces
<1>7. CASE ok = TRUE
  BY <1>4, <1>6, <1>7
<1>8. CASE ok = FALSE
  BY <1>5, <1>6, <1>8
<1> QED BY <1>7, <1>8

(* A delete or a purge of c touches nothing a flag or a switch relies on. *)
LEMMA ShapesDeletes ==
  ASSUME CleanInv, NEW c \in Characters, DeleteClaims(c) \/ DeleteFlips(c)
  PROVE  Shapes'
<1>u. UNCHANGED <<flagVars, worldVars>>
  BY DEF DeleteClaims, DeleteFlips
<1>1. ClaimShape'
  <2>1. CASE DeleteClaims(c)
    BY <2>1, <1>u DEF DeleteClaims, CleanInv, ClaimShape, Unbinding, flagVars
  <2>2. CASE DeleteFlips(c)
    <3>1. c \in deleting /\ deleting' = deleting \ {c}
      BY <2>2 DEF DeleteFlips
    <3>2. \A d \in Characters : d # c => status'[d] = status[d]
      BY <2>2 DEF DeleteFlips, CleanInv, WorldTypes
    <3>3. \A d \in Characters : d \in deleting' \/ status'[d] # "active" => d \in deleting \/ status[d] # "active"
      BY <3>1, <3>2
    <3> QED BY <3>3, <1>u DEF CleanInv, ClaimShape, Unbinding, flagVars
  <2> QED BY <2>1, <2>2
<1>2. ~muddied' => WorldShape'
  BY <1>u DEF CleanInv, WorldShape, HeldWorld, CallWorld, Stands, Lingers, Running, flagVars, worldVars
<1> QED BY <1>1, <1>2 DEF Shapes

(* Sweep purges a deleted Character. *)
LEMMA ShapesSweepPurges ==
  ASSUME CleanInv, NEW c \in Characters, SweepPurges(c)
  PROVE  Shapes'
<1>n. FlagInv /\ FlagNumbered
  BY FlagNumbers DEF CleanInv
<1>u. UNCHANGED <<flagVars, deleting, body, ends, muddied>> /\ status[c] = "deleted"
  BY DEF SweepPurges
<1>1. \A d \in Characters : d # c => clog'[d] = clog[d] /\ status'[d] = status[d]
  BY DEF SweepPurges, Produce, CleanInv, WorldTypes
<1>2. /\ byAccount # 0 => live[byAccount].c # c /\ live[byAccount].c \in Characters
      /\ \A j \in Calls : Unbinding(j) => live[call[j].sw].c # c /\ live[call[j].sw].c \in Characters
  BY <1>u, <1>n DEF CleanInv, ClaimShape, FlagInv, HeldShape, SwitchShape, CallShape
<1>3. ClaimShape'
  BY <1>u, <1>1 DEF CleanInv, ClaimShape, Unbinding, flagVars
<1>4. ASSUME ~muddied' PROVE WorldShape'
  <2>0. WorldShape
    BY <1>4, <1>u DEF CleanInv
  <2>1. HeldWorld'
    BY <2>0, <1>1, <1>2, <1>u DEF WorldShape, HeldWorld, Stands, Lingers, Running, flagVars
  <2>2. ASSUME NEW j \in Calls PROVE CallWorld(j)'
    <3>1. call[j].pc = "bind" /\ live[j].prev # 0 => byAccount = j /\ j # 0
      BY <1>n DEF FlagInv, CallShape, Running, FlagNumbered
    <3> QED BY <2>0, <3>1, <1>1, <1>2, <1>u DEF WorldShape, CallWorld, Stands, Lingers, Running, flagVars, Unbinding
  <2> QED BY <2>1, <2>2 DEF WorldShape
<1> QED BY <1>3, <1>4 DEF Shapes

(* The tick: records applied in order keep what their order promises, and a *)
(* linkdead body's end is reported.                                         *)
LEMMA ShapesTick ==
  ASSUME CleanInv, NEW c \in Characters, Apply(c) \/ LinkdeadExpires(c)
  PROVE  Shapes'
<1>n. FlagInv /\ FlagNumbered
  BY FlagNumbers DEF CleanInv
<1>u. UNCHANGED <<flagVars, deleting, status, muddied>>
  BY DEF Apply, LinkdeadExpires
<1>t. clog \in [Characters -> Seq(Records)] /\ body \in [Characters -> {"none", "dormant", "present", "linkdead"}]
  BY DEF CleanInv, WorldTypes
<1>1. ClaimShape'
  BY <1>u DEF CleanInv, ClaimShape, Unbinding, flagVars
<1>2. ends \subseteq ends'
  BY DEF Apply, LinkdeadExpires, Becomes
<1>3. \A d \in Characters : StaysPresent(clog[d], body[d]) => StaysPresent(clog'[d], body'[d])
  <2>1. CASE Apply(c)
    <3>1. clog[c] # <<>> /\ clog'[c] = Tail(clog[c]) /\ body'[c] = Applied(Head(clog[c]), body[c])
          /\ \A d \in Characters : d # c => clog'[d] = clog[d] /\ body'[d] = body[d]
      BY <2>1, <1>t DEF Apply, Becomes
    <3>2. clog[c] \in Seq(Records)
      BY <1>t
    <3> QED BY <3>1, <3>2, StaysApplied
  <2>2. CASE LinkdeadExpires(c)
    <3>1. clog' = clog /\ body[c] = "linkdead" /\ \A d \in Characters : d # c => body'[d] = body[d]
      BY <2>2, <1>t DEF LinkdeadExpires, Becomes
    <3> QED BY <3>1, StaysNotLinkdead
  <2> QED BY <2>1, <2>2
<1>4. \A d \in Characters : EndsUp(clog[d], body[d]) =>
        \/ EndsUp(clog'[d], body'[d])
        \/ d \in ends' /\ \A k \in Calls : live[k].tear = "logged" => live[k].c # d
  <2>1. CASE Apply(c)
    <3>1. clog[c] # <<>> /\ clog'[c] = Tail(clog[c]) /\ body'[c] = Applied(Head(clog[c]), body[c])
          /\ \A d \in Characters : d # c => clog'[d] = clog[d] /\ body'[d] = body[d]
      BY <2>1, <1>t DEF Apply, Becomes
    <3>2. clog[c] \in Seq(Records)
      BY <1>t
    <3> QED BY <3>1, <3>2, EndsApplied
  <2>2. CASE LinkdeadExpires(c)
    <3>1. clog' = clog /\ c \in ends' /\ (\A d \in Characters : d # c => body'[d] = body[d])
          /\ \A k \in Calls : live[k].tear = "logged" => live[k].c # c
      BY <2>2, <1>t DEF LinkdeadExpires, Becomes
    <3> QED BY <3>1
  <2> QED BY <2>1, <2>2
<1>5. ASSUME ~muddied' PROVE WorldShape'
  <2>0. WorldShape
    BY <1>5, <1>u DEF CleanInv
  <2>1. HeldWorld'
    <3>1. byAccount # 0 => byAccount \in Calls /\ live[byAccount].c \in Characters
      BY <1>n DEF FlagInv, HeldShape, FlagNumbered
    <3> QED BY <2>0, <3>1, <1>2, <1>3, <1>4, <1>u DEF WorldShape, HeldWorld, Stands, Lingers, Running, flagVars
  <2>2. ASSUME NEW j \in Calls PROVE CallWorld(j)'
    <3>1. Unbinding(j) => live[call[j].sw].c \in Characters
      BY <1>n DEF FlagInv, SwitchShape, CallShape
    <3>2. call[j].pc = "bind" => live[j].c \in Characters
      BY <1>n DEF FlagInv, CallShape, Running
    <3> QED BY <2>0, <3>1, <3>2, <1>2, <1>3, <1>4, <1>u DEF WorldShape, CallWorld, Stands, Lingers, Running, flagVars, Unbinding
  <2> QED BY <2>1, <2>2 DEF WorldShape
<1> QED BY <1>1, <1>5 DEF Shapes

(* The end of a linkdead body is observed. *)
LEMMA ShapesObserveLinkdead ==
  ASSUME CleanInv, NEW c \in Characters, ObserveLinkdead(c)
  PROVE  Shapes'
<1>n. FlagInv /\ FlagNumbered
  BY FlagNumbers DEF CleanInv
<1>u. UNCHANGED <<call, switching, deleting, status, clog, body, muddied>> /\ ends' = ends \ {c}
  BY DEF ObserveLinkdead
<1>1. CASE byAccount # 0 /\ live[byAccount].linkdead /\ live[byAccount].c = c
  <2>1. byAccount' = 0 /\ live' = live
    BY <1>1 DEF ObserveLinkdead
  <2>2. ClaimShape'
    BY <2>1, <1>u DEF CleanInv, ClaimShape, Unbinding
  <2>3. \A j \in Calls : ~(call[j].pc = "bind" /\ live[j].prev # 0)
    <3> SUFFICES ASSUME NEW j \in Calls, call[j].pc = "bind", live[j].prev # 0 PROVE FALSE
      OBVIOUS
    <3>1. byAccount = j /\ live[j].tear \in {"none", "produce"}
      BY <1>n DEF FlagInv, CallShape, Running
    <3> QED BY <3>1, <1>1, <1>n DEF FlagInv, CallShape
  <2>4. ~muddied' => WorldShape'
    BY <2>1, <2>3, <1>u DEF CleanInv, WorldShape, HeldWorld, CallWorld, Stands
  <2> QED BY <2>2, <2>4 DEF Shapes
<1>2. CASE ~(byAccount # 0 /\ live[byAccount].linkdead /\ live[byAccount].c = c)
  <2>1. byAccount' = byAccount
        /\ live' = IF byAccount # 0 /\ live[byAccount].prev # 0 /\ live[byAccount].c = c
                   THEN [live EXCEPT ![live[byAccount].prev].ended = TRUE] ELSE live
    BY <1>2 DEF ObserveLinkdead
  <2>2. /\ \A j \in Calls : /\ live'[j].c = live[j].c /\ live'[j].tear = live[j].tear
                            /\ live'[j].linkdead = live[j].linkdead /\ live'[j].prev = live[j].prev
                            /\ live'[j].end = live[j].end /\ (live[j].ended => live'[j].ended)
        /\ byAccount # 0 /\ live[byAccount].prev # 0 /\ live[byAccount].c = c => live'[live[byAccount].prev].ended
    <3>1. CASE byAccount # 0 /\ live[byAccount].prev # 0 /\ live[byAccount].c = c
      <4>1. PICK p \in Calls : p = live[byAccount].prev
        BY <3>1, <1>n DEF FlagNumbered
      <4>2. live' = [live EXCEPT ![p].ended = TRUE] /\ live[p] \in LiveStates
        BY <2>1, <3>1, <4>1, <1>n DEF FlagNumbered
      <4>3. /\ \A j \in Calls : /\ live'[j].c = live[j].c /\ live'[j].tear = live[j].tear
                            /\ live'[j].linkdead = live[j].linkdead /\ live'[j].prev = live[j].prev
                            /\ live'[j].end = live[j].end /\ (j # p => live'[j].ended = live[j].ended)
            /\ live'[p].ended
        BY <4>2, <1>n DEF FlagInv, FlagTypes, LiveStates
      <4> QED BY <4>1, <4>3
    <3>2. CASE ~(byAccount # 0 /\ live[byAccount].prev # 0 /\ live[byAccount].c = c)
      BY <2>1, <3>2
    <3> QED BY <3>1, <3>2
  <2>3. \A j \in Calls : Unbinding(j) => call[j].sw \in Calls
    BY <1>n DEF FlagInv, SwitchShape
  <2>b. byAccount' = byAccount
    BY <2>1
  <2>4. ClaimShape'
    BY <2>2, <2>3, <2>b, <1>u, <1>n DEF CleanInv, ClaimShape, Unbinding, FlagNumbered
  <2>5. ASSUME ~muddied' PROVE WorldShape'
    <3>0. WorldShape
      BY <2>5, <1>u DEF CleanInv
    <3>1. HeldWorld'
      BY <3>0, <2>2, <2>b, <1>2, <1>u, <1>n DEF WorldShape, HeldWorld, Stands, Lingers, Running, FlagNumbered
    <3>2. ASSUME NEW j \in Calls PROVE CallWorld(j)'
      <4>1. call[j].pc = "bind" /\ live[j].prev # 0 => byAccount = j /\ j # 0 /\ live[j].prev \in Calls
        BY <1>n DEF FlagInv, CallShape, Running, FlagNumbered
      <4> QED BY <3>0, <4>1, <2>2, <2>3, <2>b, <1>u DEF WorldShape, CallWorld, Stands, Lingers, Running, Unbinding
    <3> QED BY <3>1, <3>2 DEF WorldShape
  <2> QED BY <2>4, <2>5 DEF Shapes
<1> QED BY <1>1, <1>2

(* A crash clears every flag; the log and the World stay. *)
LEMMA ShapesCrash ==
  ASSUME CleanInv, Crash
  PROVE  Shapes'
<1>1. \A k \in Calls : ~Unbinding(k)'
  BY DEF Crash, Unbinding
<1>2. muddied' = TRUE /\ byAccount' = 0 /\ switching' = {}
  BY DEF Crash
<1> QED BY <1>1, <1>2 DEF Shapes, ClaimShape

(* The types of what the flags do not own. *)
LEMMA WorldTypesStep ==
  ASSUME FlagInv, WorldTypes, [RosterNext]_rosterVars
  PROVE  WorldTypes'
<1>n. FlagInv /\ FlagNumbered
  BY FlagNumbers
<1>t. WorldTypes
  OBVIOUS
<1>p. ASSUME NEW c \in Characters, NEW r \in Records, NEW ok \in BOOLEAN, Produce(c, r, ok)
      PROVE  clog' \in [Characters -> Seq(Records)] /\ late' \subseteq Characters \X Records
  <2>1. clog' \in [Characters -> Seq(Records)]
    <3>1. clog[c] \in Seq(Records)
      BY <1>t DEF WorldTypes
    <3>2. Append(clog[c], r) \in Seq(Records)
      BY <3>1
    <3> QED BY <3>2, <1>p, <1>t DEF Produce, WorldTypes
  <2>2. late' \subseteq Characters \X Records
    <3>1. <<c, r>> \in Characters \X Records
      OBVIOUS
    <3> QED BY <3>1, <1>p, <1>t DEF Produce, WorldTypes
  <2> QED BY <2>1, <2>2
<1>m. muddied \in BOOLEAN
  BY <1>t DEF WorldTypes
<1>1. ASSUME NEW s \in Sessions,
             \/ OpenSession(s) \/ ConnClosed(s) \/ CloseSession(s) \/ ReleaseSession(s)
             \/ \E k \in Calls, c \in Characters : SelectCharacter(k, s, c)
      PROVE  WorldTypes'
  <2>1. UNCHANGED <<deleting, status, worldVars>>
    BY <1>1 DEF OpenSession, ConnClosed, CloseSession, ReleaseSession, SelectCharacter
  <2> QED BY <2>1, <1>t DEF WorldTypes, worldVars
<1>2. ASSUME NEW k \in Calls, TeardownEnds(k) \/ SelectRefused(k) \/ SelectLocked(k) PROVE WorldTypes'
  <2>1. UNCHANGED <<deleting, status, worldVars>>
    BY <1>2 DEF TeardownEnds, SelectRefused, SelectLocked
  <2> QED BY <2>1, <1>t DEF WorldTypes, worldVars
<1>3. ASSUME NEW k \in Calls,
             TeardownProduces(k) \/ SwitchUnbinds(k) \/ ReleaseOrphanedSwitch(k) \/ BindProduces(k)
      PROVE  WorldTypes'
  <2>1. UNCHANGED <<deleting, status, body, ends>>
    BY <1>3 DEF TeardownProduces, SwitchUnbinds, ReleaseOrphanedSwitch, BindProduces
  <2>2. \E c \in Characters, r \in Records, ok \in BOOLEAN : Produce(c, r, ok)
    <3>1. CASE TeardownProduces(k)
      <4>1. live[k].c \in Characters
        BY <3>1, <1>n DEF TeardownProduces, FlagInv, CallShape
      <4> QED BY <3>1, <4>1 DEF TeardownProduces, Records
    <3>2. CASE SwitchUnbinds(k) \/ ReleaseOrphanedSwitch(k)
      <4>1. Unbinding(k) /\ \E ok \in BOOLEAN : Produce(live[call[k].sw].c, "unbind", ok)
        BY <3>2 DEF SwitchUnbinds, ReleaseOrphanedSwitch, Unbinding
      <4>2. live[call[k].sw].c \in Characters
        BY <4>1, <1>n DEF FlagInv, SwitchShape, CallShape
      <4> QED BY <4>1, <4>2 DEF Records
    <3>3. CASE BindProduces(k)
      <4>1. live[k].c \in Characters
        BY <3>3, <1>n DEF BindProduces, FlagInv, CallShape, Running
      <4> QED BY <3>3, <4>1 DEF BindProduces, Records
    <3> QED BY <1>3, <3>1, <3>2, <3>3
  <2>3. muddied' \in BOOLEAN
    BY <1>3, <1>m, Zenon DEF TeardownProduces, SwitchUnbinds, ReleaseOrphanedSwitch, BindProduces
  <2> QED BY <2>1, <2>2, <2>3, <1>p, <1>t DEF WorldTypes
<1>4. ASSUME NEW c \in Characters, DeleteClaims(c) \/ DeleteFlips(c) PROVE WorldTypes'
  BY <1>4, <1>t DEF DeleteClaims, DeleteFlips, WorldTypes, worldVars
<1>5. ASSUME NEW c \in Characters, SweepPurges(c) PROVE WorldTypes'
  <2>1. \E ok \in BOOLEAN : Produce(c, "purge", ok)
    BY <1>5 DEF SweepPurges
  <2>2. "purge" \in Records
    BY DEF Records
  <2> QED BY <2>1, <2>2, <1>5, <1>p, <1>t DEF SweepPurges, WorldTypes
<1>6. ASSUME NEW c \in Characters, Apply(c) PROVE WorldTypes'
  <2>1. Head(clog[c]) \in Records /\ Tail(clog[c]) \in Seq(Records)
    BY <1>6, <1>t DEF Apply, WorldTypes
  <2>2. \A r \in Records, b \in {"none", "dormant", "present", "linkdead"} :
          Applied(r, b) \in {"none", "dormant", "present", "linkdead"}
    BY DEF Records, Applied
  <2> QED BY <2>1, <2>2, <1>6, <1>t DEF Apply, Becomes, WorldTypes
<1>7. ASSUME NEW c \in Characters, LinkdeadExpires(c) \/ ObserveLinkdead(c) PROVE WorldTypes'
  BY <1>7, <1>t DEF LinkdeadExpires, ObserveLinkdead, Becomes, WorldTypes
<1>8. ASSUME NEW rec \in late, Lands(rec) PROVE WorldTypes'
  <2>1. rec[1] \in Characters /\ rec[2] \in Records
    BY <1>t DEF WorldTypes
  <2>2. clog' \in [Characters -> Seq(Records)]
    <3>1. clog[rec[1]] \in Seq(Records)
      BY <2>1, <1>t DEF WorldTypes
    <3>2. Append(clog[rec[1]], rec[2]) \in Seq(Records)
      BY <2>1, <3>1
    <3> QED BY <2>1, <3>2, <1>8, <1>t DEF Lands, WorldTypes
  <2>3. muddied' \in BOOLEAN /\ late' \subseteq late /\ UNCHANGED <<deleting, status, body, ends>>
    BY <1>8, <1>m DEF Lands
  <2> QED BY <2>2, <2>3, <1>t DEF WorldTypes
<1>9. CASE Crash
  <2>1. "mark" \in Records
    BY DEF Records
  <2>2. clog' \in [Characters -> Seq(Records)]
    BY <1>9, <1>t, <2>1 DEF Crash, WorldTypes
  <2> QED BY <1>9, <1>t, <2>2 DEF Crash, WorldTypes
<1>10. CASE UNCHANGED rosterVars
  BY <1>10, <1>t DEF rosterVars, WorldTypes, worldVars
<1> QED BY <1>1, <1>2, <1>3, <1>4, <1>5, <1>6, <1>7, <1>8, <1>9, <1>10 DEF RosterNext

(* While nobody muddies the log, whoever runs holds the flag. *)
LEMMA KeptIsClaimed == FlagInv /\ KeptShape => ClaimKept
BY DEF KeptShape, ClaimKept, Unbinding, Running

(* No record that nobody answers for is taken back. *)
LEMMA StaysMuddied ==
  ASSUME WorldTypes, [RosterNext]_rosterVars, ~muddied'
  PROVE  ~muddied
<1>m. muddied \in BOOLEAN
  BY DEF WorldTypes
<1>1. ASSUME NEW s \in Sessions,
             \/ OpenSession(s) \/ ConnClosed(s) \/ CloseSession(s) \/ ReleaseSession(s)
             \/ \E k \in Calls, c \in Characters : SelectCharacter(k, s, c)
      PROVE  ~muddied
  BY <1>1 DEF OpenSession, ConnClosed, CloseSession, ReleaseSession, SelectCharacter, worldVars
<1>2. ASSUME NEW k \in Calls,
             \/ TeardownEnds(k) \/ SelectRefused(k) \/ SelectLocked(k)
             \/ ReleaseOrphanedSwitch(k) \/ BindProduces(k)
      PROVE  ~muddied
  BY <1>2 DEF TeardownEnds, SelectRefused, SelectLocked, ReleaseOrphanedSwitch, BindProduces, worldVars
<1>3. ASSUME NEW k \in Calls, TeardownProduces(k) \/ SwitchUnbinds(k) PROVE ~muddied
  BY <1>3, <1>m DEF TeardownProduces, SwitchUnbinds
<1>4. ASSUME NEW c \in Characters,
             \/ DeleteClaims(c) \/ DeleteFlips(c) \/ SweepPurges(c) \/ Apply(c)
             \/ LinkdeadExpires(c) \/ ObserveLinkdead(c)
      PROVE  ~muddied
  BY <1>4 DEF DeleteClaims, DeleteFlips, SweepPurges, Apply, LinkdeadExpires, ObserveLinkdead, worldVars
<1>5. ASSUME NEW rec \in late, Lands(rec) PROVE ~muddied
  BY <1>5 DEF Lands
<1>6. CASE Crash
  BY <1>6 DEF Crash
<1>7. CASE UNCHANGED rosterVars
  BY <1>7 DEF rosterVars, worldVars
<1> QED BY <1>1, <1>2, <1>3, <1>4, <1>5, <1>6, <1>7 DEF RosterNext

(* A step that moves no flag and no call. *)
LEMMA KeptSame ==
  ASSUME KeptShape, UNCHANGED <<live, call, byAccount>>
  PROVE  KeptShape'
BY DEF KeptShape, Running

(* A step that keeps who holds what, and lets nobody run who did not. *)
LEMMA KeptFewer ==
  ASSUME FlagInv, KeptShape,
         \A j \in Calls : /\ Running(j)' => call'[j] = call[j] /\ byAccount' = byAccount
                          /\ Running(j)' => live'[j].tear \in {"none", "produce"}
                          /\ Running(j)' => live'[j].c = live[j].c
                          /\ call[j].pc = "switch" => live'[call[j].sw].c = live[call[j].sw].c
  PROVE  KeptShape'
BY DEF KeptShape, Running

(* Whoever runs holds the flag through every step that does not muddy the log. *)
LEMMA KeptStep ==
  ASSUME FlagInv, WorldTypes, KeptShape, RosterNext, ~muddied'
  PROVE  KeptShape'
<1>n. FlagNumbered
  BY FlagNumbers
<1>t. live \in [Calls -> LiveStates] /\ call \in [Calls -> CallStates]
  BY DEF FlagInv, FlagTypes
<1>w. \A j \in Calls : call[j].pc = "switch" => Running(j) /\ call[j].sw \in Calls /\ call[call[j].sw].pc = "done"
  BY DEF FlagInv, SwitchShape, Unbinding, Running
<1>r. \A j \in Calls : Running(j) =>
        /\ byAccount = j /\ j # 0 /\ ~live[j].confirmed /\ ~live[j].linkdead
        /\ live[j].tear \in {"none", "produce"} /\ call[j].pc # "orphan"
  BY <1>n DEF KeptShape, FlagInv, CallShape, FlagNumbered
<1>1. ASSUME NEW s \in Sessions, OpenSession(s) \/ ConnClosed(s) \/ CloseSession(s) PROVE KeptShape'
  <2>1. UNCHANGED <<live, call, byAccount>>
    BY <1>1 DEF OpenSession, ConnClosed, CloseSession, flagVars
  <2> QED BY <2>1, KeptSame
<1>2. ASSUME NEW s \in Sessions, ReleaseSession(s) PROVE KeptShape'
  <2>1. PICK l : l = bySession[s]
    OBVIOUS
  <2>2. UNCHANGED <<call, byAccount>>
    BY <1>2 DEF ReleaseSession
  <2>3. \A j \in Calls : live'[j].c = live[j].c /\ live'[j].tear \in {live[j].tear, "produce"}
    <3>1. CASE l # 0 /\ ~Releasing(l)
      <4>1. live' = [live EXCEPT ![l].tear = "produce", ![l].end = sessEnd[s]] /\ l \in Calls
        BY <1>2, <2>1, <3>1, <1>n DEF ReleaseSession, FlagNumbered
      <4>2. live[l] \in LiveStates
        BY <4>1, <1>t
      <4> QED BY <4>1, <4>2, <1>t DEF LiveStates
    <3>2. CASE ~(l # 0 /\ ~Releasing(l))
      <4>1. live' = live
        BY <1>2, <2>1, <3>2 DEF ReleaseSession
      <4> QED BY <4>1
    <3> QED BY <3>1, <3>2
  <2>4. \A j \in Calls : Running(j)' => Running(j)
    BY <2>2 DEF Running
  <2> QED BY <2>2, <2>3, <2>4, <1>r, <1>w, KeptFewer
<1>3. ASSUME NEW s \in Sessions, NEW k \in Calls, NEW c \in Characters, SelectCharacter(k, s, c) PROVE KeptShape'
  <2>1. /\ call[k].pc = "idle" /\ byAccount' = byAccount
        /\ \A j \in Calls \ {k} : live'[j] = live[j] /\ call'[j] = call[j]
        /\ call'[k].pc = "select"
    BY <1>3, <1>t DEF SelectCharacter, CallStates
  <2>2. ~Running(k)' /\ \A j \in Calls : Running(j)' => Running(j) /\ j # k
    BY <2>1 DEF Running
  <2>3. \A j \in Calls : call[j].pc = "switch" => call[j].sw # k
    BY <2>1, <1>w
  <2> QED BY <2>1, <2>2, <2>3, <1>r, <1>w, KeptFewer
<1>4. ASSUME NEW k \in Calls, TeardownProduces(k) PROVE KeptShape'
  <2>1. call[k].pc = "done" /\ UNCHANGED <<call, byAccount>>
    BY <1>4 DEF TeardownProduces
  <2>2. PICK t : live' = [live EXCEPT ![k].tear = t]
    BY <1>4 DEF TeardownProduces
  <2>3. /\ \A j \in Calls \ {k} : live'[j] = live[j]
        /\ live'[k].c = live[k].c
    BY <2>2, <1>t DEF LiveStates
  <2>4. \A j \in Calls : Running(j)' => Running(j) /\ j # k
    BY <2>1 DEF Running
  <2> QED BY <2>1, <2>3, <2>4, <1>r, <1>w, KeptFewer
<1>5. ASSUME NEW k \in Calls, TeardownEnds(k) PROVE KeptShape'
  <2>1. live[k].tear \in {"logged", "failed"} /\ UNCHANGED call
    BY <1>5 DEF TeardownEnds
  <2>2. PICK h : live' = [live EXCEPT ![k].tear = "released", ![k].linkdead = h]
    BY <1>5 DEF TeardownEnds
  <2>3. /\ \A j \in Calls \ {k} : live'[j] = live[j]
        /\ live'[k].c = live[k].c
    BY <2>2, <1>t DEF LiveStates
  <2>4. ~Running(k) /\ (byAccount = k \/ byAccount' = byAccount)
    BY <2>1, <1>5, <1>r DEF TeardownEnds, Dropped
  <2>5. \A j \in Calls : Running(j)' => Running(j) /\ j # k /\ byAccount' = byAccount
    BY <2>1, <2>4, <1>r DEF Running
  <2> QED BY <2>1, <2>3, <2>5, <1>r, <1>w, KeptFewer
<1>6. ASSUME NEW k \in Calls, call[k].pc = "select", Fails(k), byAccount' \in {0, byAccount}, live' = live,
             byAccount' = byAccount \/ live[byAccount].linkdead
      PROVE  KeptShape'
  <2>1. call'[k].pc = "done" /\ \A j \in Calls \ {k} : call'[j] = call[j]
    BY <1>6, <1>t DEF Fails, CallStates
  <2>2. \A j \in Calls : Running(j)' => Running(j) /\ j # k /\ byAccount' = byAccount
    BY <2>1, <1>6, <1>r DEF Running
  <2>3. k # 0
    BY <1>n DEF FlagNumbered
  <2> QED BY <2>1, <2>2, <1>6, <1>r, <1>w, KeptFewer
<1>7. ASSUME NEW k \in Calls, SelectLocked(k), ~Refused(k) PROVE KeptShape'
  <2>1. /\ call[k].pc = "select" /\ byAccount' = k
        /\ byAccount = 0 \/ Reconnects(k) \/ Switches(k)
    BY <1>7 DEF SelectLocked
  <2>2. \A j \in Calls : ~Running(j)
    BY <2>1, <1>r DEF Reconnects, Switches
  <2>3. PICK old : /\ old = IF Switches(k) THEN byAccount ELSE 0
                   /\ call' = [call EXCEPT ![k] = [pc |-> IF old # 0 THEN "switch" ELSE "bind", sw |-> old]]
    BY <1>7 DEF SelectLocked
  <2>4. PICK hold : live' = [j \in Calls |->
             IF j = k THEN [live[k] EXCEPT !.prev = hold]
             ELSE IF j = old THEN [live[j] EXCEPT !.tear = "switched"] ELSE live[j]]
    BY <1>7, <2>3 DEF SelectLocked
  <2>5. /\ call'[k].pc = (IF old # 0 THEN "switch" ELSE "bind") /\ call'[k].sw = old
        /\ \A j \in Calls \ {k} : call'[j] = call[j]
    BY <2>3, <1>t
  <2>6. /\ \A j \in Calls : live'[j].c = live[j].c
        /\ live'[k].tear = live[k].tear
    BY <2>4, <1>t DEF LiveStates
  <2>7. live[k].tear = "none"
    BY <2>1 DEF FlagInv, CallShape
  <2>8. old # 0 => old \in Calls /\ live[old].c # live[k].c
    BY <2>3, <1>n DEF Switches, FlagNumbered
  <2>9. \A j \in Calls : Running(j)' => j = k
    BY <2>2, <2>5 DEF Running
  <2>10. call'[k].pc \in {"switch", "bind"} /\ (call'[k].pc = "switch" => old # 0)
    BY <2>5
  <2> QED BY <2>1, <2>5, <2>6, <2>7, <2>8, <2>9, <2>10 DEF KeptShape, Running
<1>8. ASSUME NEW k \in Calls, SwitchUnbinds(k) PROVE KeptShape'
  <2>1. call[k].pc = "switch" /\ Running(k) /\ byAccount = k /\ live[k].c # live[call[k].sw].c
    BY <1>8, <1>r DEF SwitchUnbinds, Running, KeptShape
  <2>2. \/ call' = [call EXCEPT ![k].pc = "bind"] /\ UNCHANGED <<live, byAccount>>
        \/ Fails(k)
    BY <1>8 DEF SwitchUnbinds
  <2>3. CASE call' = [call EXCEPT ![k].pc = "bind"] /\ UNCHANGED <<live, byAccount>>
    <3>1. call'[k].pc = "bind" /\ \A j \in Calls \ {k} : call'[j] = call[j]
      BY <2>3, <1>t DEF CallStates
    <3>2. \A j \in Calls : Running(j)' => j = k
      BY <3>1, <2>1, <1>r DEF Running
    <3> QED BY <3>1, <3>2, <2>1, <2>3, <1>r DEF KeptShape
  <2>4. CASE Fails(k)
    <3>1. call'[k].pc = "done" /\ \A j \in Calls \ {k} : call'[j] = call[j]
      BY <2>4, <1>t DEF Fails, CallStates
    <3>2. \A j \in Calls : ~Running(j)'
      BY <3>1, <2>1, <1>r DEF Running
    <3> QED BY <3>2 DEF KeptShape
  <2> QED BY <2>2, <2>3, <2>4
<1>9. ASSUME NEW k \in Calls, ReleaseOrphanedSwitch(k) PROVE KeptShape'
  <2>1. call[k].pc = "orphan" /\ Running(k)
    BY <1>9 DEF ReleaseOrphanedSwitch, Running
  <2> QED BY <2>1, <1>r
<1>10. ASSUME NEW k \in Calls, BindProduces(k) PROVE KeptShape'
  <2>1. call[k].pc = "bind" /\ call' = [call EXCEPT ![k].pc = "done"] /\ Running(k)
    BY <1>10 DEF BindProduces, Running
  <2>2. call'[k].pc = "done" /\ \A j \in Calls \ {k} : call'[j] = call[j]
    BY <2>1, <1>t DEF CallStates
  <2>3. \A j \in Calls : ~Running(j)'
    BY <2>1, <2>2, <1>r DEF Running
  <2> QED BY <2>3 DEF KeptShape
<1>11. ASSUME NEW c \in Characters, DeleteClaims(c) \/ DeleteFlips(c) \/ SweepPurges(c) \/ Apply(c) \/ LinkdeadExpires(c)
       PROVE  KeptShape'
  <2>1. UNCHANGED <<live, call, byAccount>>
    BY <1>11 DEF DeleteClaims, DeleteFlips, SweepPurges, Apply, LinkdeadExpires, flagVars
  <2> QED BY <2>1, KeptSame
<1>12. ASSUME NEW c \in Characters, ObserveLinkdead(c) PROVE KeptShape'
  <2>1. UNCHANGED call /\ (byAccount' = byAccount \/ live[byAccount].linkdead)
    BY <1>12 DEF ObserveLinkdead
  <2>2. \A j \in Calls : live'[j].c = live[j].c /\ live'[j].tear = live[j].tear
    <3>1. CASE live' = live
      BY <3>1
    <3>2. CASE live' = [live EXCEPT ![live[byAccount].prev].ended = TRUE]
      <4>1. PICK p : p = live[byAccount].prev
        OBVIOUS
      <4>2. live' = [live EXCEPT ![p].ended = TRUE]
        BY <3>2, <4>1
      <4>3. \A j \in Calls : live[j] \in LiveStates
        BY <1>t
      <4> QED BY <4>2, <4>3, <1>t DEF LiveStates
    <3> QED BY <1>12, <3>1, <3>2 DEF ObserveLinkdead
  <2>3. \A j \in Calls : Running(j)' => Running(j) /\ byAccount' = byAccount
    BY <2>1, <1>r DEF Running
  <2> QED BY <2>1, <2>2, <2>3, <1>r, <1>w, KeptFewer
<1>13. ASSUME NEW rec \in late, Lands(rec) PROVE KeptShape'
  <2>1. UNCHANGED <<live, call, byAccount>>
    BY <1>13 DEF Lands, flagVars
  <2> QED BY <2>1, KeptSame
<1>14. ~Crash
  BY DEF Crash
<1>15. ASSUME NEW k \in Calls, SelectRefused(k) \/ (SelectLocked(k) /\ Refused(k)) PROVE KeptShape'
  <2>1. /\ call[k].pc = "select" /\ Fails(k) /\ byAccount' \in {0, byAccount} /\ live' = live
        /\ byAccount' = byAccount \/ live[byAccount].linkdead
    BY <1>15 DEF SelectRefused, SelectLocked, Reconnects
  <2> QED BY <2>1, <1>6
<1> QED BY <1>1, <1>2, <1>3, <1>4, <1>5, <1>7, <1>8, <1>9, <1>10, <1>11, <1>12, <1>13, <1>14, <1>15 DEF RosterNext

(* A record that is no Bind is the last word on the body. *)
LEMMA DownOnOther ==
  ASSUME NEW log \in Seq(Records), NEW r \in Records, r # "bind", NEW b
  PROVE  NotUp(Append(log, r), b)
<1>1. PICK new : new = Append(log, r)
  OBVIOUS
<1>2. Len(new) = Len(log) + 1 /\ new[Len(log) + 1] = r /\ Len(log) \in Nat
  BY <1>1
<1>3. Len(new) \in 0..Len(new) /\ Len(new) # 0 /\ new[Len(new)] # "bind"
  BY <1>2
<1>4. \A j \in 1..Len(new) : j > Len(new) => new[j] # "bind"
  BY <1>2
<1> QED BY <1>1, <1>3, <1>4 DEF NotUp

(* Applying the oldest record does not raise a body that stays down. *)
LEMMA DownApplied ==
  ASSUME NEW log \in Seq(Records), log # <<>>, NEW b, NotUp(log, b)
  PROVE  NotUp(Tail(log), Applied(Head(log), b))
<1>1. PICK i \in 0..Len(log) :
        /\ (i = 0 /\ b # "present") \/ (i # 0 /\ log[i] # "bind")
        /\ \A j \in 1..Len(log) : j > i => log[j] # "bind"
  BY DEF NotUp
<1>2. PICK new : new = Tail(log)
  OBVIOUS
<1>3. Len(log) # 0 /\ Len(new) = Len(log) - 1 /\ \A j \in 1..Len(new) : new[j] = log[j + 1]
  BY <1>2
<1>4. PICK h : h = Head(log)
  OBVIOUS
<1>5. h = log[1] /\ h \in Records
  BY <1>3, <1>4
<1>6. CASE i \in {0, 1}
  <2>1. h # "bind"
    BY <1>1, <1>3, <1>5, <1>6
  <2>2. Applied(h, b) # "present"
    BY <2>1, <1>5 DEF Applied, Records
  <2>3. 0 \in 0..Len(new) /\ \A j \in 1..Len(new) : j > 0 => new[j] # "bind"
    BY <1>1, <1>3, <1>6
  <2> QED BY <1>2, <1>4, <2>2, <2>3 DEF NotUp
<1>7. CASE i \notin {0, 1}
  <2>1. i - 1 \in 0..Len(new) /\ i - 1 # 0 /\ new[i - 1] # "bind"
    BY <1>1, <1>3, <1>7
  <2>2. \A j \in 1..Len(new) : j > i - 1 => new[j] # "bind"
    BY <1>1, <1>3
  <2> QED BY <1>2, <1>4, <2>1, <2>2 DEF NotUp
<1> QED BY <1>6, <1>7

(* A body that turns dormant stays down. *)
LEMMA DownDormant ==
  ASSUME NEW log, NEW b, NotUp(log, b)
  PROVE  NotUp(log, "dormant")
BY DEF NotUp

(* With no record left, a body that is down does not stand. *)
LEMMA DownEmpty ==
  ASSUME NEW b, NotUp(<<>>, b)
  PROVE  b # "present"
BY DEF NotUp

(* Failures are counted. *)
LEMMA FaultsCount ==
  ASSUME faults \in Nat, [RosterNext]_rosterVars
  PROVE  faults' \in Nat /\ faults <= faults'
<1>p. ASSUME NEW c, NEW r, NEW ok \in BOOLEAN, Produce(c, r, ok) PROVE faults' \in Nat /\ faults <= faults'
  BY <1>p DEF Produce
<1>1. ASSUME NEW s \in Sessions,
             \/ OpenSession(s) \/ ConnClosed(s) \/ CloseSession(s) \/ ReleaseSession(s)
             \/ \E k \in Calls, c \in Characters : SelectCharacter(k, s, c)
      PROVE  faults' = faults
  BY <1>1 DEF OpenSession, ConnClosed, CloseSession, ReleaseSession, SelectCharacter
<1>2. ASSUME NEW k \in Calls, TeardownEnds(k) \/ SelectRefused(k) \/ SelectLocked(k) PROVE faults' = faults
  BY <1>2 DEF TeardownEnds, SelectRefused, SelectLocked
<1>3. ASSUME NEW k \in Calls,
             TeardownProduces(k) \/ SwitchUnbinds(k) \/ ReleaseOrphanedSwitch(k) \/ BindProduces(k)
      PROVE  \E c, r : \E ok \in BOOLEAN : Produce(c, r, ok)
  <2>1. CASE TeardownProduces(k)
    BY <2>1 DEF TeardownProduces
  <2>2. CASE SwitchUnbinds(k)
    BY <2>2 DEF SwitchUnbinds
  <2>3. CASE ReleaseOrphanedSwitch(k)
    BY <2>3 DEF ReleaseOrphanedSwitch
  <2>4. CASE BindProduces(k)
    BY <2>4 DEF BindProduces
  <2> QED BY <1>3, <2>1, <2>2, <2>3, <2>4
<1>4. ASSUME NEW c \in Characters, SweepPurges(c) PROVE \E d, r : \E ok \in BOOLEAN : Produce(d, r, ok)
  BY <1>4 DEF SweepPurges
<1>5. ASSUME NEW c \in Characters,
             DeleteClaims(c) \/ DeleteFlips(c) \/ Apply(c) \/ LinkdeadExpires(c) \/ ObserveLinkdead(c)
      PROVE  faults' = faults
  BY <1>5 DEF DeleteClaims, DeleteFlips, Apply, LinkdeadExpires, ObserveLinkdead
<1>6. ASSUME NEW rec \in late, Lands(rec) PROVE faults' = faults
  BY <1>6 DEF Lands
<1>7. CASE Crash
  BY <1>7 DEF Crash
<1>8. CASE UNCHANGED rosterVars
  BY <1>8 DEF rosterVars
<1> QED BY <1>p, <1>1, <1>2, <1>3, <1>4, <1>5, <1>6, <1>7, <1>8 DEF RosterNext

(* What a step has to keep. *)
LEMMA BodyKept ==
  ASSUME \A c \in Characters : ~Played(c)' => Down(c)',
         byAccount' # 0 /\ (live'[byAccount'].tear = "logged" \/ live'[byAccount'].linkdead)
           => NotUp(clog'[live'[byAccount'].c], body'[live'[byAccount'].c]),
         \A k \in Calls : live'[k].tear # "failed"
  PROVE  BodyShape'
BY DEF BodyShape, Down

(* A step that leaves flags and calls alone and raises no body. *)
LEMMA BodyRaisesNone ==
  ASSUME FlagInv, BodyShape, UNCHANGED <<live, call, byAccount>>,
         \A c \in Characters : Down(c) => NotUp(clog'[c], body'[c])
  PROVE  BodyShape'
<1>1. byAccount # 0 => live[byAccount].c \in Characters
  BY DEF FlagInv, HeldShape
<1>2. \A c \in Characters : Played(c)' <=> Played(c)
  BY DEF Played
<1>3. \A c \in Characters : ~Played(c)' => Down(c)'
  BY <1>2 DEF BodyShape, Down
<1> QED BY <1>1, <1>3, BodyKept DEF BodyShape

(* A step of the flags under which no record is written. *)
LEMMA BodyFlags ==
  ASSUME FlagInv, BodyShape, UNCHANGED <<clog, body>>,
         \A c \in Characters : ~Played(c)' => ~Played(c) \/ Down(c),
         byAccount' # 0 /\ (live'[byAccount'].tear = "logged" \/ live'[byAccount'].linkdead)
           => Down(live'[byAccount'].c),
         \A k \in Calls : live'[k].tear # "failed"
  PROVE  BodyShape'
<1>1. \A c : Down(c)' <=> Down(c)
  BY DEF Down
<1>2. \A c \in Characters : ~Played(c)' => Down(c)'
  BY <1>1 DEF BodyShape
<1> QED BY <1>2, BodyKept DEF Down

(* Until a produce fails, a body nobody plays goes down. *)
LEMMA BodyStep ==
  ASSUME FlagInv, WorldTypes, KeptShape, BodyShape, RosterNext, ~muddied', ~muddied, faults = 0, faults' = 0
  PROVE  BodyShape'
<1>n. FlagNumbered
  BY FlagNumbers
<1>t. live \in [Calls -> LiveStates] /\ call \in [Calls -> CallStates]
  BY DEF FlagInv, FlagTypes
<1>l. clog \in [Characters -> Seq(Records)]
  BY DEF WorldTypes
<1>w. \A j \in Calls : call[j].pc = "switch" => Running(j) /\ call[j].sw \in Calls /\ call[call[j].sw].pc = "done"
  BY DEF FlagInv, SwitchShape, Unbinding, Running
<1>r. \A j \in Calls : Running(j) =>
        /\ byAccount = j /\ j # 0 /\ ~live[j].confirmed /\ ~live[j].linkdead
        /\ live[j].tear \in {"none", "produce"} /\ call[j].pc # "orphan"
  BY <1>n DEF KeptShape, FlagInv, CallShape, FlagNumbered
<1>h. byAccount # 0 => byAccount \in Calls /\ live[byAccount].c \in Characters
  BY <1>n DEF FlagInv, HeldShape, FlagNumbered
<1>p. \A c, r : \A ok \in BOOLEAN : Produce(c, r, ok) => ok
  BY DEF Produce
<1>f. \A k \in Calls : live[k].tear # "failed"
  BY DEF BodyShape
<1>1. ASSUME NEW s \in Sessions, OpenSession(s) \/ ConnClosed(s) \/ CloseSession(s) PROVE BodyShape'
  <2>1. UNCHANGED <<live, call, byAccount, clog, body>>
    BY <1>1 DEF OpenSession, ConnClosed, CloseSession, flagVars, worldVars
  <2> QED BY <2>1, BodyRaisesNone DEF Down
<1>2. ASSUME NEW s \in Sessions, ReleaseSession(s) PROVE BodyShape'
  <2>1. PICK l : l = bySession[s]
    OBVIOUS
  <2>2. UNCHANGED <<call, byAccount, clog, body>>
    BY <1>2 DEF ReleaseSession, worldVars
  <2>3. \A j \in Calls : /\ live'[j].c = live[j].c /\ live'[j].tear \in {live[j].tear, "produce"}
                         /\ live'[j].linkdead = live[j].linkdead
    <3>1. CASE l # 0 /\ ~Releasing(l)
      <4>1. live' = [live EXCEPT ![l].tear = "produce", ![l].end = sessEnd[s]] /\ l \in Calls
        BY <1>2, <2>1, <3>1, <1>n DEF ReleaseSession, FlagNumbered
      <4>2. live[l] \in LiveStates
        BY <4>1, <1>t
      <4> QED BY <4>1, <4>2, <1>t DEF LiveStates
    <3>2. CASE ~(l # 0 /\ ~Releasing(l))
      <4>1. live' = live
        BY <1>2, <2>1, <3>2 DEF ReleaseSession
      <4> QED BY <4>1
    <3> QED BY <3>1, <3>2
  <2>4. \A c \in Characters : Played(c)' <=> Played(c)
    BY <2>2, <2>3, <1>w, <1>h DEF Played
  <2>5. byAccount' # 0 /\ (live'[byAccount'].tear = "logged" \/ live'[byAccount'].linkdead)
           => Down(live'[byAccount'].c)
    BY <2>2, <2>3, <1>h DEF BodyShape
  <2> QED BY <2>2, <2>3, <2>4, <2>5, <1>f, BodyFlags
<1>3. ASSUME NEW s \in Sessions, NEW k \in Calls, NEW c \in Characters, SelectCharacter(k, s, c) PROVE BodyShape'
  <2>1. /\ call[k].pc = "idle" /\ byAccount' = byAccount /\ UNCHANGED <<clog, body>>
        /\ \A j \in Calls \ {k} : live'[j] = live[j] /\ call'[j] = call[j]
        /\ call'[k].pc = "select" /\ live'[k].tear = live[k].tear
    BY <1>3, <1>t DEF SelectCharacter, CallStates, LiveStates, worldVars
  <2>2. byAccount # k /\ \A j \in Calls : call[j].pc = "switch" => j # k /\ call[j].sw # k
    BY <2>1, <1>w, <1>n DEF FlagInv, HeldShape, FlagNumbered
  <2>3. \A d \in Characters : Played(d) => Played(d)'
    BY <2>1, <2>2, <1>w, <1>h DEF Played
  <2>4. byAccount' # 0 /\ (live'[byAccount'].tear = "logged" \/ live'[byAccount'].linkdead)
           => Down(live'[byAccount'].c)
    BY <2>1, <2>2, <1>h DEF BodyShape
  <2>5. \A j \in Calls : live'[j].tear # "failed"
    BY <2>1, <1>f
  <2> QED BY <2>1, <2>3, <2>4, <2>5, BodyFlags
<1>4. ASSUME NEW k \in Calls, TeardownProduces(k) PROVE BodyShape'
  <2>1. /\ call[k].pc = "done" /\ byAccount = k /\ k # 0 /\ live[k].c \in Characters
        /\ UNCHANGED <<call, byAccount, body>>
    BY <1>4, <1>n DEF TeardownProduces, FlagInv, CallShape, FlagNumbered
  <2>2. /\ live' = [live EXCEPT ![k].tear = "logged"]
        /\ Produce(live[k].c, IF live[k].end = "linkdead" THEN "mark" ELSE "unbind", TRUE)
    BY <1>4, <1>p DEF TeardownProduces
  <2>3. /\ \A j \in Calls \ {k} : live'[j] = live[j]
        /\ live'[k].c = live[k].c /\ live'[k].tear = "logged"
    BY <2>2, <1>t DEF LiveStates
  <2>4. PICK r \in Records : r # "bind" /\ Produce(live[k].c, r, TRUE)
    BY <2>2 DEF Records
  <2>5. /\ \A d \in Characters : d # live[k].c => clog'[d] = clog[d]
        /\ clog'[live[k].c] = Append(clog[live[k].c], r)
    BY <2>1, <2>4, <1>l DEF Produce
  <2>6. NotUp(clog'[live[k].c], body'[live[k].c])
    <3>1. clog[live[k].c] \in Seq(Records)
      BY <2>1, <1>l
    <3> QED BY <3>1, <2>4, <2>5, DownOnOther
  <2>7. \A d \in Characters : Played(d)' <=> Played(d)
    BY <2>1, <2>3, <1>w DEF Played
  <2>8. \A d \in Characters : ~Played(d)' => Down(d)'
    <3> SUFFICES ASSUME NEW d \in Characters, ~Played(d) PROVE Down(d)'
      BY <2>7
    <3>1. d # live[k].c /\ Down(d)
      BY <2>1 DEF Played, BodyShape
    <3> QED BY <3>1, <2>1, <2>5 DEF Down
  <2>9. live'[byAccount'].c = live[k].c
    BY <2>1, <2>3
  <2>10. \A j \in Calls : live'[j].tear # "failed"
    BY <2>3, <1>f
  <2> QED BY <2>6, <2>8, <2>9, <2>10, BodyKept
<1>5. ASSUME NEW k \in Calls, TeardownEnds(k) PROVE BodyShape'
  <2>1. live[k].tear = "logged" /\ UNCHANGED <<call, clog, body>>
    BY <1>5, <1>f DEF TeardownEnds, worldVars
  <2>2. PICK h \in BOOLEAN : /\ live' = [live EXCEPT ![k].tear = "released", ![k].linkdead = h]
                             /\ h => byAccount = k
                             /\ byAccount' = IF h THEN byAccount ELSE Dropped(k)
    BY <1>5 DEF TeardownEnds
  <2>3. /\ \A j \in Calls \ {k} : live'[j] = live[j]
        /\ live'[k].c = live[k].c /\ live'[k].tear = "released"
    BY <2>2, <1>t DEF LiveStates
  <2>4. \A j \in Calls : live'[j].c = live[j].c
    BY <2>3
  <2>5. byAccount' = byAccount \/ (byAccount' = 0 /\ byAccount = k)
    BY <2>2 DEF Dropped
  <2>6. byAccount = k /\ k # 0 => Down(live[k].c)
    BY <2>1 DEF BodyShape
  <2>7. \A d \in Characters : ~Played(d)' => ~Played(d) \/ Down(d)
    BY <2>1, <2>4, <2>5, <2>6, <1>w, <1>h DEF Played
  <2>8. byAccount' # 0 /\ (live'[byAccount'].tear = "logged" \/ live'[byAccount'].linkdead)
           => Down(live'[byAccount'].c)
    BY <2>3, <2>4, <2>5, <2>6, <1>h DEF BodyShape
  <2>9. \A j \in Calls : live'[j].tear # "failed"
    BY <2>3, <1>f
  <2> QED BY <2>1, <2>7, <2>8, <2>9, BodyFlags
<1>6. ASSUME NEW k \in Calls, call[k].pc = "select", Fails(k), live' = live, UNCHANGED <<clog, body>>,
             byAccount' = byAccount \/ (byAccount' = 0 /\ live[byAccount].linkdead)
      PROVE  BodyShape'
  <2>1. \A j \in Calls : call[j].pc = "switch" => call'[j] = call[j]
    BY <1>6, <1>t DEF Fails
  <2>2. byAccount # 0 /\ live[byAccount].linkdead => Down(live[byAccount].c)
    BY DEF BodyShape
  <2>3. \A d \in Characters : ~Played(d)' => ~Played(d) \/ Down(d)
    BY <2>1, <2>2, <1>6 DEF Played
  <2>4. byAccount' # 0 /\ (live'[byAccount'].tear = "logged" \/ live'[byAccount'].linkdead)
           => Down(live'[byAccount'].c)
    BY <1>6 DEF BodyShape
  <2> QED BY <2>3, <2>4, <1>6, <1>f, BodyFlags
<1>7. ASSUME NEW k \in Calls, SelectLocked(k), ~Refused(k) PROVE BodyShape'
  <2>1. /\ call[k].pc = "select" /\ byAccount' = k /\ UNCHANGED <<clog, body>> /\ k # 0
        /\ byAccount = 0 \/ Reconnects(k) \/ Switches(k)
    BY <1>7, <1>n DEF SelectLocked, worldVars, FlagNumbered
  <2>2. \A j \in Calls : ~Running(j)
    BY <2>1, <1>r DEF Reconnects, Switches
  <2>3. PICK old : /\ old = IF Switches(k) THEN byAccount ELSE 0
                   /\ call' = [call EXCEPT ![k] = [pc |-> IF old # 0 THEN "switch" ELSE "bind", sw |-> old]]
    BY <1>7 DEF SelectLocked
  <2>4. PICK hold : live' = [j \in Calls |->
             IF j = k THEN [live[k] EXCEPT !.prev = hold]
             ELSE IF j = old THEN [live[j] EXCEPT !.tear = "switched"] ELSE live[j]]
    BY <1>7, <2>3 DEF SelectLocked
  <2>5. call'[k] = [pc |-> IF old # 0 THEN "switch" ELSE "bind", sw |-> old]
    BY <2>3, <1>t
  <2>6. /\ \A j \in Calls : live'[j].c = live[j].c /\ live'[j].linkdead = live[j].linkdead
        /\ \A j \in Calls : live'[j].tear \in {live[j].tear, "switched"}
        /\ live'[k].tear = live[k].tear
    BY <2>4, <1>t DEF LiveStates
  <2>7. live[k].tear = "none" /\ ~live[k].linkdead
    BY <2>1 DEF FlagInv, CallShape
  <2>8. \A d \in Characters : Played(d) => Played(d)'
    <3> SUFFICES ASSUME NEW d \in Characters, Played(d) PROVE Played(d)'
      OBVIOUS
    <3>1. byAccount # 0 /\ live[byAccount].c = d
      BY <2>2, <1>w DEF Played
    <3>2. CASE Reconnects(k)
      BY <2>1, <2>6, <3>1, <3>2 DEF Played, Reconnects
    <3>3. CASE Switches(k)
      <4>1. old = byAccount /\ call'[k].pc = "switch" /\ call'[k].sw = byAccount
        BY <2>3, <2>5, <3>1, <3>3
      <4> QED BY <4>1, <2>6, <3>1, <1>h DEF Played
    <3> QED BY <2>1, <3>1, <3>2, <3>3
  <2>9. ~(live'[byAccount'].tear = "logged" \/ live'[byAccount'].linkdead)
    BY <2>1, <2>6, <2>7
  <2>10. \A j \in Calls : live'[j].tear # "failed"
    BY <2>6, <1>f
  <2> QED BY <2>1, <2>8, <2>9, <2>10, BodyFlags
<1>8. ASSUME NEW k \in Calls, SwitchUnbinds(k) PROVE BodyShape'
  <2>1. /\ call[k].pc = "switch" /\ Running(k) /\ byAccount = k /\ k # 0 /\ live[k].c \in Characters
        /\ live[k].tear \in {"none", "produce"} /\ ~live[k].linkdead
    BY <1>8, <1>r, <1>h DEF SwitchUnbinds, Running
  <2>2. PICK old \in Calls : old = call[k].sw /\ live[old].c \in Characters
    BY <2>1 DEF FlagInv, SwitchShape, CallShape, Unbinding
  <2>3. /\ Produce(live[old].c, "unbind", TRUE) /\ UNCHANGED <<live, byAccount, body>>
        /\ call' = [call EXCEPT ![k].pc = "bind"]
    <3>1. PICK ok \in BOOLEAN :
            /\ Produce(live[old].c, "unbind", ok)
            /\ ok => UNCHANGED <<live, byAccount>> /\ call' = [call EXCEPT ![k].pc = "bind"]
      BY <1>8, <2>2 DEF SwitchUnbinds
    <3>2. ok = TRUE
      BY <3>1, <1>p
    <3>3. body' = body
      BY <1>8 DEF SwitchUnbinds
    <3> QED BY <3>1, <3>2, <3>3
  <2>4. /\ \A d \in Characters : d # live[old].c => clog'[d] = clog[d]
        /\ clog'[live[old].c] = Append(clog[live[old].c], "unbind")
    BY <2>2, <2>3, <1>l DEF Produce
  <2>5. NotUp(clog'[live[old].c], body'[live[old].c])
    <3>1. clog[live[old].c] \in Seq(Records) /\ "unbind" \in Records
      BY <2>2, <1>l DEF Records
    <3> QED BY <3>1, <2>4, DownOnOther
  <2>6. \A d \in Characters : ~Played(d)' => Down(d)'
    <3> SUFFICES ASSUME NEW d \in Characters, ~Played(d)' PROVE Down(d)'
      OBVIOUS
    <3>1. CASE d = live[old].c
      BY <2>5, <3>1 DEF Down
    <3>2. CASE d # live[old].c
      <4>1. ~Played(d)
        <5>1. \A j \in Calls : call[j].pc = "switch" => j = k
          BY <2>1, <1>r, <1>w
        <5> QED BY <5>1, <2>2, <2>3, <3>2 DEF Played
      <4> QED BY <4>1, <2>3, <2>4, <3>2 DEF BodyShape, Down
    <3> QED BY <3>1, <3>2
  <2>7. ~(live'[byAccount'].tear = "logged" \/ live'[byAccount'].linkdead)
    BY <2>1, <2>3
  <2>8. \A j \in Calls : live'[j].tear # "failed"
    BY <2>3, <1>f
  <2> QED BY <2>6, <2>7, <2>8, BodyKept
<1>9. ASSUME NEW k \in Calls, ReleaseOrphanedSwitch(k) PROVE BodyShape'
  <2>1. call[k].pc = "orphan" /\ Running(k)
    BY <1>9 DEF ReleaseOrphanedSwitch, Running
  <2> QED BY <2>1, <1>r
<1>10. ASSUME NEW k \in Calls, BindProduces(k) PROVE BodyShape'
  <2>1. /\ call[k].pc = "bind" /\ call' = [call EXCEPT ![k].pc = "done"] /\ Running(k)
        /\ UNCHANGED body
    BY <1>10 DEF BindProduces, Running
  <2>2. /\ byAccount = k /\ k # 0 /\ live[k].c \in Characters
        /\ live[k].tear \in {"none", "produce"} /\ ~live[k].linkdead
    BY <2>1, <1>r, <1>h
  <2>3. /\ Produce(live[k].c, "bind", TRUE) /\ byAccount' = byAccount
        /\ live' = [live EXCEPT ![k].confirmed = TRUE, ![k].prev = 0]
    BY <1>10, <1>p DEF BindProduces
  <2>4. \A j \in Calls : /\ live'[j].c = live[j].c /\ live'[j].tear = live[j].tear
                         /\ live'[j].linkdead = live[j].linkdead
    BY <2>3, <1>t DEF LiveStates
  <2>5. \A d \in Characters : d # live[k].c => clog'[d] = clog[d]
    BY <2>2, <2>3, <1>l DEF Produce
  <2>6. \A j \in Calls : call[j].pc # "switch"
    BY <2>1, <2>2, <1>r, <1>w
  <2>7. \A d \in Characters : ~Played(d)' => Down(d)'
    <3> SUFFICES ASSUME NEW d \in Characters, ~Played(d)' PROVE Down(d)'
      OBVIOUS
    <3>1. d # live[k].c
      BY <2>2, <2>3, <2>4 DEF Played
    <3>2. ~Played(d)
      BY <3>1, <2>2, <2>6 DEF Played
    <3> QED BY <3>1, <3>2, <2>1, <2>5 DEF BodyShape, Down
  <2>8. ~(live'[byAccount'].tear = "logged" \/ live'[byAccount'].linkdead)
    BY <2>2, <2>3, <2>4
  <2>9. \A j \in Calls : live'[j].tear # "failed"
    BY <2>4, <1>f
  <2> QED BY <2>7, <2>8, <2>9, BodyKept
<1>11. ASSUME NEW c \in Characters, DeleteClaims(c) \/ DeleteFlips(c) PROVE BodyShape'
  <2>1. UNCHANGED <<live, call, byAccount, clog, body>>
    BY <1>11 DEF DeleteClaims, DeleteFlips, flagVars, worldVars
  <2> QED BY <2>1, BodyRaisesNone DEF Down
<1>12. ASSUME NEW c \in Characters, SweepPurges(c) PROVE BodyShape'
  <2>1. UNCHANGED <<live, call, byAccount, body>> /\ Produce(c, "purge", TRUE)
    BY <1>12, <1>p DEF SweepPurges, flagVars
  <2>2. clog'[c] = Append(clog[c], "purge") /\ \A d \in Characters : d # c => clog'[d] = clog[d]
    BY <2>1, <1>l DEF Produce
  <2>3. NotUp(clog'[c], body'[c])
    <3>1. clog[c] \in Seq(Records) /\ "purge" \in Records
      BY <1>l DEF Records
    <3> QED BY <3>1, <2>2, DownOnOther
  <2>4. \A d \in Characters : Down(d) => NotUp(clog'[d], body'[d])
    BY <2>1, <2>2, <2>3 DEF Down
  <2> QED BY <2>1, <2>4, BodyRaisesNone
<1>13. ASSUME NEW c \in Characters, Apply(c) \/ LinkdeadExpires(c) PROVE BodyShape'
  <2>1. UNCHANGED <<live, call, byAccount>>
    BY <1>13 DEF Apply, LinkdeadExpires, flagVars
  <2>b. body \in [Characters -> {"none", "dormant", "present", "linkdead"}]
    BY DEF WorldTypes
  <2>2. \A d \in Characters : Down(d) => NotUp(clog'[d], body'[d])
    <3>1. CASE Apply(c)
      <4>1. clog[c] # <<>> /\ clog'[c] = Tail(clog[c]) /\ body'[c] = Applied(Head(clog[c]), body[c])
            /\ \A d \in Characters : d # c => clog'[d] = clog[d] /\ body'[d] = body[d]
        BY <3>1, <2>b, <1>l DEF Apply, Becomes
      <4>2. clog[c] \in Seq(Records)
        BY <1>l
      <4> QED BY <4>1, <4>2, DownApplied DEF Down
    <3>2. CASE LinkdeadExpires(c)
      <4>1. clog' = clog /\ body'[c] = "dormant" /\ \A d \in Characters : d # c => body'[d] = body[d]
        BY <3>2, <2>b DEF LinkdeadExpires, Becomes
      <4> QED BY <4>1, DownDormant DEF Down
    <3> QED BY <1>13, <3>1, <3>2
  <2> QED BY <2>1, <2>2, BodyRaisesNone
<1>14. ASSUME NEW c \in Characters, ObserveLinkdead(c) PROVE BodyShape'
  <2>1. UNCHANGED <<call, clog, body>>
        /\ (byAccount' = byAccount \/ (byAccount' = 0 /\ live[byAccount].linkdead))
    BY <1>14 DEF ObserveLinkdead
  <2>2. \A j \in Calls : /\ live'[j].c = live[j].c /\ live'[j].tear = live[j].tear
                         /\ live'[j].linkdead = live[j].linkdead
    <3>1. CASE live' = live
      BY <3>1
    <3>2. CASE live' = [live EXCEPT ![live[byAccount].prev].ended = TRUE]
      <4>1. PICK p : p = live[byAccount].prev
        OBVIOUS
      <4>2. live' = [live EXCEPT ![p].ended = TRUE]
        BY <3>2, <4>1
      <4>3. \A j \in Calls : live[j] \in LiveStates
        BY <1>t
      <4> QED BY <4>2, <4>3, <1>t DEF LiveStates
    <3> QED BY <1>14, <3>1, <3>2 DEF ObserveLinkdead
  <2>3. byAccount # 0 /\ live[byAccount].linkdead => Down(live[byAccount].c)
    BY DEF BodyShape
  <2>4. \A d \in Characters : ~Played(d)' => ~Played(d) \/ Down(d)
    BY <2>1, <2>2, <2>3, <1>h, <1>w DEF Played
  <2>5. byAccount' # 0 /\ (live'[byAccount'].tear = "logged" \/ live'[byAccount'].linkdead)
           => Down(live'[byAccount'].c)
    BY <2>1, <2>2, <1>h DEF BodyShape
  <2>6. \A j \in Calls : live'[j].tear # "failed"
    BY <2>2, <1>f
  <2> QED BY <2>1, <2>4, <2>5, <2>6, BodyFlags
<1>15. ASSUME NEW rec \in late, Lands(rec) PROVE BodyShape'
  <2>1. UNCHANGED <<live, call, byAccount, clog, body>>
    BY <1>15 DEF Lands, flagVars
  <2> QED BY <2>1, BodyRaisesNone DEF Down
<1>16. ~Crash
  BY DEF Crash
<1>17. ASSUME NEW k \in Calls, SelectRefused(k) \/ (SelectLocked(k) /\ Refused(k)) PROVE BodyShape'
  <2>1. /\ call[k].pc = "select" /\ Fails(k) /\ live' = live /\ UNCHANGED <<clog, body>>
        /\ byAccount' = byAccount \/ (byAccount' = 0 /\ live[byAccount].linkdead)
    BY <1>17 DEF SelectRefused, SelectLocked, Reconnects, worldVars
  <2> QED BY <2>1, <1>6
<1> QED BY <1>1, <1>2, <1>3, <1>4, <1>5, <1>7, <1>8, <1>9, <1>10, <1>11, <1>12, <1>13, <1>14, <1>15, <1>16,
           <1>17 DEF RosterNext

(* No flag, no delete, no body. *)
LEMMA RosterInitInv == RosterInit => RosterInv
<1> SUFFICES ASSUME RosterInit PROVE RosterInv
  OBVIOUS
<1>1. WorldTypes
  <2>1. <<>> \in Seq(Records)
    OBVIOUS
  <2>2. muddied \in BOOLEAN
    BY DEF RosterInit
  <2> QED BY <2>1, <2>2 DEF RosterInit, WorldTypes
<1>2. ClaimShape /\ WorldShape
  BY DEF RosterInit, ClaimShape, WorldShape, HeldWorld, CallWorld, Unbinding
<1>3. KeptShape /\ faults \in Nat
  BY DEF RosterInit, KeptShape, Running
<1>4. BodyShape
  <2>1. \A c \in Characters : clog[c] = <<>> /\ body[c] = "none"
    BY DEF RosterInit
  <2>2. ASSUME NEW c \in Characters PROVE Down(c)
    <3>1. PICK b : b = body[c] /\ b # "present"
      BY <2>1
    <3>2. Len(<<>>) = 0 /\ 0 \in 0..0 /\ \A j \in 1..0 : FALSE
      OBVIOUS
    <3>3. NotUp(<<>>, b)
      BY <3>1, <3>2 DEF NotUp
    <3> QED BY <2>1, <3>1, <3>3 DEF Down
  <2>3. byAccount = 0 /\ \A k \in Calls : live[k].tear = "none"
    BY DEF RosterInit, NoLive
  <2> QED BY <2>2, <2>3 DEF BodyShape
<1> QED BY <1>1, <1>2, <1>3, <1>4, FlagInit DEF RosterInv

(* Every step keeps it. *)
LEMMA RosterStep ==
  ASSUME RosterInv, [RosterNext]_rosterVars
  PROVE  RosterInv'
<1>f. FlagInv'
  BY FlagStep DEF RosterInv
<1>w. WorldTypes'
  BY WorldTypesStep DEF RosterInv
<1>c. faults' \in Nat /\ faults <= faults' /\ faults \in Nat
  BY FaultsCount DEF RosterInv
<1>m. ASSUME ~muddied' PROVE ~muddied
  BY <1>m, StaysMuddied DEF RosterInv
<1>i. ASSUME ~muddied' PROVE CleanInv /\ KeptShape /\ ClaimKept
  BY <1>i, <1>m, KeptIsClaimed DEF RosterInv, CleanInv
<1>s. ASSUME ~muddied' PROVE Shapes'
  <2>0. CleanInv /\ ClaimKept
    BY <1>i, <1>s
  <2>1. ASSUME NEW s \in Sessions, OpenSession(s) \/ ConnClosed(s) \/ CloseSession(s) PROVE Shapes'
    <3>1. UNCHANGED <<flagVars, deleting, status, worldVars>>
      BY <2>1 DEF OpenSession, ConnClosed, CloseSession
    <3> QED BY <3>1, <2>0, ShapesSame
  <2>2. ASSUME NEW s \in Sessions, ReleaseSession(s) PROVE Shapes'
    BY <2>2, <2>0, ShapesReleaseSession
  <2>3. ASSUME NEW s \in Sessions, NEW k \in Calls, NEW c \in Characters, SelectCharacter(k, s, c) PROVE Shapes'
    BY <2>3, <2>0, ShapesSelectCharacter
  <2>4. ASSUME NEW k \in Calls, TeardownProduces(k) PROVE Shapes'
    BY <2>4, <2>0, ShapesTeardownProduces
  <2>5. ASSUME NEW k \in Calls, TeardownEnds(k) PROVE Shapes'
    BY <2>5, <2>0, ShapesTeardownEnds
  <2>6. ASSUME NEW k \in Calls, SelectRefused(k) PROVE Shapes'
    <3>1. /\ call[k].pc = "select" /\ Fails(k) /\ byAccount' \in {0, byAccount}
          /\ UNCHANGED <<live, switching, deleting, status, worldVars>>
      BY <2>6 DEF SelectRefused
    <3> QED BY <3>1, <2>0, ShapesFails
  <2>7. ASSUME NEW k \in Calls, SelectLocked(k), Refused(k) PROVE Shapes'
    <3>1. /\ call[k].pc = "select" /\ Fails(k) /\ byAccount' \in {0, byAccount}
          /\ UNCHANGED <<live, switching, deleting, status, worldVars>>
      BY <2>7 DEF SelectLocked
    <3> QED BY <3>1, <2>0, ShapesFails
  <2>8. ASSUME NEW k \in Calls, SelectLocked(k), ~Refused(k) PROVE Shapes'
    BY <2>8, <2>0, ShapesInstalls
  <2>9. ASSUME NEW k \in Calls, SwitchUnbinds(k) PROVE Shapes'
    BY <2>9, <2>0, ShapesSwitchUnbinds
  <2>10. ASSUME NEW k \in Calls, ReleaseOrphanedSwitch(k) PROVE Shapes'
    BY <2>10, <2>0, ShapesReleaseOrphanedSwitch
  <2>11. ASSUME NEW k \in Calls, BindProduces(k) PROVE Shapes'
    BY <2>11, <2>0, ShapesBindProduces
  <2>12. ASSUME NEW c \in Characters, DeleteClaims(c) \/ DeleteFlips(c) PROVE Shapes'
    BY <2>12, <2>0, ShapesDeletes
  <2>13. ASSUME NEW c \in Characters, SweepPurges(c) PROVE Shapes'
    BY <2>13, <2>0, ShapesSweepPurges
  <2>14. ASSUME NEW c \in Characters, Apply(c) \/ LinkdeadExpires(c) PROVE Shapes'
    BY <2>14, <2>0, ShapesTick
  <2>15. ASSUME NEW c \in Characters, ObserveLinkdead(c) PROVE Shapes'
    BY <2>15, <2>0, ShapesObserveLinkdead
  <2>16. ASSUME NEW rec \in late, Lands(rec) PROVE Shapes'
    <3>u. UNCHANGED <<flagVars, deleting, status, body, ends>>
      BY <2>16 DEF Lands
    <3>1. CASE muddied' = TRUE
      <4>1. ClaimShape'
        BY <2>0, <3>u DEF CleanInv, ClaimShape, Unbinding, flagVars
      <4> QED BY <3>1, <4>1 DEF Shapes
    <3>2. CASE UNCHANGED <<clog, muddied>>
      <4>1. ClaimShape'
        BY <2>0, <3>u DEF CleanInv, ClaimShape, Unbinding, flagVars
      <4>2. ~muddied' => WorldShape'
        BY <2>0, <3>2, <3>u DEF CleanInv, WorldShape, HeldWorld, CallWorld, Stands, Lingers, Running, flagVars
      <4> QED BY <4>1, <4>2 DEF Shapes
    <3> QED BY <2>16, <3>1, <3>2 DEF Lands
  <2>17. CASE Crash
    BY <2>17, <2>0, ShapesCrash
  <2>18. CASE UNCHANGED rosterVars
    <3>1. UNCHANGED <<flagVars, deleting, status, worldVars>>
      BY <2>18 DEF rosterVars
    <3> QED BY <3>1, <2>0, ShapesSame
  <2> QED BY <2>1, <2>2, <2>3, <2>4, <2>5, <2>6, <2>7, <2>8, <2>9, <2>10, <2>11, <2>12, <2>13, <2>14,
             <2>15, <2>16, <2>17, <2>18 DEF RosterNext
<1>k. ASSUME ~muddied' PROVE KeptShape'
  <2>0. FlagInv /\ WorldTypes /\ KeptShape
    BY <1>k, <1>i DEF CleanInv
  <2>1. CASE RosterNext
    BY <1>k, <2>0, <2>1, KeptStep
  <2>2. CASE UNCHANGED rosterVars
    <3>1. UNCHANGED <<live, call, byAccount>>
      BY <2>2 DEF rosterVars, flagVars
    <3> QED BY <2>0, <3>1, KeptSame
  <2> QED BY <2>1, <2>2
<1>b. ASSUME ~muddied', faults' = 0 PROVE BodyShape'
  <2>0. FlagInv /\ WorldTypes /\ KeptShape /\ BodyShape /\ ~muddied /\ faults = 0
    BY <1>b, <1>c, <1>i, <1>m DEF RosterInv
  <2>1. CASE RosterNext
    BY <1>b, <2>0, <2>1, BodyStep
  <2>2. CASE UNCHANGED rosterVars
    <3>1. UNCHANGED <<live, call, byAccount, clog, body>>
      BY <2>2 DEF rosterVars, flagVars, worldVars
    <3> QED BY <2>0, <3>1, BodyRaisesNone DEF Down
  <2> QED BY <2>1, <2>2
<1> QED BY <1>f, <1>w, <1>c, <1>s, <1>k, <1>b DEF RosterInv, Shapes

(* The types of the roster. *)
LEMMA RosterInvTypes == FlagInv /\ WorldTypes => RosterTypeOK
<1> SUFFICES ASSUME FlagInv, WorldTypes PROVE RosterTypeOK
  OBVIOUS
<1>1. FlagNumbered
  BY FlagNumbers
<1> QED BY <1>1 DEF RosterTypeOK, FlagInv, FlagTypes, FlagNumbered, WorldTypes

(* What it says of types, flags, deletes and holds. *)
LEMMA RosterInvSafe == RosterInv => RosterTypeOK /\ FlagOwned /\ NeverLiveDeleted /\ HoldHasBody
<1> SUFFICES ASSUME RosterInv PROVE RosterTypeOK /\ FlagOwned /\ NeverLiveDeleted /\ HoldHasBody
  OBVIOUS
<1>n. FlagInv /\ FlagNumbered /\ WorldTypes
  BY FlagNumbers DEF RosterInv
<1>1. RosterTypeOK
  BY <1>n, RosterInvTypes
<1>2. FlagOwned
  BY <1>n DEF FlagInv
<1>3. NeverLiveDeleted
  <2> SUFFICES ASSUME ~muddied, NEW c \in Characters, status[c] # "active"
               PROVE  /\ byAccount # 0 => live[byAccount].c # c
                      /\ c \notin switching
                      /\ faults = 0 /\ clog[c] = <<>> => body[c] # "present"
    BY DEF NeverLiveDeleted
  <2>1. /\ byAccount # 0 => live[byAccount].c # c
        /\ c \notin switching
    BY DEF RosterInv, ClaimShape
  <2>2. ~Played(c)
    BY <2>1 DEF RosterInv, ClaimShape, Played, Unbinding
  <2>3. ASSUME faults = 0, clog[c] = <<>> PROVE body[c] # "present"
    <3>1. NotUp(<<>>, body[c])
      BY <2>2, <2>3 DEF RosterInv, BodyShape, Down
    <3> QED BY <3>1, DownEmpty
  <2> QED BY <2>1, <2>3
<1>4. HoldHasBody
  <2> SUFFICES ASSUME byAccount # 0, live[byAccount].linkdead, ~muddied,
                      clog[live[byAccount].c] = <<>>, live[byAccount].c \notin ends, ~Running(byAccount)
               PROVE  body[live[byAccount].c] \in {"linkdead", "present"}
    BY DEF HoldHasBody
  <2>1. EndsUp(<<>>, body[live[byAccount].c])
    BY DEF RosterInv, WorldShape, HeldWorld, Lingers
  <2> QED BY <2>1, EndsEmpty
<1> QED BY <1>1, <1>2, <1>3, <1>4

-------------------------------------------------------------------------------
(* The Event stream. *)

Frames == [id : Nat, sub : Nat]
Histories == [start : Nat, frames : Seq(Frames), evicted : Nat, newest : Nat, floor : Nat]
Subscriptions == [start : Nat, ch : Seq(Nat), st : {"on", "left", "dropped"}]
EgressObjects == [sub : Nat, next : Nat, old : Nat, hist : Histories, hubEnded : BOOLEAN, closing : BOOLEAN,
                  had : SUBSET Nat]

(* The variables' types, with what the guards bound. *)
StreamTypes ==
  /\ emitted \in 0..MaxEvents /\ inbound \in Seq(Nat) /\ Len(inbound) <= Inbound
  /\ subs \in Seq(Subscriptions) /\ given \in Seq(SUBSET Nat) /\ Len(given) = Len(subs)
  /\ objs \in Seq(EgressObjects) /\ table \in 0..Len(objs) /\ parked \in 0..Len(objs)
  /\ strm \in [obj : 0..Len(objs), cursor : Nat, ended : BOOLEAN]
  /\ client \in [pc : {"away", "opened", "subscribing", "subscribed", "attached"}, last : Nat]
  /\ got \in Frames
  /\ arrival \in [from : Frames, resumed : BOOLEAN, own : BOOLEAN]

(* The hub's queue b: in the order of emission, up to the Event e. *)
QueueShape(b, e) ==
  /\ \A p \in 1..Len(b) : 1 <= b[p] /\ b[p] <= e
  /\ \A p, q \in 1..Len(b) : p < q => b[p] < b[q]

(* A subscription u and the Events g it was handed: none before its start,   *)
(* all before what is still in the queue, and its channel in their order.    *)
SubShape(u, g, b, e) ==
  /\ 1 <= u.start /\ u.start <= e + 1
  /\ \A x \in g : u.start <= x /\ x <= e /\ \A p \in 1..Len(b) : x < b[p]
  /\ \A p \in 1..Len(u.ch) : u.ch[p] = 0 \/ u.ch[p] \in g
  /\ \A p, q \in 1..Len(u.ch) : p < q /\ u.ch[p] # 0 /\ u.ch[q] # 0 => u.ch[p] < u.ch[q]
  /\ Len(u.ch) <= HubBuffer + 1 /\ (u.st = "on" => Len(u.ch) <= HubBuffer)

(* Where an Event x a subscription was handed is when it is not past: in a   *)
(* frame from p0 on, or in the channel c.                                    *)
StillThere(x, frames, p0, c) ==
  \/ \E p \in 1..Len(frames) : p >= p0 /\ frames[p].id = x
  \/ \E p \in 1..Len(c) : c[p] = x

(* The frames, of the subscription k, in the order of emission. *)
FramesInOrder(frames, k) ==
  /\ \A p \in 1..Len(frames) : frames[p].sub = k
  /\ \A p, q \in 1..Len(frames) :
       p < q /\ frames[p].id # 0 /\ frames[q].id # 0 => frames[p].id < frames[q].id

(* A history h of the subscription k, which began at s, was handed g and has *)
(* c in its channel: its frames are of that subscription and in order, and   *)
(* what it was handed is evicted, in a frame or still in the channel.        *)
HistoryShape(h, k, s, c, g) ==
  /\ Len(h.frames) <= Window
  /\ h.evicted <= h.newest /\ (h.newest = 0 \/ h.newest \in g)
  /\ FramesInOrder(h.frames, k)
  /\ \A p \in 1..Len(h.frames) : h.frames[p].id # 0 =>
       h.frames[p].id \in g /\ h.evicted < h.frames[p].id /\ h.frames[p].id <= h.newest
  /\ \A x \in g : x <= h.evicted \/ StillThere(x, h.frames, 1, c)
  /\ \A p \in 1..Len(c) : c[p] = 0 \/ h.newest < c[p]

(* An object and the frame f the client received last, if that was of one of *)
(* its subscriptions.                                                        *)
GotShape(obj, f) ==
  f # NoFrame /\ f.sub \in obj.had =>
    IF f.sub = obj.sub THEN f.id <= obj.hist.newest ELSE f.id <= obj.hist.floor

(* What a subscription v has taken, one made before it took too, while it was *)
(* on: u began no later and was handed g, v was handed w.                     *)
SharedShape(u, g, v, w) ==
  u.start <= v.start /\ \A x \in w : (u.st = "on" \/ \E y \in g : x <= y) => x \in g

(* An object, of n subscriptions made. *)
ObjShape(obj, n, s, c, g, f) ==
  /\ obj.sub \in 1..n /\ obj.sub \in obj.had /\ obj.had \subseteq 1..n
  /\ HistoryShape(obj.hist, obj.sub, s, c, g)
  /\ GotShape(obj, f)

(* What a stream at cursor still has to send of the history h, against the   *)
(* frame f the client received last: all of it later, and nothing the        *)
(* subscription was handed since is anywhere but there and in the channel.   *)
AheadShape(h, c, g, cursor, f) ==
  /\ h.start <= cursor /\ cursor <= End(h)
  /\ f # NoFrame =>
       /\ \A p \in 1..Len(h.frames) : p > cursor - h.start /\ h.frames[p].id # 0 => f.id < h.frames[p].id
       /\ \A p \in 1..Len(c) : c[p] = 0 \/ f.id < c[p]
       /\ \A x \in g : x <= f.id \/ StillThere(x, h.frames, cursor - h.start + 1, c)

(* The client, and the table it reads from. *)
ClientShape ==
  /\ got # NoFrame =>
       1 <= got.id /\ got.sub \in 1..Len(subs) /\ got.id \in given[got.sub] /\ client.last = got.id
  /\ arrival.from # NoFrame => arrival.from.sub \in 1..Len(subs)
  /\ strm.obj # 0 <=> client.pc = "attached"
  /\ strm.obj # 0 => strm.obj = table
  /\ client.pc \in {"subscribed", "attached"} => table # 0 /\ objs[table].sub # 0
  /\ client.pc = "subscribing" => table # 0

(* The frame after which a stream of the subscription k continues: none of    *)
(* its own, when that replaced the perception the client received last.       *)
Seen(k) == IF got # NoFrame /\ got.sub # k /\ ~Joining THEN Frame(0, k) ELSE got

Ahead(o) ==
  LET k == objs[o].sub IN AheadShape(objs[o].hist, subs[k].ch, given[k], strm.cursor, Seen(k))

(* The open stream: it is within its history, and a resume that is the        *)
(* object's own is of its present subscription; what the client received last *)
(* is of no later one.                                                        *)
StreamShape ==
  strm.obj # 0 =>
    LET k == objs[strm.obj].sub IN
    /\ ~strm.ended => Ahead(strm.obj)
    /\ Joining /\ arrival.own /\ got # NoFrame => got.sub = k
    /\ got # NoFrame /\ ~Joining => got.sub <= k

SubHolds(k) == SubShape(subs[k], given[k], inbound, emitted)
ObjHolds(o) ==
  LET k == objs[o].sub IN
  IF k = 0 THEN objs[o].had = {} /\ objs[o].hist.frames = <<>>
  ELSE ObjShape(objs[o], Len(subs), subs[k].start, subs[k].ch, given[k], got)

(* A subscription not yet its object's is the latest, and what it was handed  *)
(* is in its channel.                                                         *)
NextShape(obj) ==
  LET k == obj.next IN
  k # 0 => /\ k = Len(subs) /\ obj.sub < k /\ got.sub # k
           /\ HistoryShape(NewHistory, k, subs[k].start, subs[k].ch, given[k])
           /\ \A q \in 1..Len(objs) : k \notin objs[q].had

(* Only the object in the table is being rebound. *)
RebindHolds(o) ==
  /\ Rebinding(o) => o = table
  /\ objs[o].old \in 0..Len(subs)
  /\ objs[o].sub = 0 => objs[o].next # 0
  /\ NextShape(objs[o])

Apart == \A o, q \in 1..Len(objs) : o # q => objs[o].had \cap objs[q].had = {}

StreamInv ==
  /\ StreamTypes /\ QueueShape(inbound, emitted) /\ ClientShape /\ StreamShape /\ SeesWhole
  /\ \A k \in 1..Len(subs) : SubHolds(k)
  /\ \A a, b \in 1..Len(subs) : a < b => SharedShape(subs[a], given[a], subs[b], given[b])
  /\ \A o \in 1..Len(objs) : ObjHolds(o) /\ RebindHolds(o)
  /\ Apart

-----------------------------------------------------------------------------
(* A function on 1..n is a sequence. *)
LEMMA FunctionIsSeq ==
  ASSUME NEW n \in Nat, NEW S, NEW f \in [1..n -> S]
  PROVE  f \in Seq(S) /\ Len(f) = n
BY SeqDef

(* Reset: the floor is above all that was served. *)
LEMMA ResetIs ==
  ASSUME NEW h \in Histories
  PROVE  LET r == Reset(h)
         IN /\ r \in Histories /\ r.start = h.start + Len(h.frames) /\ r.frames = <<>> /\ r.evicted = 0
            /\ r.newest = 0 /\ r.floor \in {h.floor, h.newest, h.evicted}
            /\ h.floor <= r.floor /\ h.newest <= r.floor
<1> DEFINE S == {h.floor, h.newest, h.evicted}
<1>1. h.floor \in Nat /\ h.newest \in Nat /\ h.evicted \in Nat /\ h.start \in Nat /\ h.frames \in Seq(Frames)
  BY DEF Histories
<1>2. \E x \in S : \A y \in S : x >= y
  BY <1>1
<1>3. Highest(S) \in S /\ \A y \in S : Highest(S) >= y
  BY <1>2 DEF Highest
<1>4. Highest(S) \in Nat /\ h.floor <= Highest(S) /\ h.newest <= Highest(S)
  BY <1>1, <1>3
<1>5. Reset(h) = [start |-> h.start + Len(h.frames), frames |-> <<>>, evicted |-> 0, newest |-> 0,
                  floor |-> Highest(S)]
  BY DEF Reset, End
<1>6. <<>> \in Seq(Frames) /\ h.start + Len(h.frames) \in Nat
  BY <1>1
<1> HIDE DEF S
<1>7. Reset(h) \in Histories
  BY <1>4, <1>5, <1>6 DEF Histories
<1> QED BY <1>3, <1>4, <1>5, <1>7 DEF S

(* A new perception's history: nothing of its subscription was read. *)
LEMMA ResetShape ==
  ASSUME NEW h \in Histories, NEW k, NEW s, NEW c, NEW g, HistoryShape(NewHistory, k, s, c, g)
  PROVE  HistoryShape(Reset(h), k, s, c, g)
<1> DEFINE r == Reset(h)
<1>1. r.frames = <<>> /\ r.evicted = 0 /\ r.newest = 0
  BY ResetIs
<1>2. NewHistory.frames = <<>> /\ NewHistory.evicted = 0 /\ NewHistory.newest = 0
  BY DEF NewHistory
<1> HIDE DEF r
<1> QED BY <1>1, <1>2 DEF HistoryShape, r

(* AppendFrame, while there is room and when there is none. *)
LEMMA AppendFrameIs ==
  ASSUME NEW h \in Histories, NEW f \in Frames, Len(h.frames) <= Window
  PROVE  LET r == AppendFrame(h, f)
             cut == IF Len(h.frames) = Window THEN 1 ELSE 0
             old == h.frames[1]
         IN /\ r \in Histories /\ r.floor = h.floor /\ r.start = h.start + cut
            /\ Len(r.frames) = Len(h.frames) + 1 - cut /\ Len(r.frames) <= Window
            /\ r.frames[Len(r.frames)] = f
            /\ \A p \in 1..(Len(r.frames) - 1) : r.frames[p] = h.frames[p + cut]
            /\ r.evicted = IF cut = 1 /\ old.id # 0 THEN old.id ELSE h.evicted
            /\ r.newest = IF f.id # 0 THEN f.id ELSE h.newest
<1>0. Window \in Nat /\ Window >= 1
  BY StreamAssumption
<1>1. /\ h.floor \in Nat /\ h.newest \in Nat /\ h.evicted \in Nat /\ h.start \in Nat
      /\ h.frames \in Seq(Frames) /\ Len(h.frames) \in Nat /\ f.id \in Nat
  BY DEF Histories, Frames
<1>2. CASE Len(h.frames) = Window
  <2>1. h.frames # <<>> /\ Head(h.frames) = h.frames[1] /\ h.frames[1] \in Frames /\ h.frames[1].id \in Nat
    <3>1. \A q \in Seq(Frames) : Len(q) >= 1 => q # <<>> /\ Head(q) = q[1] /\ q[1] \in Frames
      OBVIOUS
    <3>2. h.frames # <<>> /\ Head(h.frames) = h.frames[1] /\ h.frames[1] \in Frames
      BY <1>0, <1>1, <1>2, <3>1
    <3> QED BY <3>2 DEF Frames
  <2> DEFINE t == Append(Tail(h.frames), f)
             ev == IF h.frames[1].id # 0 THEN h.frames[1].id ELSE h.evicted
             nw == IF f.id # 0 THEN f.id ELSE h.newest
  <2>2. Tail(h.frames) \in Seq(Frames) /\ Len(Tail(h.frames)) = Len(h.frames) - 1
        /\ \A p \in 1..(Len(h.frames) - 1) : Tail(h.frames)[p] = h.frames[p + 1]
    BY <1>1, <2>1
  <2>3. t \in Seq(Frames) /\ Len(t) = Len(h.frames) /\ t[Len(t)] = f
        /\ \A p \in 1..(Len(t) - 1) : t[p] = h.frames[p + 1]
    BY <1>1, <2>2
  <2>4. AppendFrame(h, f) = [h EXCEPT !.start = h.start + 1, !.evicted = ev, !.frames = t, !.newest = nw]
    BY <1>2, <2>1 DEF AppendFrame
  <2>5. ev \in Nat /\ nw \in Nat /\ h.start + 1 \in Nat
    BY <1>1, <2>1
  <2>6. /\ AppendFrame(h, f) \in Histories /\ AppendFrame(h, f).floor = h.floor
        /\ AppendFrame(h, f).start = h.start + 1 /\ AppendFrame(h, f).frames = t
        /\ AppendFrame(h, f).evicted = ev /\ AppendFrame(h, f).newest = nw
    <3> HIDE DEF t, ev, nw
    <3> QED BY <2>3, <2>4, <2>5 DEF Histories
  <2> HIDE DEF t
  <2> QED BY <1>0, <1>1, <1>2, <2>3, <2>6
<1>3. CASE Len(h.frames) # Window
  <2> DEFINE t == Append(h.frames, f)
             nw == IF f.id # 0 THEN f.id ELSE h.newest
  <2>3. t \in Seq(Frames) /\ Len(t) = Len(h.frames) + 1 /\ t[Len(t)] = f
        /\ \A p \in 1..(Len(t) - 1) : t[p] = h.frames[p]
    BY <1>1
  <2>4. AppendFrame(h, f) = [h EXCEPT !.start = h.start, !.evicted = h.evicted, !.frames = t, !.newest = nw]
    BY <1>3 DEF AppendFrame
  <2>5. nw \in Nat
    BY <1>1
  <2>6. /\ AppendFrame(h, f) \in Histories /\ AppendFrame(h, f).floor = h.floor
        /\ AppendFrame(h, f).start = h.start /\ AppendFrame(h, f).frames = t
        /\ AppendFrame(h, f).evicted = h.evicted /\ AppendFrame(h, f).newest = nw
    <3> HIDE DEF t, nw
    <3> QED BY <1>1, <2>3, <2>4, <2>5 DEF Histories
  <2> HIDE DEF t
  <2> QED BY <1>0, <1>1, <1>3, <2>3, <2>6
<1> QED BY <1>2, <1>3

(* What is there stays there when the channel takes e, which is there then. *)
LEMMA StillThereTakes ==
  ASSUME NEW F, NEW p0, NEW c \in Seq(Nat), NEW e \in Nat
  PROVE  /\ \A x : StillThere(x, F, p0, c) => StillThere(x, F, p0, Append(c, e))
         /\ StillThere(e, F, p0, Append(c, e))
<1> DEFINE d == Append(c, e)
<1>1. /\ Len(d) = Len(c) + 1 /\ d[Len(d)] = e /\ \A p \in 1..Len(c) : d[p] = c[p] /\ p \in 1..Len(d)
      /\ Len(c) \in Nat /\ Len(d) \in 1..Len(d)
  OBVIOUS
<1> HIDE DEF d
<1>2. ASSUME NEW x, StillThere(x, F, p0, c) PROVE StillThere(x, F, p0, d)
  <2>1. CASE \E p \in 1..Len(F) : p >= p0 /\ F[p].id = x
    BY <2>1, Zenon DEF StillThere
  <2>2. ASSUME NEW p \in 1..Len(c), c[p] = x PROVE StillThere(x, F, p0, d)
    <3>1. d[p] = x /\ p \in 1..Len(d)
      BY <1>1, <2>2
    <3> QED BY <3>1, Zenon DEF StillThere
  <2> QED BY <1>2, <2>1, <2>2, Zenon DEF StillThere
<1>3. StillThere(e, F, p0, d)
  BY <1>1, Zenon DEF StillThere
<1> QED BY <1>2, <1>3 DEF d

(* Deliver, in the history of a subscription that takes the Event e, or the  *)
(* drop's frame, behind what is in its channel.                              *)
LEMMA HistoryTakes ==
  ASSUME NEW h \in Histories, NEW k, NEW s \in Nat, NEW c \in Seq(Nat), NEW g \in SUBSET Nat, NEW e \in Nat,
         \A x \in g : x < e, e # 0, HistoryShape(h, k, s, c, g)
  PROVE  /\ HistoryShape(h, k, s, Append(c, e), g \cup {e})
         /\ HistoryShape(h, k, s, Append(c, 0), g)
<1> DEFINE d == Append(c, e)
           z == Append(c, 0)
<1>1. /\ d \in Seq(Nat) /\ Len(d) = Len(c) + 1 /\ d[Len(d)] = e /\ \A p \in 1..Len(c) : d[p] = c[p]
      /\ Len(c) \in Nat
  OBVIOUS
<1>2. /\ z \in Seq(Nat) /\ Len(z) = Len(c) + 1 /\ z[Len(z)] = 0 /\ \A p \in 1..Len(c) : z[p] = c[p]
  OBVIOUS
<1> HIDE DEF d, z
<1>3. h.newest \in Nat /\ h.evicted \in Nat
  BY DEF Histories
<1>4. h.newest < e
  BY <1>3 DEF HistoryShape
<1>5. \A x \in g : x <= h.evicted \/ StillThere(x, h.frames, 1, d)
  BY StillThereTakes DEF HistoryShape, d
<1>6. \A x \in g : x <= h.evicted \/ StillThere(x, h.frames, 1, z)
  BY StillThereTakes DEF HistoryShape, z
<1>7. StillThere(e, h.frames, 1, d)
  BY StillThereTakes DEF d
<1>8. \A p \in 1..Len(d) : d[p] = 0 \/ h.newest < d[p]
  <2> SUFFICES ASSUME NEW p \in 1..Len(d) PROVE d[p] = 0 \/ h.newest < d[p]
    OBVIOUS
  <2>1. CASE p \in 1..Len(c)
    BY <1>1, <2>1 DEF HistoryShape
  <2>2. CASE p = Len(d)
    BY <1>1, <1>4, <2>2
  <2> QED BY <1>1, <2>1, <2>2
<1>9. \A p \in 1..Len(z) : z[p] = 0 \/ h.newest < z[p]
  <2> SUFFICES ASSUME NEW p \in 1..Len(z) PROVE z[p] = 0 \/ h.newest < z[p]
    OBVIOUS
  <2>1. CASE p \in 1..Len(c)
    BY <1>2, <2>1 DEF HistoryShape
  <2>2. CASE p = Len(z)
    BY <1>2, <2>2
  <2> QED BY <1>1, <1>2, <2>1, <2>2
<1>10. HistoryShape(h, k, s, d, g \cup {e})
  BY <1>5, <1>7, <1>8 DEF HistoryShape
<1>11. HistoryShape(h, k, s, z, g)
  BY <1>6, <1>9 DEF HistoryShape
<1> QED BY <1>10, <1>11 DEF d, z

(* Deliver, against the frame f the client received last. *)
LEMMA AheadTakes ==
  ASSUME NEW h \in Histories, NEW c \in Seq(Nat), NEW g \in SUBSET Nat, NEW cursor \in Nat, NEW f \in Frames,
         NEW e \in Nat, f # NoFrame => f.id < e, AheadShape(h, c, g, cursor, f)
  PROVE  /\ AheadShape(h, Append(c, e), g \cup {e}, cursor, f)
         /\ AheadShape(h, Append(c, 0), g, cursor, f)
<1> DEFINE d == Append(c, e)
           z == Append(c, 0)
<1>1. /\ d \in Seq(Nat) /\ Len(d) = Len(c) + 1 /\ d[Len(d)] = e /\ \A p \in 1..Len(c) : d[p] = c[p]
      /\ Len(c) \in Nat
  OBVIOUS
<1>2. /\ z \in Seq(Nat) /\ Len(z) = Len(c) + 1 /\ z[Len(z)] = 0 /\ \A p \in 1..Len(c) : z[p] = c[p]
  OBVIOUS
<1> HIDE DEF d, z
<1>3. ASSUME f # NoFrame
      PROVE  /\ \A x \in g : x <= f.id \/ StillThere(x, h.frames, cursor - h.start + 1, d)
             /\ \A x \in g : x <= f.id \/ StillThere(x, h.frames, cursor - h.start + 1, z)
             /\ StillThere(e, h.frames, cursor - h.start + 1, d)
  <2>1. \A x \in g : x <= f.id \/ StillThere(x, h.frames, cursor - h.start + 1, c)
    BY <1>3 DEF AheadShape
  <2>2. \A x : StillThere(x, h.frames, cursor - h.start + 1, c) =>
               /\ StillThere(x, h.frames, cursor - h.start + 1, d)
               /\ StillThere(x, h.frames, cursor - h.start + 1, z)
    BY StillThereTakes DEF d, z
  <2>3. StillThere(e, h.frames, cursor - h.start + 1, d)
    BY StillThereTakes DEF d
  <2> QED BY <2>1, <2>2, <2>3
<1>4. ASSUME f # NoFrame
      PROVE  /\ \A p \in 1..Len(d) : d[p] = 0 \/ f.id < d[p]
             /\ \A p \in 1..Len(z) : z[p] = 0 \/ f.id < z[p]
  <2>1. \A p \in 1..Len(c) : c[p] = 0 \/ f.id < c[p]
    BY <1>4 DEF AheadShape
  <2>2. ASSUME NEW p \in 1..Len(d) PROVE d[p] = 0 \/ f.id < d[p]
    <3>1. CASE p \in 1..Len(c)
      BY <1>1, <2>1, <3>1
    <3>2. CASE p = Len(d)
      BY <1>1, <1>4, <3>2
    <3> QED BY <1>1, <3>1, <3>2
  <2>3. ASSUME NEW p \in 1..Len(z) PROVE z[p] = 0 \/ f.id < z[p]
    <3>1. CASE p \in 1..Len(c)
      BY <1>2, <2>1, <3>1
    <3>2. CASE p = Len(z)
      BY <1>2, <3>2
    <3> QED BY <1>1, <1>2, <3>1, <3>2
  <2> QED BY <2>2, <2>3
<1>5. AheadShape(h, d, g \cup {e}, cursor, f)
  BY <1>3, <1>4 DEF AheadShape
<1>6. AheadShape(h, z, g, cursor, f)
  BY <1>3, <1>4 DEF AheadShape
<1> QED BY <1>5, <1>6 DEF d, z

(* pump: the channel's first frame f moves to the end of the frames F, of    *)
(* which the first is cut off when there is no room.                         *)
LEMMA FramesPump ==
  ASSUME NEW F \in Seq(Frames), NEW R \in Seq(Frames), NEW f \in Frames, NEW cut \in {0, 1},
         cut <= Len(F), Len(R) = Len(F) + 1 - cut, R[Len(R)] = f,
         \A p \in 1..(Len(R) - 1) : R[p] = F[p + cut],
         NEW k, FramesInOrder(F, k), f.sub = k, NEW new \in Nat,
         \A p \in 1..Len(F) : F[p].id # 0 => F[p].id <= new,
         f.id # 0 => new < f.id
  PROVE  FramesInOrder(R, k)
<1>1. \A p \in 1..Len(F) : F[p].id \in Nat
  <2>1. \A p \in 1..Len(F) : F[p] \in Frames
    OBVIOUS
  <2> QED BY <2>1 DEF Frames
<1>2. Len(F) \in Nat /\ Len(R) \in Nat /\ Len(R) >= 1 /\ f.id \in Nat
  BY DEF Frames
<1>3. ASSUME NEW p \in 1..Len(R) PROVE
      \/ p < Len(R) /\ p + cut \in 1..Len(F) /\ R[p] = F[p + cut]
      \/ p = Len(R) /\ R[p] = f
  BY <1>2
<1>4. \A p \in 1..Len(R) : R[p].sub = k
  <2> SUFFICES ASSUME NEW p \in 1..Len(R) PROVE R[p].sub = k
    OBVIOUS
  <2> QED BY <1>3 DEF FramesInOrder
<1>5. ASSUME NEW p \in 1..Len(R), NEW q \in 1..Len(R), p < q, R[p].id # 0, R[q].id # 0
      PROVE  R[p].id < R[q].id
  <2>0. p \in 1..(Len(R) - 1) /\ cut \in Nat /\ p + cut \in 1..Len(F)
    BY <1>2, <1>5
  <2>1. p + cut \in 1..Len(F) /\ R[p] = F[p + cut]
    BY <2>0
  <2>2. CASE q < Len(R)
    <3>0. q \in 1..(Len(R) - 1) /\ q + cut \in 1..Len(F) /\ p + cut < q + cut
      BY <1>2, <1>5, <2>0, <2>2, SMTT(40)
    <3>1. R[q] = F[q + cut]
      BY <3>0
    <3> QED BY <1>5, <2>1, <3>0, <3>1 DEF FramesInOrder
  <2>3. CASE q = Len(R)
    <3>1. R[q] = f /\ new < f.id
      BY <1>5, <2>3
    <3>2. F[p + cut].id <= new /\ F[p + cut].id \in Nat
      BY <1>1, <1>5, <2>1
    <3> QED BY <1>2, <2>1, <3>1, <3>2
  <2> QED BY <1>2, <2>2, <2>3
<1> QED BY <1>4, <1>5 DEF FramesInOrder

(* ... and nothing but the frame cut off is lost. *)
LEMMA ThereAfterPump ==
  ASSUME NEW F \in Seq(Frames), NEW R \in Seq(Frames), NEW cut \in {0, 1},
         cut <= Len(F), Len(R) = Len(F) + 1 - cut,
         \A p \in 1..(Len(R) - 1) : R[p] = F[p + cut],
         NEW c \in Seq(Nat), c # <<>>, R[Len(R)].id = Head(c),
         NEW p0 \in Nat, cut < p0, p0 <= Len(F) + 1, NEW x, StillThere(x, F, p0, c)
  PROVE  StillThere(x, R, p0 - cut, Tail(c))
<1> DEFINE t == Tail(c)
<1>1. /\ Head(c) = c[1] /\ Len(c) \in Nat /\ Len(c) >= 1 /\ t \in Seq(Nat) /\ Len(t) = Len(c) - 1
      /\ \A p \in 1..Len(t) : t[p] = c[p + 1]
  OBVIOUS
<1> HIDE DEF t
<1>2. Len(F) \in Nat /\ Len(R) \in Nat /\ Len(R) >= 1
  OBVIOUS
<1>3. ASSUME NEW p \in 1..Len(F), p >= p0, F[p].id = x PROVE StillThere(x, R, p0 - cut, t)
  <2>1. p - cut \in 1..(Len(R) - 1) /\ (p - cut) + cut = p /\ p - cut >= p0 - cut /\ p - cut \in 1..Len(R)
    BY <1>2, <1>3
  <2>2. R[p - cut].id = x
    BY <1>3, <2>1
  <2> QED BY <2>1, <2>2 DEF StillThere
<1>4. ASSUME NEW p \in 1..Len(c), c[p] = x PROVE StillThere(x, R, p0 - cut, t)
  <2>1. CASE p = 1
    <3>1. R[Len(R)].id = x /\ Len(R) \in 1..Len(R) /\ Len(R) >= p0 - cut
      BY <1>1, <1>2, <1>4, <2>1
    <3> QED BY <3>1 DEF StillThere
  <2>2. CASE p # 1
    <3>0. p - 1 \in 1..Len(t) /\ (p - 1) + 1 = p
      BY <1>1, <1>4, <2>2
    <3>1. p - 1 \in 1..Len(t) /\ t[p - 1] = x
      BY <1>1, <1>4, <3>0
    <3> QED BY <3>1 DEF StillThere
  <2> QED BY <2>1, <2>2
<1> QED BY <1>3, <1>4 DEF StillThere, t

(* What a history h of k is when pump has made it r.                         *)
Pumped(h, r, k, s, c, g) ==
  r \in Histories /\ HistoryShape(r, k, s, Tail(c), g) /\ h.newest <= r.newest /\ h.floor = r.floor

(* pump: the frame f from the front of the channel, at the history's end.    *)
LEMMA HistoryPumps ==
  ASSUME NEW h \in Histories, NEW k \in Nat, NEW s \in Nat, s >= 1, NEW c \in Seq(Nat), c # <<>>,
         NEW g \in SUBSET Nat, \A x \in g : s <= x, \A p \in 1..Len(c) : c[p] = 0 \/ c[p] \in g,
         \A p, q \in 1..Len(c) : p < q /\ c[p] # 0 /\ c[q] # 0 => c[p] < c[q],
         HistoryShape(h, k, s, c, g), NEW r, r = AppendFrame(h, Frame(Head(c), k))
  PROVE  Pumped(h, r, k, s, c, g)
<1> DEFINE f == Frame(Head(c), k)
           cut == IF Len(h.frames) = Window THEN 1 ELSE 0
           t == Tail(c)
           F == h.frames
           R == r.frames
<1>1. /\ c[1] \in Nat /\ Head(c) = c[1] /\ Len(c) \in Nat /\ Len(c) >= 1 /\ t \in Seq(Nat) /\ Len(t) = Len(c) - 1
      /\ 1 \in 1..Len(c) /\ \A p \in 1..Len(t) : t[p] = c[p + 1] /\ p + 1 \in 1..Len(c) /\ 1 < p + 1
  OBVIOUS
<1>2. f \in Frames /\ f.id = c[1] /\ f.sub = k
  BY <1>1 DEF Frame, Frames
<1>3. /\ Len(F) <= Window /\ F \in Seq(Frames) /\ Len(F) \in Nat
      /\ h.newest \in Nat /\ h.evicted \in Nat
  BY DEF HistoryShape, Histories
<1>4. /\ r \in Histories /\ r.floor = h.floor /\ R \in Seq(Frames) /\ r.newest \in Nat /\ r.evicted \in Nat
      /\ Len(R) = Len(F) + 1 - cut /\ Len(R) <= Window /\ R[Len(R)] = f
      /\ \A p \in 1..(Len(R) - 1) : R[p] = F[p + cut]
      /\ r.evicted = IF cut = 1 /\ F[1].id # 0 THEN F[1].id ELSE h.evicted
      /\ r.newest = IF f.id # 0 THEN f.id ELSE h.newest
  BY <1>2, <1>3, AppendFrameIs DEF Histories
<1>5. cut \in {0, 1} /\ cut <= Len(F)
  BY <1>3, StreamAssumption, SMTT(40)
<1>h. /\ h.evicted <= h.newest /\ (h.newest = 0 \/ h.newest \in g)
      /\ FramesInOrder(F, k)
      /\ \A p \in 1..Len(F) : F[p].id # 0 => F[p].id \in g /\ h.evicted < F[p].id /\ F[p].id <= h.newest
      /\ \A x \in g : x <= h.evicted \/ StillThere(x, F, 1, c)
      /\ \A p \in 1..Len(c) : c[p] = 0 \/ h.newest < c[p]
  BY DEF HistoryShape
<1> HIDE DEF f, cut, t, F, R
<1>c. f.id # 0 => h.newest < f.id /\ f.id \in g
  BY <1>1, <1>2, <1>h
<1>6. \A p \in 1..Len(F) : F[p].id \in Nat
  <2>1. \A p \in 1..Len(F) : F[p] \in Frames
    BY <1>3
  <2> QED BY <2>1 DEF Frames
<1>7. h.newest <= r.newest /\ (r.newest = 0 \/ r.newest \in g)
  <2>1. CASE f.id = 0
    <3>1. r.newest = h.newest
      BY <1>4, <2>1
    <3> QED BY <1>3, <1>4, <1>h, <3>1
  <2>2. CASE f.id # 0
    <3>1. r.newest = f.id /\ f.id \in Nat
      BY <1>1, <1>2, <1>4, <2>2
    <3> QED BY <1>3, <1>4, <1>c, <1>h, <2>2, <3>1, SMTT(40)
  <2> QED BY <2>1, <2>2
<1>8. h.evicted <= r.evicted /\ r.evicted <= h.newest
  <2>1. CASE cut = 1 /\ F[1].id # 0
    <3>1. 1 \in 1..Len(F)
      BY <1>3, <1>5, <2>1
    <3> QED BY <1>3, <1>4, <1>6, <1>h, <2>1, <3>1
  <2>2. CASE ~(cut = 1 /\ F[1].id # 0)
    BY <1>3, <1>4, <1>h, <2>2
  <2> QED BY <2>1, <2>2
<1>9. R[Len(R)].id = Head(c) /\ cut < 1 + cut /\ 1 + cut <= Len(F) + 1 /\ 1 + cut \in Nat /\ (1 + cut) - cut = 1
  BY <1>1, <1>2, <1>3, <1>4, <1>5, SMTT(40)
<1>10. FramesInOrder(R, k)
  BY <1>2, <1>3, <1>4, <1>5, <1>c, <1>h, FramesPump
<1>11. ASSUME NEW p \in 1..Len(R), R[p].id # 0
       PROVE  R[p].id \in g /\ r.evicted < R[p].id /\ R[p].id <= r.newest
  <2>1. CASE p < Len(R)
    <3>0. p \in 1..(Len(R) - 1) /\ p + cut \in 1..Len(F) /\ (cut = 1 => 1 \in 1..Len(F) /\ 1 < p + cut)
      <4>1. p \in Nat /\ p >= 1 /\ p <= Len(F) - cut /\ p <= Len(R) - 1 /\ Len(R) \in Nat
        BY <1>3, <1>4, <1>5, <2>1
      <4>2. CASE cut = 0
        BY <1>3, <4>1, <4>2
      <4>3. CASE cut = 1
        BY <1>3, <4>1, <4>3
      <4> QED BY <1>5, <4>2, <4>3
    <3>1. R[p] = F[p + cut]
      BY <1>4, <3>0
    <3>2. /\ F[p + cut].id \in g /\ h.evicted < F[p + cut].id /\ F[p + cut].id <= h.newest
          /\ F[p + cut].id \in Nat /\ F[p + cut].id # 0
      BY <1>6, <1>h, <1>11, <3>0, <3>1
    <3>3. cut = 1 /\ F[1].id # 0 => F[1].id < F[p + cut].id
      BY <1>h, <3>0, <3>2 DEF FramesInOrder
    <3>4. r.evicted < F[p + cut].id
      BY <1>4, <3>2, <3>3
    <3> QED BY <1>3, <1>4, <1>7, <3>1, <3>2, <3>4, SMTT(40)
  <2>2. CASE p = Len(R)
    <3>1. R[p] = f /\ f.id # 0 /\ r.newest = f.id /\ f.id \in Nat
      BY <1>1, <1>2, <1>4, <1>11, <2>2
    <3>2. r.evicted < f.id
      <4>1. h.newest < f.id /\ r.evicted <= h.newest
        BY <1>8, <1>c, <3>1
      <4> QED BY <1>3, <1>4, <3>1, <4>1
    <3> QED BY <1>c, <3>1, <3>2
  <2> QED BY <1>3, <1>4, <2>1, <2>2
<1>12. ASSUME NEW x \in g PROVE x <= r.evicted \/ StillThere(x, R, 1, t)
  <2>0. x # 0 /\ x \in Nat
    OBVIOUS
  <2>1. CASE x <= h.evicted
    BY <1>3, <1>4, <1>8, <2>0, <2>1
  <2>2. CASE \E p \in 1..Len(c) : c[p] = x
    <3>1. StillThere(x, F, 1 + cut, c)
      BY <2>2 DEF StillThere
    <3>2. StillThere(x, R, (1 + cut) - cut, t)
      BY <1>3, <1>4, <1>5, <1>9, <3>1, ThereAfterPump DEF t
    <3> QED BY <1>5, <3>2
  <2>3. ASSUME NEW p \in 1..Len(F), F[p].id = x, x > r.evicted PROVE StillThere(x, R, 1, t)
    <3>0. p >= 1 + cut
      BY <1>3, <1>4, <1>5, <2>0, <2>3
    <3>1. StillThere(x, F, 1 + cut, c)
      BY <2>3, <3>0 DEF StillThere
    <3>2. StillThere(x, R, (1 + cut) - cut, t)
      BY <1>3, <1>4, <1>5, <1>9, <3>1, ThereAfterPump DEF t
    <3> QED BY <1>5, <3>2
  <2>4. x > r.evicted \/ x <= r.evicted
    BY <1>4, <2>0
  <2>5. x <= h.evicted \/ StillThere(x, F, 1, c)
    BY <1>h
  <2> QED BY <2>1, <2>2, <2>3, <2>4, <2>5, Zenon DEF StillThere
<1>13. ASSUME NEW p \in 1..Len(t) PROVE t[p] = 0 \/ r.newest < t[p]
  <2>1. t[p] = c[p + 1] /\ p + 1 \in 1..Len(c) /\ 1 < p + 1 /\ 1 \in 1..Len(c)
    BY <1>1
  <2>2. CASE c[1] = 0
    BY <1>2, <1>4, <1>h, <2>1, <2>2
  <2>3. CASE c[1] # 0
    BY <1>2, <1>4, <2>1, <2>3
  <2> QED BY <2>2, <2>3
<1>14. r.evicted <= r.newest
  BY <1>3, <1>4, <1>7, <1>8
<1>15. HistoryShape(r, k, s, t, g)
  BY <1>4, <1>7, <1>10, <1>11, <1>12, <1>13, <1>14 DEF HistoryShape, R
<1> QED BY <1>4, <1>7, <1>15 DEF t, Pumped

(* A place in a sequence that begins at a, and one that begins cut later. *)
LEMMA Shifted ==
  ASSUME NEW a \in Nat, NEW n \in Nat, NEW at \in Nat, NEW cut \in Nat, NEW b, b = a + cut,
         a <= at, at <= a + n, b <= at
  PROVE  /\ at - b = (at - a) - cut /\ at - a \in Nat /\ cut <= at - a /\ at - a <= n
         /\ cut < at - a + 1 /\ at - a + 1 <= n + 1 /\ at - a + 1 \in Nat
         /\ (at - a + 1) - cut = at - b + 1
OBVIOUS

(* The same, for the place of a frame: before the cut it is in range and past *)
(* d.                                                                         *)
LEMMA ShiftedPlace ==
  ASSUME NEW n \in Nat, NEW cut \in Nat, NEW d \in Nat, NEW p \in Nat, 1 <= p, p < n + 1 - cut, p > d - cut
  PROVE  p + cut \in 1..n /\ p + cut > d
OBVIOUS

(* pump, for a stream whose backlog is within the buffer then: what it still *)
(* has to send is not cut off.                                               *)
LEMMA AheadPumps ==
  ASSUME NEW h \in Histories, NEW k \in Nat, NEW c \in Seq(Nat), c # <<>>, NEW g \in SUBSET Nat,
         Len(h.frames) <= Window, NEW r, r = AppendFrame(h, Frame(Head(c), k)),
         NEW cursor \in Nat, NEW f \in Frames,
         \A p, q \in 1..Len(c) : p < q /\ c[p] # 0 /\ c[q] # 0 => c[p] < c[q],
         AheadShape(h, c, g, cursor, f), ~(End(r) - cursor > StreamBuffer)
  PROVE  AheadShape(r, Tail(c), g, cursor, f)
<1> DEFINE n == Frame(Head(c), k)
           cut == IF Len(h.frames) = Window THEN 1 ELSE 0
           t == Tail(c)
           F == h.frames
           R == r.frames
<1>1. /\ c[1] \in Nat /\ Head(c) = c[1] /\ Len(c) \in Nat /\ Len(c) >= 1 /\ t \in Seq(Nat) /\ Len(t) = Len(c) - 1
      /\ 1 \in 1..Len(c) /\ \A p \in 1..Len(t) : t[p] = c[p + 1] /\ p + 1 \in 1..Len(c)
  OBVIOUS
<1>2. n \in Frames /\ n.id = c[1] /\ n.sub = k
  BY <1>1 DEF Frame, Frames
<1>3. F \in Seq(Frames) /\ Len(F) \in Nat /\ Len(F) <= Window /\ h.start \in Nat
  BY DEF Histories
<1>4. /\ R \in Seq(Frames) /\ r.start = h.start + cut
      /\ Len(R) = Len(F) + 1 - cut /\ Len(R) <= Window /\ R[Len(R)] = n
      /\ \A p \in 1..(Len(R) - 1) : R[p] = F[p + cut]
  BY <1>2, <1>3, AppendFrameIs DEF Histories
<1>5. /\ cut \in {0, 1} /\ cut <= Len(F) /\ Len(R) \in Nat /\ (cut = 1 => Len(R) = Window)
      /\ (cut = 0 \/ cut = 1)
  <2>1. cut \in {0, 1} /\ cut <= Len(F) /\ (cut = 1 => Len(F) = Window) /\ Window \in Nat
    BY <1>3, StreamAssumption, SMTT(40)
  <2> HIDE DEF cut, F, R, n
  <2> QED BY <1>3, <1>4, <2>1
<1>6. StreamBuffer \in Nat /\ Window \in Nat /\ Window >= StreamBuffer
  BY StreamAssumption
<1>7. h.start <= cursor /\ cursor <= h.start + Len(F)
  BY DEF AheadShape, End
<1>8. r.start + Len(R) - cursor <= StreamBuffer
  <2>1. End(r) = r.start + Len(R)
    BY DEF End
  <2>2. End(r) \in Int /\ ~(End(r) - cursor > StreamBuffer)
    <3> HIDE DEF cut, R, F, n
    <3> QED BY <1>3, <1>4, <1>5, <2>1, SMTT(40)
  <2>3. r.start \in Nat /\ Len(R) \in Nat
    <3> HIDE DEF cut, R, F, n
    <3> QED BY <1>3, <1>4, <1>5
  <2> HIDE DEF cut, R, F, n
  <2> QED BY <1>6, <2>1, <2>2, <2>3
<1> HIDE DEF n, cut, t, F, R
<1>9. r.start <= cursor /\ cursor <= r.start + Len(R)
  <2>1. CASE cut = 0
    BY <1>3, <1>4, <1>6, <1>7, <1>8, <2>1, SMTT(40)
  <2>2. CASE cut = 1
    BY <1>3, <1>4, <1>5, <1>6, <1>7, <1>8, <2>2, SMTT(40)
  <2> QED BY <1>5, <2>1, <2>2
<1>10. /\ cursor - r.start = (cursor - h.start) - cut /\ cursor - h.start \in Nat
       /\ cut <= cursor - h.start /\ cursor - h.start <= Len(F)
       /\ cut < cursor - h.start + 1 /\ cursor - h.start + 1 <= Len(F) + 1 /\ cursor - h.start + 1 \in Nat
       /\ (cursor - h.start + 1) - cut = cursor - r.start + 1
  <2>1. /\ h.start \in Nat /\ r.start = h.start + cut /\ Len(F) \in Nat /\ cut \in Nat
        /\ h.start <= cursor /\ cursor <= h.start + Len(F) /\ r.start <= cursor
    BY <1>3, <1>4, <1>5, <1>7, <1>9
  <2>2. PICK a \in Nat : a = h.start
    BY <2>1
  <2>3. PICK b : b = r.start
    OBVIOUS
  <2>4. PICK n0 \in Nat : n0 = Len(F)
    BY <2>1
  <2>5. a \in Nat /\ n0 \in Nat /\ b = a + cut /\ cut \in Nat /\ a <= cursor /\ cursor <= a + n0 /\ b <= cursor
    BY <2>1, <2>2, <2>3, <2>4
  <2>6. /\ cursor - b = (cursor - a) - cut /\ cursor - a \in Nat /\ cut <= cursor - a /\ cursor - a <= n0
        /\ cut < cursor - a + 1 /\ cursor - a + 1 <= n0 + 1 /\ cursor - a + 1 \in Nat
        /\ (cursor - a + 1) - cut = cursor - b + 1
    BY <2>5, Shifted
  <2> QED BY <2>2, <2>3, <2>4, <2>6
<1>11. ASSUME f # NoFrame, NEW p \in 1..Len(R), p > cursor - r.start, R[p].id # 0
       PROVE  f.id < R[p].id
  <2>1. CASE p < Len(R)
    <3>0. p \in 1..(Len(R) - 1) /\ p + cut \in 1..Len(F) /\ p + cut > cursor - h.start
      <4>1. p \in Nat /\ 1 <= p /\ p \in 1..(Len(R) - 1)
        BY <1>5, <2>1
      <4>2. p < Len(F) + 1 - cut
        BY <1>4, <2>1
      <4>3. p > (cursor - h.start) - cut
        BY <1>10, <1>11
      <4>4. cut \in Nat /\ cursor - h.start \in Nat /\ Len(F) \in Nat
        BY <1>3, <1>5, <1>10
      <4> QED BY <4>1, <4>2, <4>3, <4>4, ShiftedPlace
    <3>1. R[p] = F[p + cut]
      BY <1>4, <3>0
    <3>2. F[p + cut].id # 0 => f.id < F[p + cut].id
      BY <1>11, <3>0 DEF AheadShape, F
    <3> QED BY <1>11, <3>1, <3>2
  <2>2. CASE p = Len(R)
    <3>1. R[p].id = c[1]
      BY <1>2, <1>4, <2>2
    <3> QED BY <1>1, <1>11, <3>1 DEF AheadShape
  <2> QED BY <1>3, <1>4, <2>1, <2>2
<1>12. ASSUME f # NoFrame, NEW p \in 1..Len(t) PROVE t[p] = 0 \/ f.id < t[p]
  BY <1>1, <1>12 DEF AheadShape
<1>13. ASSUME f # NoFrame, NEW x \in g PROVE x <= f.id \/ StillThere(x, R, cursor - r.start + 1, t)
  <2>1. x <= f.id \/ StillThere(x, F, cursor - h.start + 1, c)
    BY <1>13 DEF AheadShape, F
  <2>2. R[Len(R)].id = Head(c)
    BY <1>1, <1>2, <1>4
  <2>3. /\ cut < cursor - h.start + 1 /\ cursor - h.start + 1 <= Len(F) + 1 /\ cursor - h.start + 1 \in Nat
        /\ (cursor - h.start + 1) - cut = cursor - r.start + 1
    BY <1>10
  <2>4. ASSUME StillThere(x, F, cursor - h.start + 1, c) PROVE StillThere(x, R, cursor - r.start + 1, t)
    <3>1. StillThere(x, R, (cursor - h.start + 1) - cut, t)
      BY <1>3, <1>4, <1>5, <2>2, <2>3, <2>4, ThereAfterPump DEF t
    <3> QED BY <2>3, <3>1
  <2> QED BY <2>1, <2>4
<1>14. r.start <= cursor /\ cursor <= End(r)
  BY <1>9 DEF End, R
<1> QED BY <1>11, <1>12, <1>13, <1>14 DEF AheadShape, R, t

(* attach: where a stream continues that last saw the frame f, a frame the   *)
(* object served or not.                                                     *)
LEMMA ResumeIs ==
  ASSUME NEW h \in Histories, NEW last \in Nat, NEW k, NEW s \in Nat, NEW c, NEW g,
         HistoryShape(h, k, s, c, g)
  PROVE  LET at == Resume(h, last)
         IN /\ at.seq \in Nat /\ h.start <= at.seq /\ at.seq <= End(h) /\ at.resync \in BOOLEAN
            /\ last # 0 /\ ~at.resync =>
                 /\ h.floor < last /\ last <= h.newest /\ h.evicted <= last
                 /\ \A p \in 1..Len(h.frames) :
                      /\ h.frames[p].id > last => p > at.seq - h.start
                      /\ p > at.seq - h.start /\ h.frames[p].id # 0 => last < h.frames[p].id
<1> DEFINE F == h.frames
           after == {q \in h.start..(End(h) - 1) : F[q - h.start + 1].id > last}
           least == -Highest({-q : q \in after})
           at == Resume(h, last)
<1>1. /\ F \in Seq(Frames) /\ Len(F) \in Nat /\ h.start \in Nat /\ End(h) = h.start + Len(F)
      /\ h.floor \in Nat /\ h.newest \in Nat /\ h.evicted \in Nat
  BY DEF Histories, End
<1>2. \A p \in 1..Len(F) : F[p].id \in Nat
  <2>1. \A p \in 1..Len(F) : F[p] \in Frames
    BY <1>1
  <2> QED BY <2>1 DEF Frames
<1>3. \A p, q \in 1..Len(F) : p < q /\ F[p].id # 0 /\ F[q].id # 0 => F[p].id < F[q].id
  BY DEF HistoryShape, FramesInOrder
<1>4. \/ at = [seq |-> End(h), resync |-> FALSE] /\ last = 0
      \/ at = [seq |-> End(h), resync |-> TRUE]
      \/ /\ last # 0 /\ ~(last <= h.floor) /\ ~(last > h.newest) /\ ~(last < h.evicted)
         /\ at = [seq |-> IF after = {} THEN End(h) ELSE least, resync |-> FALSE]
  BY DEF Resume
<1>5. after \subseteq h.start..(h.start + Len(F) - 1)
  BY <1>1
<1>6. ASSUME after # {} PROVE least \in after /\ \A q \in after : least <= q
  <2> HIDE DEF after
  <2>1. after \subseteq Nat
    BY <1>1, <1>5
  <2>2. PICK m \in after : \A q \in after : m <= q
    BY <1>6, <2>1, LeastNatural
  <2>3. \E x \in {-q : q \in after} : \A y \in {-q : q \in after} : x >= y
    <3>1. -m \in {-q : q \in after}
      OBVIOUS
    <3>2. \A q \in after : -m >= -q
      BY <2>1, <2>2
    <3> QED BY <3>1, <3>2
  <2>4. /\ Highest({-q : q \in after}) \in {-q : q \in after}
        /\ \A y \in {-q : q \in after} : Highest({-q : q \in after}) >= y
    BY <2>3 DEF Highest
  <2>5. PICK w \in after : Highest({-q : q \in after}) = -w
    BY <2>4
  <2>6. \A q \in after : -w >= -q
    BY <2>4, <2>5
  <2>7. least = w
    BY <2>1, <2>5
  <2> QED BY <2>1, <2>6, <2>7
<1> HIDE DEF at, least, F
<1>7. CASE \/ at = [seq |-> End(h), resync |-> FALSE] /\ last = 0
           \/ at = [seq |-> End(h), resync |-> TRUE]
  <2>1. at.seq = End(h) /\ (at.resync = TRUE \/ (at.resync = FALSE /\ last = 0))
    BY <1>7
  <2>2. at.seq \in Nat /\ h.start <= at.seq /\ at.seq <= End(h)
    BY <1>1, <2>1
  <2>3. at.resync \in BOOLEAN /\ ~(last # 0 /\ ~at.resync)
    BY <2>1
  <2> QED BY <2>2, <2>3, Zenon DEF at
<1>8. CASE /\ last # 0 /\ ~(last <= h.floor) /\ ~(last > h.newest) /\ ~(last < h.evicted)
           /\ at = [seq |-> IF after = {} THEN End(h) ELSE least, resync |-> FALSE]
  <2>1. at.resync = FALSE /\ at.seq = IF after = {} THEN End(h) ELSE least
    BY <1>8
  <2>2. h.floor < last /\ last <= h.newest /\ h.evicted <= last
    BY <1>1, <1>8
  <2>3. ASSUME NEW p \in 1..Len(F), F[p].id > last
        PROVE  h.start + p - 1 \in after
    <3>1. h.start + p - 1 \in h.start..(End(h) - 1) /\ (h.start + p - 1) - h.start + 1 = p
      BY <1>1
    <3> QED BY <2>3, <3>1
  <2>4. CASE after = {}
    <3>1. at.seq = h.start + Len(F)
      BY <1>1, <2>1, <2>4
    <3>2. \A p \in 1..Len(F) : ~(F[p].id > last) /\ ~(p > at.seq - h.start)
      BY <1>1, <2>3, <2>4, <3>1, SMTT(40)
    <3>3. at.seq \in Nat /\ h.start <= at.seq /\ at.seq <= End(h)
      BY <1>1, <3>1
    <3> QED BY <2>1, <2>2, <3>2, <3>3 DEF at, F
  <2>5. CASE after # {}
    <3>1. at.seq \in after /\ \A q \in after : at.seq <= q
      BY <1>6, <2>1, <2>5
    <3>2. /\ at.seq \in Nat /\ h.start <= at.seq /\ at.seq <= h.start + Len(F) - 1
          /\ F[at.seq - h.start + 1].id > last
      BY <1>1, <3>1, SMTT(40)
    <3>3. ASSUME NEW p \in 1..Len(F), F[p].id > last PROVE p > at.seq - h.start
      <4>1. at.seq <= h.start + p - 1
        BY <2>3, <3>1, <3>3
      <4> QED BY <1>1, <3>2, <4>1, SMTT(40)
    <3>4. ASSUME NEW p \in 1..Len(F), p > at.seq - h.start, F[p].id # 0 PROVE last < F[p].id
      <4> DEFINE m == at.seq - h.start + 1
      <4>1. m \in 1..Len(F) /\ (m = p \/ m < p)
        <5>1. at.seq \in Nat /\ h.start <= at.seq /\ at.seq <= h.start + Len(F) - 1
          BY <3>2
        <5> QED BY <1>1, <3>4, <5>1, SMTT(40)
      <4>2. F[m].id \in Nat /\ F[p].id \in Nat /\ F[m].id > last /\ F[m].id # 0
        BY <1>2, <3>2, <4>1
      <4> HIDE DEF m
      <4>3. m < p => F[m].id < F[p].id
        BY <1>3, <3>4, <4>1, <4>2
      <4> QED BY <4>1, <4>2, <4>3
    <3>5. at.seq <= End(h)
      BY <1>1, <3>2
    <3> QED BY <2>1, <2>2, <3>2, <3>3, <3>4, <3>5 DEF at, F
  <2> QED BY <2>4, <2>5
<1> QED BY <1>4, <1>7, <1>8

(* What the invariant says of one object that has a subscription.            *)
LEMMA ObjFacts ==
  ASSUME StreamInv, NEW o \in 1..Len(objs), objs[o].sub # 0
  PROVE  LET obj == objs[o]
             k == obj.sub
         IN /\ obj \in EgressObjects /\ obj.hist \in Histories /\ k \in 1..Len(subs) /\ k \in Nat
            /\ k \in obj.had /\ obj.had \subseteq 1..Len(subs)
            /\ subs[k] \in Subscriptions /\ subs[k].start \in Nat /\ subs[k].ch \in Seq(Nat)
            /\ given[k] \in SUBSET Nat
            /\ HistoryShape(obj.hist, k, subs[k].start, subs[k].ch, given[k]) /\ GotShape(obj, got)
            /\ SubShape(subs[k], given[k], inbound, emitted)
<1> DEFINE k == objs[o].sub
<1>1. subs \in Seq(Subscriptions) /\ given \in Seq(SUBSET Nat) /\ Len(given) = Len(subs) /\ objs \in Seq(EgressObjects)
  BY DEF StreamInv, StreamTypes
<1>2. objs[o] \in EgressObjects
  BY <1>1
<1>3. objs[o].hist \in Histories
  BY <1>2 DEF EgressObjects
<1>4. ObjShape(objs[o], Len(subs), subs[k].start, subs[k].ch, given[k], got)
  BY DEF StreamInv, ObjHolds
<1>5. k \in 1..Len(subs) /\ k \in objs[o].had /\ objs[o].had \subseteq 1..Len(subs)
      /\ HistoryShape(objs[o].hist, k, subs[k].start, subs[k].ch, given[k]) /\ GotShape(objs[o], got)
  BY <1>4 DEF ObjShape
<1>6. SubShape(subs[k], given[k], inbound, emitted)
  BY <1>5 DEF StreamInv, SubHolds
<1>7. subs[k] \in Subscriptions /\ given[k] \in SUBSET Nat /\ k \in Nat
  <2> HIDE DEF k
  <2> QED BY <1>1, <1>5
<1>8. subs[k].start \in Nat /\ subs[k].ch \in Seq(Nat)
  BY <1>7 DEF Subscriptions
<1> QED BY <1>2, <1>3, <1>5, <1>6, <1>7, <1>8

(* ... and of any, as it is rebound. *)
LEMMA RebindFacts ==
  ASSUME StreamInv, NEW o \in 1..Len(objs)
  PROVE  /\ objs[o] \in EgressObjects /\ objs[o].hist \in Histories
         /\ objs[o].sub \in 0..Len(subs) /\ objs[o].next \in 0..Len(subs) /\ objs[o].old \in 0..Len(subs)
         /\ objs[o].had \subseteq 1..Len(subs) /\ objs[o].next \notin objs[o].had
         /\ (objs[o].next # 0 \/ objs[o].old # 0 => o = table)
         /\ (objs[o].sub = 0 => objs[o].next # 0 /\ objs[o].had = {} /\ objs[o].hist.frames = <<>>)
         /\ NextShape(objs[o]) /\ Len(subs) \in Nat /\ Len(objs) \in Nat
<1>1. subs \in Seq(Subscriptions) /\ objs \in Seq(EgressObjects)
  BY DEF StreamInv, StreamTypes
<1>2. objs[o] \in EgressObjects /\ Len(subs) \in Nat /\ Len(objs) \in Nat
  BY <1>1
<1>3. objs[o].hist \in Histories /\ objs[o].sub \in Nat /\ objs[o].next \in Nat
  BY <1>2 DEF EgressObjects
<1>4. RebindHolds(o) /\ ObjHolds(o)
  BY DEF StreamInv
<1>5. NextShape(objs[o]) /\ objs[o].old \in 0..Len(subs) /\ (objs[o].sub = 0 => objs[o].next # 0)
      /\ (objs[o].next # 0 \/ objs[o].old # 0 => o = table)
  BY <1>4 DEF RebindHolds, Rebinding
<1>6. objs[o].next \in 0..Len(subs)
  <2>1. objs[o].next = 0 \/ objs[o].next = Len(subs)
    BY <1>5 DEF NextShape
  <2> QED BY <1>2, <2>1
<1>7. CASE objs[o].sub = 0
  <2>1. objs[o].had = {} /\ objs[o].hist.frames = <<>> /\ objs[o].sub \in 0..Len(subs)
    BY <1>2, <1>4, <1>7 DEF ObjHolds
  <2> QED BY <1>2, <1>3, <1>5, <1>6, <2>1
<1>8. CASE objs[o].sub # 0
  <2>1. objs[o].sub \in 1..Len(subs) /\ objs[o].had \subseteq 1..Len(subs)
    BY <1>8, ObjFacts
  <2>2. objs[o].next \notin objs[o].had
    <3>1. CASE objs[o].next = 0
      BY <1>2, <2>1, <3>1
    <3>2. CASE objs[o].next # 0
      BY <1>5, <3>2 DEF NextShape
    <3> QED BY <3>1, <3>2
  <2>3. objs[o].sub \in 0..Len(subs)
    BY <1>2, <2>1
  <2> QED BY <1>2, <1>3, <1>5, <1>6, <1>8, <2>1, <2>2, <2>3
<1> QED BY <1>7, <1>8

(* The invariant of the next state, from its parts. *)
LEMMA Whole ==
  ASSUME StreamTypes', QueueShape(inbound', emitted'), ClientShape', StreamShape', SeesWhole',
         \A k \in 1..Len(subs') : SubShape(subs'[k], given'[k], inbound', emitted'),
         \A a, b \in 1..Len(subs') : a < b => SharedShape(subs'[a], given'[a], subs'[b], given'[b]),
         \A o \in 1..Len(objs') : ObjHolds(o)', \A o \in 1..Len(objs') : RebindHolds(o)',
         Apart'
  PROVE  StreamInv'
BY DEF StreamInv, SubHolds

(* A subscription that only stops, of an unchanged queue. *)
LEMMA SubStops ==
  ASSUME NEW u, NEW v, NEW g, NEW b, NEW e, SubShape(u, g, b, e),
         v.start = u.start, v.ch = u.ch, v.st = "on" => u.st = "on"
  PROVE  SubShape(v, g, b, e)
BY DEF SubShape

(* Subscriptions that go on or stop, and were handed nothing more. *)
LEMMA SharedStops ==
  ASSUME NEW u, NEW g, NEW v, NEW w, SharedShape(u, g, v, w),
         NEW x, NEW y, x.start = u.start, y.start = v.start, x.st = "on" => u.st = "on"
  PROVE  SharedShape(x, g, y, w)
BY DEF SharedShape

(* An object of which only the hub's end, the closing and what rebinds it     *)
(* change.                                                                    *)
LEMMA ObjEnds ==
  ASSUME NEW x, NEW y, NEW n, NEW s, NEW c, NEW g, NEW f, ObjShape(x, n, s, c, g, f),
         y.sub = x.sub, y.hist = x.hist, y.had = x.had
  PROVE  ObjShape(y, n, s, c, g, f)
BY DEF ObjShape, GotShape

(* More subscriptions. *)
LEMMA ObjMore ==
  ASSUME NEW x, NEW n \in Nat, NEW m \in Nat, n <= m, NEW s, NEW c, NEW g, NEW f, ObjShape(x, n, s, c, g, f)
  PROVE  ObjShape(x, m, s, c, g, f)
<1>1. 1..n \subseteq 1..m
  OBVIOUS
<1> QED BY <1>1 DEF ObjShape

(* Everything but the hub, the histories and what the client received may    *)
(* change: a Session opens, ends or is parked, a stream or a subscription    *)
(* ends.                                                                     *)
LEMMA QuietKeeps ==
  ASSUME StreamInv, StreamTypes', UNCHANGED <<hubVars, got, arrival>>,
         Len(subs') = Len(subs),
         \A k \in 1..Len(subs) : /\ subs'[k].start = subs[k].start /\ subs'[k].ch = subs[k].ch
                                 /\ (subs'[k].st = "on" => subs[k].st = "on"),
         Len(objs') = Len(objs),
         \A o \in 1..Len(objs) : /\ objs'[o].sub = objs[o].sub /\ objs'[o].hist = objs[o].hist
                                 /\ objs'[o].had = objs[o].had /\ objs'[o].next = objs[o].next
                                 /\ objs'[o].old \in {0, objs[o].old},
         \A o \in 1..Len(objs) : objs'[o].next # 0 \/ objs'[o].old # 0 => o = table',
         strm' = strm \/ strm' = NoStream,
         client'.last = client.last,
         strm'.obj # 0 <=> client'.pc = "attached",
         strm'.obj # 0 => strm'.obj = table',
         client'.pc \in {"subscribed", "attached"} => table' # 0 /\ objs[table'].sub # 0,
         client'.pc = "subscribing" => table' # 0
  PROVE  StreamInv'
<1>0. emitted' = emitted /\ inbound' = inbound /\ given' = given /\ got' = got /\ arrival' = arrival
  BY DEF hubVars
<1>t. Len(objs) \in Nat /\ Len(subs) \in Nat /\ table' \in 0..Len(objs)
  <2>1. objs \in Seq(EgressObjects) /\ subs \in Seq(Subscriptions) /\ table' \in 0..Len(objs)
    BY DEF StreamInv, StreamTypes
  <2> QED BY <2>1
<1>1. QueueShape(inbound', emitted')
  BY <1>0 DEF StreamInv
<1>2. SeesWhole'
  BY <1>0 DEF StreamInv, SeesWhole, NextAfter
<1>3. ASSUME NEW k \in 1..Len(subs') PROVE SubShape(subs'[k], given'[k], inbound', emitted')
  <2>1. SubShape(subs[k], given[k], inbound, emitted)
    BY DEF StreamInv, SubHolds
  <2> QED BY <1>0, <2>1, SubStops
<1>s. ASSUME NEW a \in 1..Len(subs'), NEW b \in 1..Len(subs'), a < b
      PROVE  SharedShape(subs'[a], given'[a], subs'[b], given'[b])
  <2>1. SharedShape(subs[a], given[a], subs[b], given[b])
    BY <1>s DEF StreamInv
  <2> QED BY <1>0, <2>1, SharedStops
<1>4. ASSUME NEW o \in 1..Len(objs')
      PROVE  /\ ObjHolds(o)' /\ objs'[o].sub = objs[o].sub /\ objs'[o].hist = objs[o].hist
             /\ (objs[o].sub # 0 => objs[o].sub \in 1..Len(subs) /\ subs'[objs[o].sub].ch = subs[objs[o].sub].ch)
  <2>0. objs'[o].sub = objs[o].sub /\ objs'[o].hist = objs[o].hist /\ objs'[o].had = objs[o].had
    OBVIOUS
  <2>1. CASE objs[o].sub = 0
    BY <2>0, <2>1 DEF StreamInv, ObjHolds
  <2>2. CASE objs[o].sub # 0
    <3>1. PICK k : k = objs[o].sub
      OBVIOUS
    <3>2. ObjShape(objs[o], Len(subs), subs[k].start, subs[k].ch, given[k], got)
      BY <2>2, <3>1 DEF StreamInv, ObjHolds
    <3>3. k \in 1..Len(subs)
      BY <3>1, <3>2 DEF ObjShape
    <3>4. ObjShape(objs'[o], Len(subs), subs[k].start, subs[k].ch, given[k], got)
      BY <2>0, <3>2, ObjEnds
    <3>5. ObjShape(objs'[o], Len(subs'), subs'[k].start, subs'[k].ch, given'[k], got')
      BY <1>0, <3>3, <3>4
    <3> QED BY <2>0, <2>2, <3>1, <3>3, <3>5 DEF ObjHolds
  <2> QED BY <2>1, <2>2
<1>r. ASSUME NEW o \in 1..Len(objs') PROVE RebindHolds(o)'
  <2>0. objs'[o].sub = objs[o].sub /\ objs'[o].next = objs[o].next /\ objs'[o].old \in {0, objs[o].old}
        /\ (objs'[o].next # 0 \/ objs'[o].old # 0 => o = table')
    OBVIOUS
  <2>1. /\ objs[o].old \in 0..Len(subs) /\ (objs[o].sub = 0 => objs[o].next # 0) /\ NextShape(objs[o])
        /\ objs[o].next \in 0..Len(subs)
    BY RebindFacts
  <2>2. NextShape(objs[o])'
    <3>1. SUFFICES ASSUME objs[o].next # 0 PROVE NextShape(objs[o])'
      BY <2>0 DEF NextShape
    <3>2. PICK k : k = objs[o].next
      OBVIOUS
    <3>3. /\ k = Len(subs) /\ objs[o].sub < k /\ got.sub # k /\ k \in 1..Len(subs)
          /\ HistoryShape(NewHistory, k, subs[k].start, subs[k].ch, given[k])
          /\ \A q \in 1..Len(objs) : k \notin objs[q].had
      BY <1>t, <2>1, <3>1, <3>2 DEF NextShape
    <3>4. subs'[k].start = subs[k].start /\ subs'[k].ch = subs[k].ch
      BY <3>3
    <3>5. HistoryShape(NewHistory, k, subs'[k].start, subs'[k].ch, given'[k])
      BY <1>0, <3>3, <3>4
    <3>6. \A q \in 1..Len(objs') : k \notin objs'[q].had
      BY <3>3
    <3> QED BY <1>0, <2>0, <3>2, <3>3, <3>5, <3>6 DEF NextShape
  <2>3. objs'[o].old \in 0..Len(subs')
    BY <1>t, <2>0, <2>1
  <2> QED BY <2>0, <2>1, <2>2, <2>3 DEF RebindHolds, Rebinding
<1>5. Apart'
  BY DEF StreamInv, Apart
<1>6. ClientShape'
  <2>1. client'.pc \in {"subscribed", "attached"} => table' # 0 /\ objs'[table'].sub # 0
    BY <1>t
  <2> QED BY <1>0, <2>1 DEF StreamInv, ClientShape
<1>7. StreamShape'
  <2>1. SUFFICES ASSUME strm'.obj # 0 PROVE StreamShape'
    BY DEF StreamShape
  <2>2. strm' = strm
    BY <2>1 DEF NoStream
  <2>3. PICK o : o = strm.obj
    OBVIOUS
  <2>4. o \in 1..Len(objs) /\ o # 0 /\ strm'.obj = o /\ objs[o].sub # 0
    <3>1. strm.obj \in 0..Len(objs)
      BY DEF StreamInv, StreamTypes
    <3>2. o = table /\ client.pc = "attached" /\ objs[table].sub # 0
      BY <2>1, <2>2, <2>3 DEF StreamInv, ClientShape
    <3> QED BY <1>t, <2>1, <2>2, <2>3, <3>1, <3>2
  <2>5. PICK k : k = objs[o].sub
    OBVIOUS
  <2>6. /\ ~strm.ended => AheadShape(objs[o].hist, subs[k].ch, given[k], strm.cursor, Seen(k))
        /\ Joining /\ arrival.own /\ got # NoFrame => got.sub = k
        /\ got # NoFrame /\ ~Joining => got.sub <= k
    BY <2>3, <2>4, <2>5 DEF StreamInv, StreamShape, Ahead
  <2>7. objs'[o].sub = k /\ objs'[o].hist = objs[o].hist /\ subs'[k].ch = subs[k].ch
    BY <1>4, <2>4, <2>5
  <2>8. Joining' = Joining
    BY <1>0 DEF Joining
  <2>9. Seen(k)' = Seen(k)
    BY <1>0, <2>8 DEF Seen
  <2> HIDE DEF Seen, Joining
  <2>10. Ahead(o)' <=> AheadShape(objs[o].hist, subs[k].ch, given[k], strm.cursor, Seen(k)')
    BY <1>0, <2>2, <2>7 DEF Ahead
  <2> QED BY <1>0, <2>2, <2>3, <2>4, <2>6, <2>7, <2>8, <2>9, <2>10 DEF StreamShape
<1> QED BY <1>1, <1>2, <1>3, <1>s, <1>4, <1>r, <1>5, <1>6, <1>7, Whole

(* Unsubscribe: the subscription stops, what its channel holds stays. *)
LEMMA UnsubscribedIs ==
  ASSUME StreamTypes, NEW k \in 0..Len(subs)
  PROVE  /\ Unsubscribed(k) \in Seq(Subscriptions) /\ Len(Unsubscribed(k)) = Len(subs)
         /\ \A i \in 1..Len(subs) : /\ Unsubscribed(k)[i].start = subs[i].start /\ Unsubscribed(k)[i].ch = subs[i].ch
                                    /\ (Unsubscribed(k)[i].st = "on" => subs[i].st = "on")
<1>1. subs \in Seq(Subscriptions) /\ Len(subs) \in Nat
  BY DEF StreamTypes
<1>2. CASE k = 0 \/ subs[k].st # "on"
  BY <1>1, <1>2 DEF Unsubscribed
<1>3. CASE ~(k = 0 \/ subs[k].st # "on")
  <2> DEFINE v == [subs[k] EXCEPT !.st = "left"]
  <2>1. Unsubscribed(k) = [subs EXCEPT ![k] = v]
    BY <1>3 DEF Unsubscribed
  <2>2. k \in 1..Len(subs) /\ subs[k] \in Subscriptions
    BY <1>1, <1>3
  <2>3. v \in Subscriptions /\ v.start = subs[k].start /\ v.ch = subs[k].ch /\ v.st # "on"
    BY <2>2 DEF Subscriptions
  <2> HIDE DEF v
  <2> QED BY <1>1, <2>1, <2>2, <2>3
<1> QED BY <1>2, <1>3

(* Close, of an object. *)
LEMMA ClosedIs ==
  ASSUME StreamTypes, NEW o \in 1..Len(objs)
  PROVE  /\ Closed(o) \in Seq(EgressObjects) /\ Len(Closed(o)) = Len(objs)
         /\ \A i \in 1..Len(objs) : /\ Closed(o)[i].sub = objs[i].sub /\ Closed(o)[i].hist = objs[i].hist
                                    /\ Closed(o)[i].had = objs[i].had /\ Closed(o)[i].next = objs[i].next
                                    /\ Closed(o)[i].old = objs[i].old
<1> DEFINE v == [objs[o] EXCEPT !.closing = TRUE]
<1>1. objs \in Seq(EgressObjects) /\ objs[o] \in EgressObjects
  BY DEF StreamTypes
<1>2. v \in EgressObjects /\ v.sub = objs[o].sub /\ v.hist = objs[o].hist /\ v.had = objs[o].had
             /\ v.next = objs[o].next /\ v.old = objs[o].old
  BY <1>1 DEF EgressObjects
<1>3. Closed(o) = [objs EXCEPT ![o] = v]
  BY DEF Closed
<1> HIDE DEF v
<1> QED BY <1>1, <1>2, <1>3

(* Connect: the client has a Session, and no stream yet. *)
LEMMA ConnectKeeps ==
  ASSUME StreamInv, Connect PROVE StreamInv'
<1>1. StreamTypes
  BY DEF StreamInv
<1>2. client' = [client EXCEPT !.pc = "opened"] /\ client.pc = "away"
      /\ UNCHANGED <<emitted, inbound, subs, given, objs, table, parked, strm, got, arrival>>
  BY DEF Connect, hubVars
<1>3. client'.pc = "opened" /\ client'.last = client.last
  BY <1>1, <1>2 DEF StreamTypes
<1>4. StreamTypes'
  BY <1>1, <1>2 DEF StreamTypes
<1>5. strm.obj = 0
  BY <1>2 DEF StreamInv, ClientShape
<1>r. \A i \in 1..Len(objs) : objs[i].next # 0 \/ objs[i].old # 0 => i = table
  BY RebindFacts
<1> QED BY <1>2, <1>3, <1>4, <1>5, <1>r, QuietKeeps DEF hubVars

(* The stream ends: what the client saw stays what it saw. *)
LEMMA StreamEndsKeeps ==
  ASSUME StreamInv, StreamEnds PROVE StreamInv'
<1>1. StreamTypes
  BY DEF StreamInv
<1>2. client' = [client EXCEPT !.pc = "opened"] /\ strm' = NoStream
      /\ UNCHANGED <<emitted, inbound, subs, given, objs, table, parked, got, arrival>>
  BY DEF StreamEnds, hubVars
<1>3. client'.pc = "opened" /\ client'.last = client.last /\ strm'.obj = 0
  BY <1>1, <1>2 DEF StreamTypes, NoStream
<1>4. StreamTypes'
  <2>1. strm' \in [obj : 0..Len(objs), cursor : Nat, ended : BOOLEAN]
    BY <1>1, <1>2 DEF StreamTypes, NoStream
  <2>2. client' \in [pc : {"away", "opened", "subscribing", "subscribed", "attached"}, last : Nat]
    BY <1>1, <1>2 DEF StreamTypes
  <2> QED BY <1>1, <1>2, <2>1, <2>2 DEF StreamTypes
<1>r. \A i \in 1..Len(objs) : objs[i].next # 0 \/ objs[i].old # 0 => i = table
  BY RebindFacts
<1> QED BY <1>2, <1>3, <1>4, <1>r, QuietKeeps DEF hubVars

(* The pump ends with its subscription. *)
LEMMA PumpEndsKeeps ==
  ASSUME StreamInv, NEW o \in DOMAIN objs, PumpEnds(o) PROVE StreamInv'
<1>1. StreamTypes /\ o \in 1..Len(objs)
  BY DEF StreamInv, StreamTypes
<1> DEFINE v == [objs[o] EXCEPT !.hubEnded = TRUE]
<1>2. objs' = [objs EXCEPT ![o] = v]
      /\ UNCHANGED <<emitted, inbound, subs, given, table, parked, strm, client, got, arrival>>
  BY DEF PumpEnds, hubVars, clientVars
<1>3. objs \in Seq(EgressObjects) /\ objs[o] \in EgressObjects
  BY <1>1 DEF StreamTypes
<1>4. v \in EgressObjects /\ v.sub = objs[o].sub /\ v.hist = objs[o].hist /\ v.had = objs[o].had
      /\ v.next = objs[o].next /\ v.old = objs[o].old
  BY <1>3 DEF EgressObjects
<1> HIDE DEF v
<1>5. /\ objs' \in Seq(EgressObjects) /\ Len(objs') = Len(objs)
      /\ \A i \in 1..Len(objs) : /\ objs'[i].sub = objs[i].sub /\ objs'[i].hist = objs[i].hist
                                 /\ objs'[i].had = objs[i].had /\ objs'[i].next = objs[i].next
                                 /\ objs'[i].old = objs[i].old
  BY <1>1, <1>2, <1>3, <1>4
<1>6. StreamTypes'
  BY <1>1, <1>2, <1>5 DEF StreamTypes
<1>7. /\ strm.obj # 0 <=> client.pc = "attached"
      /\ strm.obj # 0 => strm.obj = table
      /\ client.pc \in {"subscribed", "attached"} => table # 0 /\ objs[table].sub # 0
      /\ client.pc = "subscribing" => table # 0
  BY DEF StreamInv, ClientShape
<1>r. \A i \in 1..Len(objs) : objs[i].next # 0 \/ objs[i].old # 0 => i = table
  BY RebindFacts
<1> QED BY <1>2, <1>5, <1>6, <1>7, <1>r, QuietKeeps DEF hubVars

(* The parked Session is given up. *)
LEMMA UnparkKeeps ==
  ASSUME StreamInv, Unpark PROVE StreamInv'
<1>1. StreamTypes /\ parked \in 1..Len(objs)
  BY DEF StreamInv, StreamTypes, Unpark
<1>2. objs' = Closed(parked) /\ subs' = Unsubscribed(objs[parked].sub) /\ parked' = 0
      /\ UNCHANGED <<emitted, inbound, given, table, strm, client, got, arrival>>
  BY DEF Unpark, hubVars, clientVars
<1>3. objs[parked].sub \in 0..Len(subs)
  BY <1>1, RebindFacts
<1>4. /\ objs' \in Seq(EgressObjects) /\ Len(objs') = Len(objs)
      /\ \A i \in 1..Len(objs) : /\ objs'[i].sub = objs[i].sub /\ objs'[i].hist = objs[i].hist
                                 /\ objs'[i].had = objs[i].had /\ objs'[i].next = objs[i].next
                                 /\ objs'[i].old = objs[i].old
  BY <1>1, <1>2, ClosedIs
<1>5. /\ subs' \in Seq(Subscriptions) /\ Len(subs') = Len(subs)
      /\ \A i \in 1..Len(subs) : /\ subs'[i].start = subs[i].start /\ subs'[i].ch = subs[i].ch
                                 /\ (subs'[i].st = "on" => subs[i].st = "on")
  BY <1>1, <1>2, <1>3, UnsubscribedIs
<1>6. StreamTypes'
  BY <1>1, <1>2, <1>4, <1>5 DEF StreamTypes
<1>7. /\ strm.obj # 0 <=> client.pc = "attached"
      /\ strm.obj # 0 => strm.obj = table
      /\ client.pc \in {"subscribed", "attached"} => table # 0 /\ objs[table].sub # 0
      /\ client.pc = "subscribing" => table # 0
  BY DEF StreamInv, ClientShape
<1>r. \A i \in 1..Len(objs) : objs[i].next # 0 \/ objs[i].old # 0 => i = table
  BY RebindFacts
<1> QED BY <1>2, <1>4, <1>5, <1>6, <1>7, <1>r, QuietKeeps DEF hubVars

(* The connection is lost: the Session is parked with its history. *)
LEMMA ConnectionLostKeeps ==
  ASSUME StreamInv, ConnectionLost PROVE StreamInv'
<1>1. StreamTypes
  BY DEF StreamInv
<1>2. client' = [client EXCEPT !.pc = "away"] /\ strm' = NoStream /\ table' = 0
      /\ UNCHANGED <<emitted, inbound, given, got, arrival>>
  BY DEF ConnectionLost, hubVars
<1>3. client'.pc = "away" /\ client'.last = client.last /\ strm'.obj = 0
      /\ client' \in [pc : {"away", "opened", "subscribing", "subscribed", "attached"}, last : Nat]
  BY <1>1, <1>2 DEF StreamTypes, NoStream
<1>4. parked' \in 0..Len(objs)
  BY <1>1 DEF ConnectionLost, StreamTypes
<1>5. /\ objs' \in Seq(EgressObjects) /\ Len(objs') = Len(objs)
      /\ \A i \in 1..Len(objs) : /\ objs'[i].sub = objs[i].sub /\ objs'[i].hist = objs[i].hist
                                 /\ objs'[i].had = objs[i].had /\ objs'[i].next = objs[i].next
                                 /\ objs'[i].old = objs[i].old
      /\ subs' \in Seq(Subscriptions) /\ Len(subs') = Len(subs)
      /\ \A i \in 1..Len(subs) : /\ subs'[i].start = subs[i].start /\ subs'[i].ch = subs[i].ch
                                 /\ (subs'[i].st = "on" => subs[i].st = "on")
  <2>1. CASE table # 0 /\ parked # 0
    <3>1. parked \in 1..Len(objs)
      BY <1>1, <2>1 DEF StreamTypes
    <3>2. objs[parked].sub \in 0..Len(subs)
      BY <3>1, RebindFacts
    <3>3. objs' = Closed(parked) /\ subs' = Unsubscribed(objs[parked].sub)
      BY <2>1 DEF ConnectionLost
    <3> QED BY <1>1, <3>1, <3>2, <3>3, ClosedIs, UnsubscribedIs
  <2>2. CASE ~(table # 0 /\ parked # 0)
    <3>1. objs' = objs /\ subs' = subs
      BY <2>2 DEF ConnectionLost
    <3> QED BY <1>1, <3>1 DEF StreamTypes
  <2> QED BY <2>1, <2>2
<1>6. StreamTypes'
  <2>1. strm' \in [obj : 0..Len(objs'), cursor : Nat, ended : BOOLEAN] /\ table' \in 0..Len(objs')
    BY <1>1, <1>2, <1>5 DEF StreamTypes, NoStream
  <2> QED BY <1>1, <1>2, <1>3, <1>4, <1>5, <2>1 DEF StreamTypes
<1>r. \A i \in 1..Len(objs) : ~(objs[i].next # 0 \/ objs[i].old # 0)
  <2> SUFFICES ASSUME NEW i \in 1..Len(objs), objs[i].next # 0 \/ objs[i].old # 0 PROVE FALSE
    OBVIOUS
  <2>1. i = table /\ i # 0
    BY RebindFacts
  <2> QED BY <2>1 DEF ConnectionLost, RebindFree, Rebinding
<1> QED BY <1>2, <1>3, <1>5, <1>6, <1>r, QuietKeeps DEF hubVars

(* A step that leaves the stream as it is. *)
LEMMA StutterKeeps ==
  ASSUME StreamInv, UNCHANGED streamVars PROVE StreamInv'
<1>1. UNCHANGED <<emitted, inbound, subs, given, objs, table, parked, strm, client, got, arrival>>
  BY DEF streamVars
<1>2. StreamTypes'
  BY <1>1 DEF StreamInv, StreamTypes
<1>3. /\ strm.obj # 0 <=> client.pc = "attached"
      /\ strm.obj # 0 => strm.obj = table
      /\ client.pc \in {"subscribed", "attached"} => table # 0 /\ objs[table].sub # 0
      /\ client.pc = "subscribing" => table # 0
  BY DEF StreamInv, ClientShape
<1>r. \A i \in 1..Len(objs) : objs[i].next # 0 \/ objs[i].old # 0 => i = table
  BY RebindFacts
<1> QED BY <1>1, <1>2, <1>3, <1>r, QuietKeeps DEF hubVars

(* Publish: the new Event is later than every one, and may not be queued. *)
LEMMA PublishKeeps ==
  ASSUME StreamInv, Publish PROVE StreamInv'
<1>1. StreamTypes
  BY DEF StreamInv
<1>2. /\ emitted < MaxEvents /\ emitted' = emitted + 1
      /\ inbound' = IF Len(inbound) < Inbound THEN Append(inbound, emitted + 1) ELSE inbound
      /\ UNCHANGED <<subs, given, objs, table, parked, strm, client, got, arrival>>
  BY DEF Publish, clientVars
<1>3. emitted \in Nat /\ MaxEvents \in Nat /\ inbound \in Seq(Nat) /\ Len(inbound) \in Nat /\ Len(inbound) <= Inbound
      /\ Inbound \in Nat /\ emitted' \in 0..MaxEvents
  <2>1. emitted \in Nat /\ MaxEvents \in Nat /\ emitted <= MaxEvents
    BY <1>1, StreamAssumption DEF StreamTypes
  <2>2. inbound \in Seq(Nat) /\ Len(inbound) <= Inbound /\ Inbound \in Nat
    BY <1>1, StreamAssumption DEF StreamTypes
  <2>3. Len(inbound) \in Nat
    BY <2>2
  <2> QED BY <1>2, <2>1, <2>2, <2>3
<1> DEFINE b == inbound'
<1>4. /\ b \in Seq(Nat) /\ Len(b) \in Nat /\ Len(b) <= Inbound
      /\ \A p \in 1..Len(b) : \/ p \in 1..Len(inbound) /\ b[p] = inbound[p]
                              \/ p > Len(inbound) /\ p = Len(b) /\ b[p] = emitted + 1
  <2>1. CASE Len(inbound) < Inbound
    <3>1. b = Append(inbound, emitted + 1)
      BY <1>2, <2>1
    <3> QED BY <1>3, <2>1, <3>1
  <2>2. CASE ~(Len(inbound) < Inbound)
    BY <1>2, <1>3, <2>2
  <2> QED BY <2>1, <2>2
<1> HIDE DEF b
<1>5. StreamTypes'
  BY <1>1, <1>2, <1>3, <1>4 DEF StreamTypes, b
<1>6. \A p \in 1..Len(inbound) : inbound[p] \in Nat /\ 1 <= inbound[p] /\ inbound[p] <= emitted
  BY <1>3 DEF StreamInv, QueueShape
<1>7. \A p, q \in 1..Len(inbound) : p < q => inbound[p] < inbound[q]
  BY DEF StreamInv, QueueShape
<1>8. QueueShape(b, emitted')
  <2>1. ASSUME NEW p \in 1..Len(b) PROVE 1 <= b[p] /\ b[p] <= emitted'
    <3>1. CASE p \in 1..Len(inbound) /\ b[p] = inbound[p]
      BY <1>2, <1>3, <1>6, <3>1
    <3>2. CASE b[p] = emitted + 1
      BY <1>2, <1>3, <3>2
    <3> QED BY <1>4, <3>1, <3>2
  <2>2. ASSUME NEW p \in 1..Len(b), NEW q \in 1..Len(b), p < q PROVE b[p] < b[q]
    <3>1. p \in 1..Len(inbound) /\ b[p] = inbound[p]
      BY <1>3, <1>4, <2>2
    <3> QED BY <1>3, <1>4, <1>6, <1>7, <2>2, <3>1, SMTT(40)
  <2> QED BY <2>1, <2>2 DEF QueueShape
<1>9. ASSUME NEW k \in 1..Len(subs) PROVE SubShape(subs[k], given[k], b, emitted')
  <2>1. SubShape(subs[k], given[k], inbound, emitted)
    BY DEF StreamInv, SubHolds
  <2>2. subs[k] \in Subscriptions /\ given[k] \in SUBSET Nat
    BY <1>1 DEF StreamTypes
  <2>3. subs[k].start \in Nat
    BY <2>2 DEF Subscriptions
  <2>4. \A x \in given[k] : x <= emitted' /\ \A p \in 1..Len(b) : x < b[p]
    <3>1. \A x \in given[k] : x \in Nat /\ x <= emitted /\ \A p \in 1..Len(inbound) : x < inbound[p]
      BY <2>1, <2>2 DEF SubShape
    <3>2. ASSUME NEW x \in given[k] PROVE x <= emitted'
      BY <1>2, <1>3, <3>1
    <3>3. ASSUME NEW x \in given[k], NEW p \in 1..Len(b) PROVE x < b[p]
      <4>1. CASE p \in 1..Len(inbound) /\ b[p] = inbound[p]
        BY <3>1, <4>1
      <4>2. CASE b[p] = emitted + 1
        BY <1>3, <3>1, <4>2
      <4> QED BY <1>4, <4>1, <4>2
    <3> QED BY <3>2, <3>3
  <2>5. subs[k].start <= emitted' + 1
    BY <1>2, <1>3, <2>1, <2>3 DEF SubShape
  <2> QED BY <2>1, <2>4, <2>5 DEF SubShape
<1>10. SeesWhole' /\ ClientShape' /\ StreamShape'
  <2>1. SeesWhole' /\ ClientShape'
    BY <1>2 DEF StreamInv, SeesWhole, NextAfter, ClientShape
  <2>2. StreamShape'
    BY <1>2 DEF StreamInv, StreamShape, Ahead, Seen, Joining
  <2> QED BY <2>1, <2>2
<1>11. \A o \in 1..Len(objs') : ObjHolds(o)'
  BY <1>2 DEF StreamInv, ObjHolds
<1>12. \A o \in 1..Len(objs') : RebindHolds(o)'
  BY <1>2 DEF StreamInv, RebindHolds, Rebinding, NextShape
<1>13. \A x, y \in 1..Len(subs') : x < y => SharedShape(subs'[x], given'[x], subs'[y], given'[y])
  BY <1>2 DEF StreamInv
<1>14. Apart'
  BY <1>2 DEF StreamInv, Apart
<1>15. \A k \in 1..Len(subs') : SubShape(subs'[k], given'[k], inbound', emitted')
  BY <1>2, <1>9 DEF b
<1>16. QueueShape(inbound', emitted')
  BY <1>8 DEF b
<1> QED BY <1>5, <1>10, <1>11, <1>12, <1>13, <1>14, <1>15, <1>16, Whole

(* Egress.session returns: the object has the subscription it made. *)
LEMMA ResubscribedKeeps ==
  ASSUME StreamInv, Resubscribed PROVE StreamInv'
<1>1. StreamTypes
  BY DEF StreamInv
<1>2. /\ client.pc = "subscribing" /\ client' = [client EXCEPT !.pc = "subscribed"]
      /\ UNCHANGED <<emitted, inbound, subs, given, objs, table, parked, strm, got, arrival>>
  BY DEF Resubscribed, hubVars
<1>3. client'.pc = "subscribed" /\ client'.last = client.last
  BY <1>1, <1>2 DEF StreamTypes
<1>4. StreamTypes'
  BY <1>1, <1>2 DEF StreamTypes
<1>5. strm.obj = 0 /\ table # 0
  BY <1>2 DEF StreamInv, ClientShape
<1>6. table \in 1..Len(objs)
  <2>1. table \in 0..Len(objs) /\ objs \in Seq(EgressObjects)
    BY <1>1 DEF StreamTypes
  <2> QED BY <1>5, <2>1
<1>7. objs[table].sub # 0
  <2>1. objs[table].next = 0
    BY <1>5 DEF Resubscribed, RebindFree, Rebinding
  <2> QED BY <1>6, <2>1, RebindFacts
<1>r. \A i \in 1..Len(objs) : objs[i].next # 0 \/ objs[i].old # 0 => i = table
  BY RebindFacts
<1> QED BY <1>2, <1>3, <1>4, <1>5, <1>7, <1>r, QuietKeeps DEF hubVars

(* The replaced subscription is let go. *)
LEMMA LetGoKeeps ==
  ASSUME StreamInv, NEW o \in DOMAIN objs, LetGo(o) PROVE StreamInv'
<1>1. StreamTypes /\ o \in 1..Len(objs)
  BY DEF StreamInv, StreamTypes
<1> DEFINE v == [objs[o] EXCEPT !.old = 0]
<1>2. objs' = [objs EXCEPT ![o] = v] /\ subs' = Unsubscribed(objs[o].old)
      /\ UNCHANGED <<emitted, inbound, given, table, parked, strm, client, got, arrival>>
  BY DEF LetGo, hubVars, clientVars
<1>3. objs \in Seq(EgressObjects) /\ objs[o] \in EgressObjects /\ objs[o].old \in 0..Len(subs)
  BY <1>1, RebindFacts DEF StreamTypes
<1>4. v \in EgressObjects /\ v.sub = objs[o].sub /\ v.hist = objs[o].hist /\ v.had = objs[o].had
      /\ v.next = objs[o].next /\ v.old = 0
  BY <1>3 DEF EgressObjects
<1> HIDE DEF v
<1>5. /\ objs' \in Seq(EgressObjects) /\ Len(objs') = Len(objs)
      /\ \A i \in 1..Len(objs) : /\ objs'[i].sub = objs[i].sub /\ objs'[i].hist = objs[i].hist
                                 /\ objs'[i].had = objs[i].had /\ objs'[i].next = objs[i].next
                                 /\ objs'[i].old \in {0, objs[i].old}
  BY <1>1, <1>2, <1>3, <1>4
<1>6. /\ subs' \in Seq(Subscriptions) /\ Len(subs') = Len(subs)
      /\ \A i \in 1..Len(subs) : /\ subs'[i].start = subs[i].start /\ subs'[i].ch = subs[i].ch
                                 /\ (subs'[i].st = "on" => subs[i].st = "on")
  BY <1>1, <1>2, <1>3, UnsubscribedIs
<1>7. StreamTypes'
  BY <1>1, <1>2, <1>5, <1>6 DEF StreamTypes
<1>8. /\ strm.obj # 0 <=> client.pc = "attached"
      /\ strm.obj # 0 => strm.obj = table
      /\ client.pc \in {"subscribed", "attached"} => table # 0 /\ objs[table].sub # 0
      /\ client.pc = "subscribing" => table # 0
  BY DEF StreamInv, ClientShape
<1>r. \A i \in 1..Len(objs) : objs'[i].next # 0 \/ objs'[i].old # 0 => i = table
  <2> SUFFICES ASSUME NEW i \in 1..Len(objs), objs'[i].next # 0 \/ objs'[i].old # 0 PROVE i = table
    OBVIOUS
  <2>1. objs[i].next # 0 \/ objs[i].old # 0
    BY <1>5
  <2> QED BY <2>1, RebindFacts
<1> QED BY <1>2, <1>5, <1>6, <1>7, <1>8, <1>r, QuietKeeps DEF hubVars

(* How a subscription takes the Event e from the hub: not at all, or behind  *)
(* what its channel holds, or as the frame that says it was dropped.         *)
TakesEvent(u, g, v, w, e) ==
  /\ v \in Subscriptions /\ w \in SUBSET Nat /\ v.start = u.start
  /\ \/ v.ch = u.ch /\ w = g
     \/ v.ch = Append(u.ch, e) /\ w = g \cup {e}
     \/ v.ch = Append(u.ch, 0) /\ w = g

(* deliver, of the first Event in the queue b, to one subscription. *)
LEMMA DeliverSub ==
  ASSUME NEW u \in Subscriptions, NEW g \in SUBSET Nat, NEW b \in Seq(Nat), b # <<>>, NEW e \in Nat,
         QueueShape(b, e), SubShape(u, g, b, e), NEW v, NEW w,
         LET handed == u.st = "on" /\ Head(b) >= u.start
         IN v = (IF handed THEN Push(u, Head(b)) ELSE u)
            /\ w = (IF handed /\ v.st = "on" THEN g \cup {Head(b)} ELSE g)
  PROVE  TakesEvent(u, g, v, w, Head(b)) /\ SubShape(v, w, Tail(b), e)
<1> DEFINE d == Head(b)
           t == Tail(b)
           handed == u.st = "on" /\ d >= u.start
<1>1. /\ d = b[1] /\ d \in Nat /\ Len(b) \in Nat /\ Len(b) >= 1 /\ t \in Seq(Nat) /\ Len(t) = Len(b) - 1
      /\ 1 \in 1..Len(b) /\ \A p \in 1..Len(t) : t[p] = b[p + 1] /\ p + 1 \in 1..Len(b) /\ 1 < p + 1 /\ b[p + 1] \in Nat
  OBVIOUS
<1> HIDE DEF d, t
<1>2. 1 <= d /\ d <= e /\ \A p \in 1..Len(t) : d < t[p]
  BY <1>1 DEF QueueShape
<1>3. u.start \in Nat /\ u.ch \in Seq(Nat) /\ Len(u.ch) \in Nat /\ HubBuffer \in Nat /\ HubBuffer >= 1
      /\ \A p \in 1..Len(u.ch) : u.ch[p] \in Nat
  <2>1. u.start \in Nat /\ u.ch \in Seq(Nat)
    BY DEF Subscriptions
  <2>2. HubBuffer \in Nat /\ HubBuffer >= 1
    BY StreamAssumption
  <2> QED BY <2>1, <2>2
<1>4. /\ 1 <= u.start /\ u.start <= e + 1
      /\ \A x \in g : u.start <= x /\ x <= e /\ x < d /\ \A p \in 1..Len(t) : x < t[p]
      /\ \A p \in 1..Len(u.ch) : u.ch[p] = 0 \/ u.ch[p] \in g
      /\ \A p, q \in 1..Len(u.ch) : p < q /\ u.ch[p] # 0 /\ u.ch[q] # 0 => u.ch[p] < u.ch[q]
      /\ Len(u.ch) <= HubBuffer + 1 /\ (u.st = "on" => Len(u.ch) <= HubBuffer)
  BY <1>1 DEF SubShape
<1>5. CASE ~handed
  <2>1. v = u /\ w = g
    BY <1>5 DEF d
  <2> QED BY <1>4, <2>1 DEF TakesEvent, SubShape, d, t
<1>6. CASE handed /\ Len(u.ch) >= HubBuffer
  <2> DEFINE z == Append(u.ch, 0)
  <2>1. z \in Seq(Nat) /\ Len(z) = Len(u.ch) + 1 /\ z[Len(z)] = 0 /\ \A p \in 1..Len(u.ch) : z[p] = u.ch[p]
    BY <1>3
  <2>2. Push(u, d) = [u EXCEPT !.st = "dropped", !.ch = z]
    BY <1>6 DEF Push, Dropped0
  <2> HIDE DEF z
  <2>3. Push(u, d) \in Subscriptions /\ Push(u, d).start = u.start /\ Push(u, d).ch = z /\ Push(u, d).st = "dropped"
    BY <2>1, <2>2 DEF Subscriptions
  <2>4. v = Push(u, d) /\ w = g
    BY <1>6, <2>3 DEF d
  <2>5. ASSUME NEW p \in 1..Len(z) PROVE (p \in 1..Len(u.ch) /\ z[p] = u.ch[p]) \/ (p = Len(z) /\ z[p] = 0)
    <3>1. p \in 1..Len(u.ch) \/ p = Len(z)
      BY <1>3, <2>1
    <3> QED BY <2>1, <3>1
  <2>6. Len(z) = HubBuffer + 1
    BY <1>3, <1>4, <1>6, <2>1
  <2>7. SubShape(v, w, t, e)
    <3>1. \A p \in 1..Len(z) : z[p] = 0 \/ z[p] \in g
      BY <1>4, <2>5
    <3>2. \A p, q \in 1..Len(z) : p < q /\ z[p] # 0 /\ z[q] # 0 => z[p] < z[q]
      BY <1>4, <2>5
    <3> QED BY <1>4, <2>3, <2>4, <2>6, <3>1, <3>2, SMTT(40) DEF SubShape
  <2>8. TakesEvent(u, g, v, w, d)
    BY <2>3, <2>4 DEF TakesEvent, z
  <2> QED BY <2>7, <2>8 DEF d, t
<1>7. CASE handed /\ ~(Len(u.ch) >= HubBuffer)
  <2> DEFINE z == Append(u.ch, d)
  <2>1. z \in Seq(Nat) /\ Len(z) = Len(u.ch) + 1 /\ z[Len(z)] = d /\ \A p \in 1..Len(u.ch) : z[p] = u.ch[p]
    BY <1>1, <1>3
  <2>2. Push(u, d) = [u EXCEPT !.ch = z]
    BY <1>7 DEF Push
  <2> HIDE DEF z
  <2>3. Push(u, d) \in Subscriptions /\ Push(u, d).start = u.start /\ Push(u, d).ch = z /\ Push(u, d).st = "on"
    BY <1>7, <2>1, <2>2 DEF Subscriptions
  <2>4. v = Push(u, d) /\ w = g \cup {d}
    BY <1>7, <2>3 DEF d
  <2>5. ASSUME NEW p \in 1..Len(z) PROVE (p \in 1..Len(u.ch) /\ z[p] = u.ch[p]) \/ (p = Len(z) /\ z[p] = d)
    <3>1. p \in 1..Len(u.ch) \/ p = Len(z)
      BY <1>3, <2>1
    <3> QED BY <2>1, <3>1
  <2>6. Len(z) <= HubBuffer
    BY <1>3, <1>7, <2>1
  <2>7. SubShape(v, w, t, e)
    <3>1. \A p \in 1..Len(z) : z[p] = 0 \/ z[p] \in w
      BY <1>4, <2>4, <2>5
    <3>2. ASSUME NEW p \in 1..Len(z), NEW q \in 1..Len(z), p < q, z[p] # 0, z[q] # 0 PROVE z[p] < z[q]
      <4>1. p \in 1..Len(u.ch) /\ z[p] = u.ch[p]
        <5>1. Len(z) \in Nat /\ p \in 1..Len(z) /\ q \in 1..Len(z) /\ p < q
          BY <1>3, <2>1, <3>2
        <5>2. p # Len(z)
          BY <5>1
        <5> QED BY <2>5, <5>1, <5>2
      <4>2. CASE q \in 1..Len(u.ch) /\ z[q] = u.ch[q]
        BY <1>4, <3>2, <4>1, <4>2
      <4>3. CASE z[q] = d
        BY <1>4, <3>2, <4>1, <4>3
      <4> QED BY <2>5, <4>2, <4>3
    <3>3. \A x \in w : u.start <= x /\ x <= e /\ \A p \in 1..Len(t) : x < t[p]
      BY <1>2, <1>4, <1>7, <2>4
    <3>4. Len(z) <= HubBuffer + 1
      BY <1>3, <2>1, <2>6
    <3> QED BY <1>4, <2>3, <2>4, <2>6, <3>1, <3>2, <3>3, <3>4 DEF SubShape
  <2>8. TakesEvent(u, g, v, w, d)
    BY <1>1, <2>3, <2>4 DEF TakesEvent, z
  <2> QED BY <2>7, <2>8 DEF d, t
<1> QED BY <1>5, <1>6, <1>7

(* A history, whatever its subscription takes. *)
LEMMA TakesHistory ==
  ASSUME NEW u \in Subscriptions, NEW g \in SUBSET Nat, NEW v, NEW w, NEW e \in Nat, TakesEvent(u, g, v, w, e),
         NEW h \in Histories, NEW k, \A x \in g : x < e, e # 0, HistoryShape(h, k, u.start, u.ch, g)
  PROVE  HistoryShape(h, k, v.start, v.ch, w)
<1>1. u.start \in Nat /\ u.ch \in Seq(Nat)
  BY DEF Subscriptions
<1>2. v.start = u.start
  BY DEF TakesEvent
<1> DEFINE s == u.start
           c == u.ch
<1>3. s \in Nat /\ c \in Seq(Nat) /\ HistoryShape(h, k, s, c, g)
  BY <1>1
<1>4. \/ v.ch = c /\ w = g
      \/ v.ch = Append(c, e) /\ w = g \cup {e}
      \/ v.ch = Append(c, 0) /\ w = g
  BY DEF TakesEvent
<1> HIDE DEF s, c
<1>5. HistoryShape(h, k, s, Append(c, e), g \cup {e}) /\ HistoryShape(h, k, s, Append(c, 0), g)
  BY <1>3, HistoryTakes
<1>6. HistoryShape(h, k, s, v.ch, w)
  BY <1>3, <1>4, <1>5
<1> QED BY <1>2, <1>6 DEF s

(* ... and what is ahead of a stream. *)
LEMMA TakesAhead ==
  ASSUME NEW u \in Subscriptions, NEW g \in SUBSET Nat, NEW v, NEW w, NEW e \in Nat, TakesEvent(u, g, v, w, e),
         NEW h \in Histories, NEW cursor \in Nat, NEW f \in Frames, f # NoFrame => f.id < e,
         AheadShape(h, u.ch, g, cursor, f)
  PROVE  AheadShape(h, v.ch, w, cursor, f)
<1> DEFINE c == u.ch
<1>3. c \in Seq(Nat) /\ AheadShape(h, c, g, cursor, f)
  BY DEF Subscriptions
<1>4. \/ v.ch = c /\ w = g
      \/ v.ch = Append(c, e) /\ w = g \cup {e}
      \/ v.ch = Append(c, 0) /\ w = g
  BY DEF TakesEvent
<1> HIDE DEF c
<1>5. AheadShape(h, Append(c, e), g \cup {e}, cursor, f) /\ AheadShape(h, Append(c, 0), g, cursor, f)
  BY <1>3, AheadTakes
<1> QED BY <1>3, <1>4, <1>5

(* The Event e, newer than all it was handed, is offered to the subscription u, *)
(* which becomes x, ...                                                         *)
OfferedTo(u, g, x, h, e) ==
  /\ u \in Subscriptions /\ g \in SUBSET Nat /\ \A q \in g : q < e
  /\ x = (IF u.st = "on" /\ e >= u.start THEN Push(u, e) ELSE u)
  /\ h = (IF u.st = "on" /\ e >= u.start /\ x.st = "on" THEN g \cup {e} ELSE g)

(* ... and to another, of which only what it is handed matters. *)
MayTake(v, w, y, z, e) ==
  /\ v \in Subscriptions /\ w \in SUBSET Nat /\ \A q \in w : q < e
  /\ y.start = v.start /\ (z = w \/ (z = w \cup {e} /\ e >= v.start))

(* Two subscriptions, of which the first began no later, take the Event e. *)
LEMMA DeliverShared ==
  ASSUME NEW e \in Nat, NEW u, NEW g, NEW x, NEW h, NEW v, NEW w, NEW y, NEW z,
         OfferedTo(u, g, x, h, e), MayTake(v, w, y, z, e), SharedShape(u, g, v, w)
  PROVE  SharedShape(x, h, y, z)
<1>0. /\ u \in Subscriptions /\ g \in SUBSET Nat /\ v \in Subscriptions /\ w \in SUBSET Nat
      /\ (\A q \in g : q < e) /\ (\A q \in w : q < e)
      /\ x = (IF u.st = "on" /\ e >= u.start THEN Push(u, e) ELSE u)
      /\ h = (IF u.st = "on" /\ e >= u.start /\ x.st = "on" THEN g \cup {e} ELSE g)
      /\ y.start = v.start /\ (z = w \/ (z = w \cup {e} /\ e >= v.start))
  BY DEF OfferedTo, MayTake
<1>1. u.start \in Nat /\ v.start \in Nat /\ u.start <= v.start
  BY <1>0 DEF Subscriptions, SharedShape
<1>2. x.start = u.start /\ (x.st = "on" => u.st = "on")
  <2>1. Push(u, e).start = u.start
    BY <1>0 DEF Push, Subscriptions
  <2> QED BY <1>0, <2>1
<1>3. ASSUME NEW q \in w, x.st = "on" \/ \E r \in h : q <= r PROVE q \in h
  <2>1. g \subseteq h /\ h \subseteq g \cup {e} /\ (e \in h => e \in g \/ u.st = "on")
    BY <1>0
  <2>2. u.st = "on" \/ \E r \in g : q <= r
    BY <1>0, <1>2, <1>3, <2>1
  <2>3. q \in g
    BY <1>3, <2>2 DEF SharedShape
  <2> QED BY <2>1, <2>3
<1>4. ASSUME e >= v.start, x.st = "on" \/ \E r \in h : e <= r PROVE e \in h
  <2>1. e >= u.start
    BY <1>0, <1>1, <1>4
  <2>2. CASE x.st = "on"
    BY <1>0, <1>2, <2>1, <2>2
  <2>3. ASSUME NEW r \in h, e <= r PROVE e \in h
    <3>1. r \in g \/ r = e
      BY <1>0, <2>3
    <3>2. ~(r \in g)
      <4>1. r \in g => r < e /\ r \in Nat
        BY <1>0
      <4> QED BY <2>3, <4>1
    <3> QED BY <2>3, <3>1, <3>2
  <2> QED BY <1>4, <2>2, <2>3
<1> QED BY <1>0, <1>1, <1>2, <1>3, <1>4 DEF SharedShape

(* Deliver: every subscription that is on takes the Event. *)
LEMMA DeliverKeeps ==
  ASSUME StreamInv, Deliver PROVE StreamInv'
<1>1. StreamTypes
  BY DEF StreamInv
<1>2. PICK e : e = Head(inbound)
  OBVIOUS
<1>3. /\ inbound # <<>> /\ inbound' = Tail(inbound)
      /\ subs' = [k \in DOMAIN subs |-> IF Handed(k, e) THEN Push(subs[k], e) ELSE subs[k]]
      /\ given' = [k \in DOMAIN given |-> IF Handed(k, e) /\ subs'[k].st = "on" THEN given[k] \cup {e} ELSE given[k]]
      /\ UNCHANGED <<emitted, objs, table, parked, strm, client, got, arrival>>
  BY <1>2 DEF Deliver, clientVars
<1>4. subs \in Seq(Subscriptions) /\ given \in Seq(SUBSET Nat) /\ Len(given) = Len(subs) /\ Len(subs) \in Nat
      /\ DOMAIN subs = 1..Len(subs) /\ DOMAIN given = 1..Len(subs)
  <2>1. subs \in Seq(Subscriptions) /\ given \in Seq(SUBSET Nat) /\ Len(given) = Len(subs)
    BY <1>1 DEF StreamTypes
  <2> QED BY <2>1
<1>5. inbound \in Seq(Nat) /\ emitted \in Nat /\ Inbound \in Nat /\ Len(inbound) <= Inbound
  <2>1. inbound \in Seq(Nat) /\ Len(inbound) <= Inbound /\ emitted \in 0..MaxEvents /\ MaxEvents \in Nat
    BY <1>1, StreamAssumption DEF StreamTypes
  <2> QED BY <2>1, StreamAssumption
<1>6. /\ e = inbound[1] /\ e \in Nat /\ 1 \in 1..Len(inbound) /\ Tail(inbound) \in Seq(Nat)
      /\ Len(Tail(inbound)) = Len(inbound) - 1 /\ Len(Tail(inbound)) \in Nat
      /\ \A p \in 1..Len(Tail(inbound)) : Tail(inbound)[p] = inbound[p + 1] /\ p + 1 \in 1..Len(inbound)
  BY <1>2, <1>3, <1>5
<1>7. QueueShape(inbound, emitted) /\ 1 <= e
  BY <1>6 DEF StreamInv, QueueShape
<1>8. QueueShape(inbound', emitted')
  <2>1. \A p, q \in 1..Len(Tail(inbound)) : p < q => p + 1 < q + 1
    OBVIOUS
  <2> QED BY <1>3, <1>6, <1>7, <2>1 DEF QueueShape
<1>9. ASSUME NEW k \in 1..Len(subs)
      PROVE  /\ TakesEvent(subs[k], given[k], subs'[k], given'[k], e) /\ SubShape(subs'[k], given'[k], inbound', emitted')
             /\ subs[k] \in Subscriptions /\ given[k] \in SUBSET Nat /\ \A x \in given[k] : x < e
  <2>1. SubShape(subs[k], given[k], inbound, emitted) /\ subs[k] \in Subscriptions /\ given[k] \in SUBSET Nat
    BY <1>4 DEF StreamInv, SubHolds
  <2>2. /\ subs'[k] = IF Handed(k, e) THEN Push(subs[k], e) ELSE subs[k]
        /\ given'[k] = IF Handed(k, e) /\ subs'[k].st = "on" THEN given[k] \cup {e} ELSE given[k]
        /\ Handed(k, e) <=> (subs[k].st = "on" /\ e >= subs[k].start)
    BY <1>3, <1>4 DEF Handed
  <2>3. TakesEvent(subs[k], given[k], subs'[k], given'[k], e) /\ SubShape(subs'[k], given'[k], Tail(inbound), emitted)
    BY <1>2, <1>3, <1>5, <1>7, <2>1, <2>2, DeliverSub, ZenonT(40)
  <2>4. \A x \in given[k] : x < e
    BY <1>6, <2>1 DEF SubShape
  <2> QED BY <1>3, <2>1, <2>3, <2>4
<1>10. subs' \in Seq(Subscriptions) /\ given' \in Seq(SUBSET Nat) /\ Len(subs') = Len(subs) /\ Len(given') = Len(subs)
  <2>1. \A k \in 1..Len(subs) : subs'[k] \in Subscriptions /\ given'[k] \in SUBSET Nat
    BY <1>9 DEF TakesEvent
  <2>2. DOMAIN subs' = 1..Len(subs) /\ DOMAIN given' = 1..Len(subs)
    BY <1>3, <1>4
  <2>3. subs' = [k \in DOMAIN subs' |-> subs'[k]] /\ given' = [k \in DOMAIN given' |-> given'[k]]
    BY <1>3, Zenon
  <2>4. subs' \in [1..Len(subs) -> Subscriptions] /\ given' \in [1..Len(subs) -> SUBSET Nat]
    BY <2>1, <2>2, <2>3, Zenon
  <2> QED BY <1>4, <2>4, FunctionIsSeq
<1>11. StreamTypes'
  <2>1. inbound' \in Seq(Nat) /\ Len(inbound') <= Inbound
    BY <1>3, <1>5, <1>6
  <2> QED BY <1>1, <1>3, <1>10, <2>1 DEF StreamTypes
<1>s. ASSUME NEW a \in 1..Len(subs'), NEW b \in 1..Len(subs'), a < b
      PROVE  SharedShape(subs'[a], given'[a], subs'[b], given'[b])
  <2>1. a \in 1..Len(subs) /\ b \in 1..Len(subs)
    BY <1>10
  <2>2. SharedShape(subs[a], given[a], subs[b], given[b])
    BY <1>s, <2>1 DEF StreamInv
  <2>3. /\ subs'[a] = (IF subs[a].st = "on" /\ e >= subs[a].start THEN Push(subs[a], e) ELSE subs[a])
        /\ given'[a] = (IF subs[a].st = "on" /\ e >= subs[a].start /\ subs'[a].st = "on"
                        THEN given[a] \cup {e} ELSE given[a])
    BY <1>3, <1>4, <2>1 DEF Handed
  <2>4. subs'[b].start = subs[b].start
    BY <1>9, <2>1 DEF TakesEvent
  <2>5. given'[b] = given[b] \/ (given'[b] = given[b] \cup {e} /\ e >= subs[b].start)
    BY <1>3, <1>4, <2>1 DEF Handed
  <2>6. /\ subs[a] \in Subscriptions /\ given[a] \in SUBSET Nat /\ \A x \in given[a] : x < e
        /\ subs[b] \in Subscriptions /\ given[b] \in SUBSET Nat /\ \A x \in given[b] : x < e
    BY <1>9, <2>1
  <2>7. OfferedTo(subs[a], given[a], subs'[a], given'[a], e)
    BY <2>3, <2>6, Zenon DEF OfferedTo
  <2>8. MayTake(subs[b], given[b], subs'[b], given'[b], e)
    BY <2>4, <2>5, <2>6, Zenon DEF MayTake
  <2> QED BY <1>6, <2>2, <2>7, <2>8, DeliverShared
<1>12. ASSUME NEW o \in 1..Len(objs'), objs[o].sub # 0
       PROVE  /\ ObjHolds(o)'
              /\ \A f \in Frames : (f # NoFrame => f.id < e) /\ AheadShape(objs[o].hist, subs[objs[o].sub].ch, given[objs[o].sub], strm.cursor, f)
                   => AheadShape(objs'[o].hist, subs'[objs'[o].sub].ch, given'[objs'[o].sub], strm'.cursor, f)
  <2>0. o \in 1..Len(objs) /\ objs' = objs /\ Len(subs') = Len(subs) /\ got' = got /\ strm' = strm /\ strm.cursor \in Nat
    BY <1>1, <1>3, <1>10 DEF StreamTypes
  <2> DEFINE k == objs[o].sub
             obj == objs[o]
  <2>1. /\ obj.hist \in Histories /\ k \in 1..Len(subs) /\ k \in obj.had /\ obj.had \subseteq 1..Len(subs)
        /\ HistoryShape(obj.hist, k, subs[k].start, subs[k].ch, given[k]) /\ GotShape(obj, got)
    BY <1>12, <2>0, ObjFacts
  <2>2. PICK i : i = k
    OBVIOUS
  <2>3. /\ i \in 1..Len(subs) /\ objs'[o].sub = i /\ objs'[o] = obj
    BY <2>0, <2>1, <2>2
  <2>4. /\ TakesEvent(subs[i], given[i], subs'[i], given'[i], e)
        /\ subs[i] \in Subscriptions /\ given[i] \in SUBSET Nat /\ \A x \in given[i] : x < e
    BY <1>9, <2>3
  <2> HIDE DEF k, obj
  <2>5. HistoryShape(obj.hist, k, subs'[i].start, subs'[i].ch, given'[i])
    <3>1. HistoryShape(obj.hist, k, subs[i].start, subs[i].ch, given[i])
      BY <2>1, <2>2
    <3>2. e \in Nat /\ e # 0 /\ obj.hist \in Histories
      BY <1>6, <1>7, <2>1
    <3> QED BY <2>4, <3>1, <3>2, TakesHistory
  <2>6. ObjShape(obj, Len(subs), subs'[i].start, subs'[i].ch, given'[i], got)
    BY <2>1, <2>2, <2>5 DEF ObjShape, k, obj
  <2>7. \A f \in Frames : (f # NoFrame => f.id < e) /\ AheadShape(obj.hist, subs[i].ch, given[i], strm.cursor, f)
                            => AheadShape(obj.hist, subs'[i].ch, given'[i], strm.cursor, f)
    BY <1>6, <2>0, <2>1, <2>4, TakesAhead
  <2>8. ObjHolds(o)'
    BY <1>12, <2>0, <2>2, <2>3, <2>6 DEF ObjHolds, k, obj
  <2> QED BY <2>0, <2>2, <2>3, <2>7, <2>8 DEF k, obj
<1>13. /\ got # NoFrame => got.sub \in 1..Len(subs) /\ got.id \in given[got.sub] /\ got.id < e
       /\ got \in Frames /\ got.id \in Nat
       /\ arrival.from # NoFrame => arrival.from.sub \in 1..Len(subs)
  <2>1. /\ got # NoFrame => got.sub \in 1..Len(subs) /\ got.id \in given[got.sub]
        /\ arrival.from # NoFrame => arrival.from.sub \in 1..Len(subs)
    BY DEF StreamInv, ClientShape
  <2> QED BY <1>1, <1>9, <2>1 DEF StreamTypes, Frames
<1>14. ASSUME NEW k \in 1..Len(subs)
       PROVE  given[k] \subseteq given'[k] /\ given'[k] \subseteq given[k] \cup {e}
  BY <1>9 DEF TakesEvent
<1>15. ClientShape'
  BY <1>3, <1>10, <1>13, <1>14 DEF StreamInv, ClientShape
<1>16. SeesWhole'
  <2> SUFFICES ASSUME got # NoFrame, arrival.from # NoFrame PROVE SeesWhole'
    BY <1>3 DEF SeesWhole
  <2> DEFINE seen == IF arrival.resumed \/ arrival.from.sub = got.sub THEN arrival.from.id ELSE 0
  <2>1. /\ NextAfter(seen, got)
        /\ arrival.from.id < got.id \/ got.id \in given[arrival.from.sub]
        /\ arrival.resumed /\ arrival.own => arrival.from.sub = got.sub
    BY DEF StreamInv, SeesWhole
  <2>s. seen' = seen
    BY <1>3
  <2> HIDE DEF seen
  <2>2. seen < got.id /\ \A x \in given[got.sub] : x <= seen \/ got.id <= x
    BY <2>1 DEF NextAfter
  <2>3. PICK j \in 1..Len(subs) : j = got.sub
    BY <1>13
  <2>4. given'[j] \subseteq given[j] \cup {e} /\ got.id < e /\ got.id <= e
    BY <1>6, <1>13, <1>14
  <2>5. \A x \in given'[j] : x <= seen \/ got.id <= x
    BY <2>2, <2>3, <2>4
  <2>6. NextAfter(seen, got)'
    BY <1>3, <2>2, <2>3, <2>5, <2>s DEF NextAfter
  <2>7. arrival.from.id < got.id \/ got.id \in given'[arrival.from.sub]
    BY <1>13, <1>14, <2>1
  <2> QED BY <1>3, <2>1, <2>6, <2>7 DEF SeesWhole, seen
<1>17. StreamShape'
  <2>1. SUFFICES ASSUME strm.obj # 0 PROVE StreamShape'
    BY <1>3 DEF StreamShape
  <2>2. PICK o : o = strm.obj
    OBVIOUS
  <2>3. o \in 1..Len(objs) /\ objs' = objs /\ objs[o].sub # 0
    <3>1. strm.obj \in 0..Len(objs) /\ objs \in Seq(EgressObjects)
      BY <1>1 DEF StreamTypes
    <3>2. o = table /\ objs[table].sub # 0
      BY <2>1, <2>2 DEF StreamInv, ClientShape
    <3> QED BY <1>3, <2>1, <2>2, <3>1, <3>2
  <2>4. PICK k : k = objs[o].sub
    OBVIOUS
  <2>5. PICK f : f = Seen(k)
    OBVIOUS
  <2>6. /\ ~strm.ended => AheadShape(objs[o].hist, subs[k].ch, given[k], strm.cursor, f)
        /\ Joining /\ arrival.own /\ got # NoFrame => got.sub = k
        /\ got # NoFrame /\ ~Joining => got.sub <= k
    BY <2>1, <2>2, <2>4, <2>5 DEF StreamInv, StreamShape, Ahead
  <2>7. f \in Frames /\ (f # NoFrame => f.id < e)
    <3>1. k \in Nat
      BY <2>3, <2>4, ObjFacts
    <3>2. 0 < e
      BY <1>6, <1>7
    <3> QED BY <1>13, <2>5, <3>1, <3>2 DEF Seen, Frame, Frames
  <2>8. ~strm.ended => AheadShape(objs'[o].hist, subs'[k].ch, given'[k], strm'.cursor, f)
    BY <1>3, <1>12, <2>3, <2>4, <2>6, <2>7
  <2>9. Seen(k)' = f /\ Joining' = Joining
    BY <1>3, <2>5 DEF Seen, Joining
  <2> HIDE DEF Seen, Joining
  <2>10. Ahead(o)' <=> AheadShape(objs'[o].hist, subs'[k].ch, given'[k], strm'.cursor, Seen(k)')
    BY <2>3, <2>4 DEF Ahead
  <2> QED BY <1>3, <2>2, <2>3, <2>4, <2>6, <2>8, <2>9, <2>10 DEF StreamShape
<1>18. Apart'
  BY <1>3 DEF StreamInv, Apart
<1>19. \A k \in 1..Len(subs') : SubShape(subs'[k], given'[k], inbound', emitted')
  BY <1>9, <1>10
<1>20. ASSUME NEW o \in 1..Len(objs') PROVE ObjHolds(o)'
  <2>1. CASE objs[o].sub = 0
    BY <1>3, <2>1 DEF StreamInv, ObjHolds
  <2>2. CASE objs[o].sub # 0
    BY <1>12, <2>2
  <2> QED BY <2>1, <2>2
<1>21. ASSUME NEW o \in 1..Len(objs') PROVE RebindHolds(o)'
  <2>1. o \in 1..Len(objs) /\ objs' = objs /\ table' = table /\ RebindHolds(o) /\ Len(subs') = Len(subs)
    BY <1>3, <1>10 DEF StreamInv
  <2>2. NextShape(objs[o])'
    <3>1. SUFFICES ASSUME objs[o].next # 0 PROVE NextShape(objs[o])'
      BY <2>1 DEF NextShape
    <3>2. PICK k : k = objs[o].next
      OBVIOUS
    <3>3. /\ k = Len(subs) /\ objs[o].sub < k /\ got.sub # k /\ k \in 1..Len(subs)
          /\ HistoryShape(NewHistory, k, subs[k].start, subs[k].ch, given[k])
          /\ \A q \in 1..Len(objs) : k \notin objs[q].had
      <4>1. objs[o].next \in 0..Len(subs) /\ NextShape(objs[o])
        BY <2>1, RebindFacts
      <4> QED BY <1>4, <3>1, <3>2, <4>1 DEF NextShape
    <3>4. /\ TakesEvent(subs[k], given[k], subs'[k], given'[k], e)
          /\ subs[k] \in Subscriptions /\ given[k] \in SUBSET Nat /\ \A x \in given[k] : x < e
      BY <1>9, <3>3
    <3>5. NewHistory \in Histories /\ e # 0
      BY <1>6, <1>7 DEF NewHistory, Histories
    <3>6. HistoryShape(NewHistory, k, subs'[k].start, subs'[k].ch, given'[k])
      BY <1>6, <3>3, <3>4, <3>5, TakesHistory
    <3> QED BY <1>3, <2>1, <3>2, <3>3, <3>6 DEF NextShape
  <2> QED BY <2>1, <2>2 DEF RebindHolds, Rebinding
<1> QED BY <1>8, <1>11, <1>s, <1>15, <1>16, <1>17, <1>18, <1>19, <1>20, <1>21, Whole

(* A new perception's subscription, of no Event yet. *)
LEMMA NewSub ==
  ASSUME NEW b \in Seq(Nat), NEW e \in Nat
  PROVE  LET u == [start |-> e + 1, ch |-> <<>>, st |-> "on"]
         IN u \in Subscriptions /\ SubShape(u, {}, b, e) /\ u.start = e + 1 /\ u.ch = <<>>
<1> DEFINE u == [start |-> e + 1, ch |-> <<>>, st |-> "on"]
<1>1. u.start = e + 1 /\ u.ch = <<>> /\ e + 1 \in Nat /\ <<>> \in Seq(Nat)
  OBVIOUS
<1>2. u \in Subscriptions
  BY <1>1 DEF Subscriptions
<1>3. HubBuffer \in Nat /\ Len(<<>>) = 0 /\ 1..Len(<<>>) = {}
  BY StreamAssumption
<1> HIDE DEF u
<1>4. SubShape(u, {}, b, e)
  BY <1>1, <1>3 DEF SubShape
<1> QED BY <1>1, <1>2, <1>4 DEF u

(* Hub.Subscribe: an object with nothing under way, or a new one, has made a  *)
(* subscription that is not yet its own.  Nothing else changes.               *)
LEMMA NewObserverKeeps ==
  ASSUME StreamInv, NEW o, NEW obj,
         \/ o \in 1..Len(objs) /\ obj = objs[o] /\ objs[o].sub # 0
         \/ o = Len(objs) + 1 /\ obj = NoObj,
         \A i \in 1..Len(objs) : objs[i].next = 0 /\ objs[i].old = 0,
         NewObserver(o, obj), UNCHANGED <<emitted, inbound, strm, got, arrival>>,
         client' \in [pc : {"away", "opened", "subscribing", "subscribed", "attached"}, last : Nat],
         client'.last = client.last, table' = o, parked' \in 0..Len(objs),
         strm.obj # 0 <=> client'.pc = "attached",
         strm.obj # 0 => strm.obj = o,
         client'.pc \in {"subscribed", "attached"} => o \in 1..Len(objs)
  PROVE  StreamInv'
<1> DEFINE k == Len(subs) + 1
           u == [start |-> emitted + 1, ch |-> <<>>, st |-> "on"]
           v == [obj EXCEPT !.next = k]
           n == IF o \in 1..Len(objs) THEN Len(objs) ELSE Len(objs) + 1
<1>1. StreamTypes
  BY DEF StreamInv
<1>2. /\ emitted \in Nat /\ inbound \in Seq(Nat) /\ subs \in Seq(Subscriptions) /\ given \in Seq(SUBSET Nat)
      /\ Len(given) = Len(subs) /\ objs \in Seq(EgressObjects) /\ Len(subs) \in Nat /\ Len(objs) \in Nat
      /\ DOMAIN objs = 1..Len(objs)
  <2>1. emitted \in 0..MaxEvents /\ MaxEvents \in Nat /\ subs \in Seq(Subscriptions) /\ objs \in Seq(EgressObjects)
        /\ inbound \in Seq(Nat) /\ given \in Seq(SUBSET Nat) /\ Len(given) = Len(subs)
    BY <1>1, StreamAssumption DEF StreamTypes
  <2> QED BY <2>1
<1>3. /\ obj \in EgressObjects /\ obj.sub \in 0..Len(subs) /\ obj.old = 0
      /\ (o \notin 1..Len(objs) => obj.sub = 0 /\ obj.had = {} /\ obj.hist.frames = <<>>)
  <2>1. CASE o \in 1..Len(objs) /\ obj = objs[o]
    BY <2>1, RebindFacts
  <2>2. CASE o = Len(objs) + 1 /\ obj = NoObj
    <3>1. NewHistory \in Histories /\ NewHistory.frames = <<>>
      BY DEF NewHistory, Histories
    <3>2. /\ obj.hist = NewHistory /\ obj.sub = 0 /\ obj.had = {} /\ obj.old = 0
          /\ obj = [sub |-> 0, next |-> 0, old |-> 0, hist |-> NewHistory, hubEnded |-> FALSE,
                    closing |-> FALSE, had |-> {}]
      BY <2>2 DEF NoObj
    <3>3. obj \in EgressObjects
      BY <3>1, <3>2 DEF EgressObjects
    <3> QED BY <1>2, <3>1, <3>2, <3>3
  <2> QED BY <2>1, <2>2
<1>4. /\ subs' = Append(subs, u) /\ given' = Append(given, {})
      /\ objs' = [i \in (DOMAIN objs) \cup {o} |-> IF i = o THEN v ELSE objs[i]]
      /\ emitted' = emitted /\ inbound' = inbound /\ got' = got /\ strm' = strm /\ arrival' = arrival
  BY DEF NewObserver
<1>6. u \in Subscriptions /\ SubShape(u, {}, inbound, emitted) /\ u.start = emitted + 1 /\ u.ch = <<>>
  BY <1>2, NewSub
<1>8. /\ v \in EgressObjects /\ v.sub = obj.sub /\ v.had = obj.had /\ v.hist = obj.hist /\ v.next = k /\ v.old = 0
  <2>1. k \in Nat
    BY <1>2
  <2> HIDE DEF k
  <2> QED BY <1>3, <2>1 DEF EgressObjects
<1> HIDE DEF u, v
<1>9. /\ subs' \in Seq(Subscriptions) /\ Len(subs') = k /\ subs'[k] = u
      /\ given' \in Seq(SUBSET Nat) /\ Len(given') = k /\ given'[k] = {}
      /\ \A i \in 1..Len(subs) : subs'[i] = subs[i] /\ given'[i] = given[i]
  <2>1. subs' \in Seq(Subscriptions) /\ Len(subs') = k /\ subs'[k] = u /\ \A i \in 1..Len(subs) : subs'[i] = subs[i]
    BY <1>2, <1>4, <1>6
  <2>2. given' \in Seq(SUBSET Nat) /\ Len(given') = k /\ given'[k] = {} /\ \A i \in 1..Len(subs) : given'[i] = given[i]
    BY <1>2, <1>4
  <2> QED BY <2>1, <2>2
<1>10. /\ k \in Nat /\ k \notin 1..Len(subs) /\ k # 0 /\ n \in Nat /\ (DOMAIN objs) \cup {o} = 1..n /\ o \in 1..n
       /\ \A i \in 1..n : i # o => i \in 1..Len(objs)
       /\ \A i \in 1..Len(objs) : i \in 1..n
       /\ \A i \in 1..Len(subs) : i \in 1..k /\ i < k
       /\ \A i \in 1..k : i # k => i \in 1..Len(subs)
       /\ 0..Len(objs) \subseteq 0..n
  <2>1. /\ k \in Nat /\ k \notin 1..Len(subs) /\ k # 0
        /\ \A i \in 1..Len(subs) : i \in 1..k /\ i < k
        /\ \A i \in 1..k : i # k => i \in 1..Len(subs)
    <3>1. PICK m \in Nat : m = Len(subs)
      BY <1>2
    <3>2. /\ m + 1 \in Nat /\ m + 1 \notin 1..m /\ m + 1 # 0
          /\ \A i \in 1..m : i \in 1..(m + 1) /\ i < m + 1
          /\ \A i \in 1..(m + 1) : i # m + 1 => i \in 1..m
      OBVIOUS
    <3>3. k = m + 1
      BY <3>1
    <3> HIDE DEF k
    <3> QED BY <3>1, <3>2, <3>3
  <2>2. CASE o \in 1..Len(objs)
    BY <1>2, <2>1, <2>2
  <2>3. CASE o = Len(objs) + 1
    BY <1>2, <2>1, <2>3
  <2> QED BY <2>2, <2>3
<1>k. Len(subs) <= k
  BY <1>2
<1> HIDE DEF n, k
<1>11. objs' \in Seq(EgressObjects) /\ Len(objs') = n
       /\ \A i \in 1..n : objs'[i] = IF i = o THEN v ELSE objs[i]
  <2>1. objs' = [i \in 1..n |-> IF i = o THEN v ELSE objs[i]]
    BY <1>4, <1>10, Zenon
  <2>2. \A i \in 1..n : (IF i = o THEN v ELSE objs[i]) \in EgressObjects
    BY <1>2, <1>8, <1>10
  <2>3. objs' \in [1..n -> EgressObjects]
    BY <2>1, <2>2, Zenon
  <2>4. objs' \in Seq(EgressObjects) /\ Len(objs') = n
    BY <1>10, <2>3, FunctionIsSeq
  <2> QED BY <2>1, <2>4
<1>12. /\ \A i \in 1..Len(objs) : /\ objs'[i].sub = objs[i].sub /\ objs'[i].hist = objs[i].hist
                                  /\ objs'[i].had = objs[i].had /\ objs'[i].old = 0
                                  /\ objs'[i].next = (IF i = o THEN k ELSE 0)
       /\ (o \notin 1..Len(objs) => objs'[o].sub = 0 /\ objs'[o].had = {} /\ objs'[o].hist.frames = <<>>
                                    /\ objs'[o].next = k /\ objs'[o].old = 0)
  <2>1. ASSUME NEW i \in 1..Len(objs)
        PROVE  /\ objs'[i].sub = objs[i].sub /\ objs'[i].hist = objs[i].hist
               /\ objs'[i].had = objs[i].had /\ objs'[i].old = 0
               /\ objs'[i].next = (IF i = o THEN k ELSE 0)
    <3>1. CASE i = o
      <4>1. objs'[i] = v /\ obj = objs[i]
        BY <1>2, <1>10, <1>11, <3>1
      <4> QED BY <1>8, <3>1, <4>1
    <3>2. CASE i # o
      BY <1>10, <1>11, <3>2
    <3> QED BY <3>1, <3>2
  <2>2. o \notin 1..Len(objs) => objs'[o].sub = 0 /\ objs'[o].had = {} /\ objs'[o].hist.frames = <<>>
                                 /\ objs'[o].next = k /\ objs'[o].old = 0
    BY <1>3, <1>8, <1>10, <1>11
  <2> QED BY <2>1, <2>2
<1>14. StreamTypes'
  <2>1. strm' \in [obj : 0..Len(objs'), cursor : Nat, ended : BOOLEAN]
    BY <1>1, <1>4, <1>10, <1>11 DEF StreamTypes
  <2>2. table' \in 0..Len(objs') /\ parked' \in 0..Len(objs')
    BY <1>10, <1>11
  <2> QED BY <1>1, <1>4, <1>9, <1>11, <2>1, <2>2 DEF StreamTypes
<1>15. QueueShape(inbound', emitted')
  BY <1>4 DEF StreamInv
<1>16. /\ got # NoFrame => got.sub \in 1..Len(subs) /\ got.id \in given[got.sub] /\ 1 <= got.id /\ client.last = got.id
       /\ arrival.from # NoFrame => arrival.from.sub \in 1..Len(subs)
  BY DEF StreamInv, ClientShape
<1>17. ClientShape'
  <2>1. /\ got' # NoFrame => 1 <= got'.id /\ got'.sub \in 1..Len(subs') /\ got'.id \in given'[got'.sub] /\ client'.last = got'.id
        /\ arrival'.from # NoFrame => arrival'.from.sub \in 1..Len(subs')
    BY <1>4, <1>9, <1>10, <1>16
  <2>2. o # 0
    BY <1>10
  <2>3. client'.pc \in {"subscribed", "attached"} => objs'[o].sub # 0
    <3>1. ASSUME o \in 1..Len(objs) PROVE objs'[o].sub # 0
      BY <1>2, <1>12, <3>1
    <3> QED BY <3>1
  <2> QED BY <1>4, <2>1, <2>2, <2>3 DEF ClientShape
<1>18. SeesWhole'
  <2>1. SeesWhole
    BY DEF StreamInv
  <2>2. got # NoFrame => given'[got.sub] = given[got.sub]
    BY <1>9, <1>16
  <2>3. arrival.from # NoFrame => given'[arrival.from.sub] = given[arrival.from.sub]
    BY <1>9, <1>16
  <2> QED BY <1>4, <2>1, <2>2, <2>3 DEF SeesWhole, NextAfter
<1>19. ASSUME NEW i \in 1..Len(subs') PROVE SubShape(subs'[i], given'[i], inbound', emitted')
  <2>1. CASE i = k
    BY <1>4, <1>6, <1>9, <2>1
  <2>2. CASE i # k
    <3>1. i \in 1..Len(subs)
      BY <1>9, <1>10, <2>2
    <3>2. SubShape(subs[i], given[i], inbound, emitted)
      BY <3>1 DEF StreamInv, SubHolds
    <3> QED BY <1>4, <1>9, <3>1, <3>2
  <2> QED BY <2>1, <2>2
<1>s. ASSUME NEW a \in 1..Len(subs'), NEW b \in 1..Len(subs'), a < b
      PROVE  SharedShape(subs'[a], given'[a], subs'[b], given'[b])
  <2>0. a \in 1..k /\ b \in 1..k /\ a \in Nat /\ b \in Nat
    BY <1>9, <1>10
  <2>1. a \in 1..Len(subs)
    <3>1. a # k
      BY <1>10, <1>s, <2>0
    <3> QED BY <1>10, <2>0, <3>1
  <2>2. subs'[a] = subs[a] /\ given'[a] = given[a]
    BY <1>9, <2>1
  <2>3. CASE b = k
    <3>1. subs[a].start <= emitted + 1
      <4>1. SubShape(subs[a], given[a], inbound, emitted)
        BY <2>1 DEF StreamInv, SubHolds
      <4> QED BY <4>1 DEF SubShape
    <3>2. subs'[b].start = emitted + 1 /\ given'[b] = {}
      BY <1>6, <1>9, <2>3
    <3> QED BY <2>2, <3>1, <3>2 DEF SharedShape
  <2>4. CASE b # k
    <3>1. b \in 1..Len(subs)
      BY <1>10, <2>0, <2>4
    <3>2. subs'[b] = subs[b] /\ given'[b] = given[b]
      BY <1>9, <3>1
    <3>3. SharedShape(subs[a], given[a], subs[b], given[b])
      BY <1>s, <2>1, <3>1 DEF StreamInv
    <3> QED BY <2>2, <3>2, <3>3
  <2> QED BY <2>3, <2>4
<1>20. ASSUME NEW i \in 1..Len(objs') PROVE ObjHolds(i)'
  <2>1. CASE i \in 1..Len(objs)
    <3>1. objs'[i].sub = objs[i].sub /\ objs'[i].hist = objs[i].hist /\ objs'[i].had = objs[i].had
      BY <1>12, <2>1
    <3>2. PICK j : j = objs[i].sub
      OBVIOUS
    <3>3. CASE j = 0
      BY <2>1, <3>1, <3>2, <3>3 DEF StreamInv, ObjHolds
    <3>4. CASE j # 0
      <4>1. ObjShape(objs[i], Len(subs), subs[j].start, subs[j].ch, given[j], got)
        BY <2>1, <3>2, <3>4 DEF StreamInv, ObjHolds
      <4>2. j \in 1..Len(subs)
        BY <4>1, <3>2 DEF ObjShape
      <4>3. ObjShape(objs'[i], Len(subs), subs[j].start, subs[j].ch, given[j], got)
        BY <3>1, <4>1, ObjEnds
      <4>4. ObjShape(objs'[i], k, subs[j].start, subs[j].ch, given[j], got)
        BY <1>2, <1>10, <1>k, <4>3, ObjMore
      <4>5. subs'[j] = subs[j] /\ given'[j] = given[j]
        BY <1>9, <4>2
      <4>6. ObjShape(objs'[i], Len(subs'), subs'[j].start, subs'[j].ch, given'[j], got')
        BY <1>4, <1>9, <4>4, <4>5
      <4> QED BY <3>1, <3>2, <3>4, <4>6 DEF ObjHolds
    <3> QED BY <3>3, <3>4
  <2>2. CASE i \notin 1..Len(objs)
    <3>1. i = o
      BY <1>10, <1>11, <2>2
    <3> QED BY <1>12, <2>2, <3>1 DEF ObjHolds
  <2> QED BY <2>1, <2>2
<1>21. ASSUME NEW i \in 1..Len(objs') PROVE RebindHolds(i)'
  <2>0. i \in 1..n /\ Len(subs') = k /\ 0 \in 0..k
    BY <1>9, <1>10, <1>11
  <2>1. CASE i # o
    <3>1. i \in 1..Len(objs)
      BY <1>10, <2>0, <2>1
    <3>2. objs'[i].next = 0 /\ objs'[i].old = 0 /\ objs'[i].sub = objs[i].sub
      BY <1>12, <2>1, <3>1
    <3>3. objs[i].sub # 0
      BY <3>1, RebindFacts
    <3> QED BY <2>0, <3>2, <3>3 DEF RebindHolds, Rebinding, NextShape
  <2>2. CASE i = o
    <3>1. objs'[i].next = k /\ objs'[i].old = 0 /\ objs'[i].sub = obj.sub
      BY <1>8, <1>10, <1>11, <2>2
    <3>2. obj.sub < k
      BY <1>2, <1>3, <1>10, <1>k DEF k
    <3>3. got.sub # k
      BY <1>10, <1>16 DEF NoFrame, Frame
    <3>4. HistoryShape(NewHistory, k, subs'[k].start, subs'[k].ch, given'[k])
      <4>1. subs'[k].ch = <<>> /\ given'[k] = {}
        BY <1>6, <1>9
      <4>2. NewHistory.frames = <<>> /\ NewHistory.evicted = 0 /\ NewHistory.newest = 0 /\ 1..Len(<<>>) = {}
            /\ Len(<<>>) = 0
        BY DEF NewHistory
      <4>3. Len(NewHistory.frames) <= Window
        BY <4>2, StreamAssumption
      <4>4. FramesInOrder(NewHistory.frames, k)
        BY <4>2 DEF FramesInOrder
      <4> HIDE DEF NewHistory
      <4> QED BY <4>1, <4>2, <4>3, <4>4 DEF HistoryShape
    <3>5. ASSUME NEW q \in 1..Len(objs') PROVE k \notin objs'[q].had
      <4>1. CASE q \in 1..Len(objs)
        BY <1>10, <1>12, <4>1, RebindFacts
      <4>2. CASE q \notin 1..Len(objs)
        BY <1>10, <1>11, <1>12, <4>2
      <4> QED BY <4>1, <4>2
    <3>6. NextShape(objs[i])'
      <4>1. objs'[i].next = k /\ k = Len(subs)' /\ objs'[i].sub < k /\ got' = got
        BY <1>4, <2>0, <3>1, <3>2
      <4> HIDE DEF k
      <4> QED BY <3>3, <3>4, <3>5, <4>1, Zenon DEF NextShape
    <3> QED BY <1>10, <2>0, <2>2, <3>1, <3>6 DEF RebindHolds, Rebinding
  <2> QED BY <2>1, <2>2
<1>22. Apart'
  <2>1. ASSUME NEW i \in 1..Len(objs'), NEW q \in 1..Len(objs'), i # q PROVE objs'[i].had \cap objs'[q].had = {}
    <3>1. CASE i \in 1..Len(objs) /\ q \in 1..Len(objs)
      BY <1>12, <2>1, <3>1 DEF StreamInv, Apart
    <3>2. CASE ~(i \in 1..Len(objs) /\ q \in 1..Len(objs))
      BY <1>10, <1>11, <1>12, <3>2
    <3> QED BY <3>1, <3>2
  <2> QED BY <2>1 DEF Apart
<1>23. StreamShape'
  <2>1. SUFFICES ASSUME strm.obj # 0 PROVE StreamShape'
    BY <1>4 DEF StreamShape
  <2>2. PICK i : i = strm.obj
    OBVIOUS
  <2>3. i \in 1..Len(objs)
    <3>1. i \in 0..Len(objs) /\ i # 0
      BY <1>1, <2>1, <2>2 DEF StreamTypes
    <3> QED BY <1>2, <3>1
  <2>4. PICK j : j = objs[i].sub
    OBVIOUS
  <2>5. j \in 1..Len(subs)
    <3>1. objs[i].sub # 0
      BY <2>3, RebindFacts
    <3> QED BY <2>3, <2>4, <3>1, ObjFacts
  <2>6. /\ ~strm.ended => AheadShape(objs[i].hist, subs[j].ch, given[j], strm.cursor, Seen(j))
        /\ Joining /\ arrival.own /\ got # NoFrame => got.sub = j
        /\ got # NoFrame /\ ~Joining => got.sub <= j
    BY <2>1, <2>2, <2>4 DEF StreamInv, StreamShape, Ahead
  <2>7. objs'[i].sub = j /\ objs'[i].hist = objs[i].hist /\ subs'[j] = subs[j] /\ given'[j] = given[j]
    BY <1>9, <1>12, <2>3, <2>4, <2>5
  <2>8. Joining' = Joining
    BY <1>4 DEF Joining
  <2>9. Seen(j)' = Seen(j)
    BY <1>4, <2>8 DEF Seen
  <2> HIDE DEF Seen, Joining
  <2>10. Ahead(i)' <=> AheadShape(objs[i].hist, subs[j].ch, given[j], strm.cursor, Seen(j)')
    BY <1>4, <2>7 DEF Ahead
  <2> QED BY <1>4, <2>2, <2>6, <2>7, <2>8, <2>9, <2>10 DEF StreamShape
<1> QED BY <1>14, <1>15, <1>17, <1>18, <1>19, <1>s, <1>20, <1>21, <1>22, <1>23, Whole

(* Under s.mu: the object's subscription is the new one, its history begins   *)
(* again after all it served, and the open stream is at its end, owed all the *)
(* new subscription was handed.                                               *)
LEMMA SwapKeeps ==
  ASSUME StreamInv, NEW o \in DOMAIN objs, Swap(o) PROVE StreamInv'
<1> DEFINE obj == objs[o]
           k == obj.next
           v == [obj EXCEPT !.sub = obj.next, !.next = 0, !.old = obj.sub, !.had = @ \cup {obj.next},
                            !.hist = Reset(@), !.hubEnded = FALSE]
<1>1. StreamTypes /\ o \in 1..Len(objs) /\ objs \in Seq(EgressObjects) /\ Len(objs) \in Nat
      /\ strm \in [obj : 0..Len(objs), cursor : Nat, ended : BOOLEAN]
      /\ arrival \in [from : Frames, resumed : BOOLEAN, own : BOOLEAN] /\ got \in Frames
  BY DEF StreamInv, StreamTypes
<1>2. /\ k # 0 /\ objs' = [objs EXCEPT ![o] = v]
      /\ strm' = (IF strm.obj = o THEN [strm EXCEPT !.cursor = End(obj.hist)] ELSE strm)
      /\ arrival' = (IF strm.obj = o /\ Joining THEN [arrival EXCEPT !.resumed = FALSE] ELSE arrival)
      /\ UNCHANGED <<emitted, inbound, given, subs, table, parked, client, got>>
  BY DEF Swap, hubVars
<1>3. /\ obj \in EgressObjects /\ obj.hist \in Histories /\ obj.sub \in 0..Len(subs) /\ k \in 0..Len(subs)
      /\ obj.had \subseteq 1..Len(subs) /\ NextShape(obj) /\ o = table /\ Len(subs) \in Nat
      /\ (obj.sub = 0 => obj.had = {})
  BY <1>1, <1>2, RebindFacts
<1>4. /\ k = Len(subs) /\ obj.sub < k /\ got.sub # k
      /\ HistoryShape(NewHistory, k, subs[k].start, subs[k].ch, given[k])
      /\ \A q \in 1..Len(objs) : k \notin objs[q].had
  BY <1>2, <1>3 DEF NextShape
<1>5. k \in 1..Len(subs) /\ k \in Nat /\ k # 0 /\ subs[k].ch \in Seq(Nat)
  <2>1. k \in 1..Len(subs) /\ k \in Nat
    BY <1>2, <1>3
  <2>2. subs \in Seq(Subscriptions)
    BY <1>1 DEF StreamTypes
  <2>3. subs[k] \in Subscriptions
    <3> HIDE DEF k
    <3> QED BY <2>1, <2>2
  <2> QED BY <1>2, <2>1, <2>3 DEF Subscriptions
<1>6. /\ Reset(obj.hist) \in Histories /\ Reset(obj.hist).start = End(obj.hist) /\ Reset(obj.hist).frames = <<>>
      /\ obj.hist.floor <= Reset(obj.hist).floor /\ obj.hist.newest <= Reset(obj.hist).floor
      /\ obj.hist.floor \in Nat /\ obj.hist.newest \in Nat /\ Reset(obj.hist).floor \in Nat
      /\ End(obj.hist) \in Nat
  <2>1. obj.hist.floor \in Nat /\ obj.hist.newest \in Nat
    BY <1>3 DEF Histories
  <2>2. End(obj.hist) \in Nat
    BY <1>3, SMTT(40) DEF Histories, End
  <2>3. /\ Reset(obj.hist) \in Histories /\ Reset(obj.hist).start = End(obj.hist) /\ Reset(obj.hist).frames = <<>>
        /\ obj.hist.floor <= Reset(obj.hist).floor /\ obj.hist.newest <= Reset(obj.hist).floor
    BY <1>3, ResetIs DEF End
  <2> QED BY <2>1, <2>2, <2>3 DEF Histories
<1>7. /\ v \in EgressObjects /\ v.sub = k /\ v.next = 0 /\ v.old = obj.sub /\ v.had = obj.had \cup {k}
      /\ v.hist = Reset(obj.hist)
  <2>1. obj.had \cup {k} \in SUBSET Nat /\ obj.sub \in Nat
    BY <1>3, <1>5
  <2> HIDE DEF obj
  <2> QED BY <1>3, <1>5, <1>6, <2>1 DEF EgressObjects
<1> HIDE DEF obj, k, v
<1>8. /\ objs' \in Seq(EgressObjects) /\ Len(objs') = Len(objs) /\ objs'[o] = v
      /\ \A i \in 1..Len(objs) : i # o => objs'[i] = objs[i]
  BY <1>1, <1>2, <1>7
<1>9. strm.obj # 0 => strm.obj = o
  BY <1>3 DEF StreamInv, ClientShape
<1>10. /\ strm'.obj = strm.obj /\ strm'.ended = strm.ended /\ (strm.obj = o => strm'.cursor = End(obj.hist))
       /\ strm' \in [obj : 0..Len(objs'), cursor : Nat, ended : BOOLEAN]
  <2>1. CASE strm.obj = o
    <3>1. strm' = [strm EXCEPT !.cursor = End(obj.hist)]
      BY <1>2, <2>1
    <3> QED BY <1>1, <1>6, <1>8, <3>1
  <2>2. CASE strm.obj # o
    BY <1>1, <1>2, <1>8, <2>2
  <2> QED BY <2>1, <2>2
<1>11. /\ arrival' \in [from : Frames, resumed : BOOLEAN, own : BOOLEAN]
       /\ arrival'.from = arrival.from /\ arrival'.own = arrival.own
       /\ (arrival.from # NoFrame => arrival' = arrival) /\ (strm.obj = o => ~Joining')
  <2>1. CASE strm.obj = o /\ Joining
    <3>1. arrival' = [arrival EXCEPT !.resumed = FALSE] /\ arrival.from = NoFrame
      BY <1>2, <2>1 DEF Joining
    <3> QED BY <1>1, <3>1 DEF Joining
  <2>2. CASE ~(strm.obj = o /\ Joining)
    BY <1>1, <1>2, <2>2 DEF Joining
  <2> QED BY <2>1, <2>2
<1>12. StreamTypes'
  BY <1>1, <1>2, <1>8, <1>10, <1>11 DEF StreamTypes
<1>13. QueueShape(inbound', emitted') /\ \A i \in 1..Len(subs') : SubShape(subs'[i], given'[i], inbound', emitted')
  BY <1>2 DEF StreamInv, SubHolds
<1>14. \A a, b \in 1..Len(subs') : a < b => SharedShape(subs'[a], given'[a], subs'[b], given'[b])
  BY <1>2 DEF StreamInv
<1>15. ClientShape'
  <2>1. objs'[o].sub # 0
    BY <1>5, <1>7, <1>8
  <2> QED BY <1>2, <1>3, <1>10, <1>11, <2>1 DEF StreamInv, ClientShape
<1>16. SeesWhole'
  BY <1>2, <1>11 DEF StreamInv, SeesWhole, NextAfter
<1>17. ASSUME NEW i \in 1..Len(objs') PROVE ObjHolds(i)'
  <2>1. CASE i # o
    <3>1. objs'[i] = objs[i] /\ i \in 1..Len(objs)
      BY <1>8, <2>1
    <3> QED BY <1>2, <3>1 DEF StreamInv, ObjHolds
  <2>2. CASE i = o
    <3>1. HistoryShape(v.hist, k, subs[k].start, subs[k].ch, given[k])
      BY <1>3, <1>4, <1>7, ResetShape
    <3>2. GotShape(v, got)
      <4>1. ASSUME got # NoFrame, got.sub \in v.had PROVE got.sub # v.sub /\ got.id <= v.hist.floor
        <5>1. got.sub # k /\ got.sub \in obj.had /\ obj.sub # 0
          BY <1>3, <1>4, <1>7, <4>1
        <5>2. GotShape(obj, got)
          BY <1>1, <5>1, ObjFacts DEF obj
        <5>3. got.id <= obj.hist.newest \/ got.id <= obj.hist.floor
          BY <4>1, <5>1, <5>2 DEF GotShape
        <5>4. got.id \in Nat
          BY <1>1 DEF Frames
        <5>5. got.id <= Reset(obj.hist).floor
          BY <1>6, <5>3, <5>4, SMTT(40)
        <5> QED BY <1>7, <5>1, <5>5
      <4> QED BY <4>1 DEF GotShape
    <3>3. ObjShape(v, Len(subs), subs[k].start, subs[k].ch, given[k], got)
      BY <1>3, <1>5, <1>7, <3>1, <3>2 DEF ObjShape
    <3> QED BY <1>2, <1>5, <1>7, <1>8, <2>2, <3>3 DEF ObjHolds
  <2> QED BY <2>1, <2>2
<1>18. ASSUME NEW i \in 1..Len(objs') PROVE RebindHolds(i)'
  <2>1. CASE i # o
    <3>1. objs'[i] = objs[i] /\ i \in 1..Len(objs)
      BY <1>8, <2>1
    <3>2. objs[i].next = 0 /\ objs[i].old = 0 /\ objs[i].sub # 0
      BY <1>3, <2>1, <3>1, RebindFacts
    <3> QED BY <1>2, <1>3, <3>1, <3>2 DEF RebindHolds, Rebinding, NextShape
  <2>2. CASE i = o
    BY <1>2, <1>3, <1>5, <1>7, <1>8, <2>2 DEF RebindHolds, Rebinding, NextShape
  <2> QED BY <2>1, <2>2
<1>19. Apart'
  <2>1. ASSUME NEW i \in 1..Len(objs'), i # o PROVE objs'[i].had \cap objs'[o].had = {}
    <3>1. objs'[i] = objs[i] /\ i \in 1..Len(objs)
      BY <1>8, <2>1
    <3>2. objs[i].had \cap obj.had = {}
      BY <1>1, <2>1, <3>1 DEF StreamInv, Apart, obj
    <3> QED BY <1>4, <1>7, <1>8, <3>1, <3>2
  <2>2. ASSUME NEW i \in 1..Len(objs'), NEW q \in 1..Len(objs'), i # o, q # o, i # q
        PROVE  objs'[i].had \cap objs'[q].had = {}
    BY <1>8, <2>2 DEF StreamInv, Apart
  <2> QED BY <2>1, <2>2 DEF Apart
<1>20. StreamShape'
  <2>1. SUFFICES ASSUME strm.obj # 0 PROVE StreamShape'
    BY <1>10 DEF StreamShape
  <2>2. strm.obj = o /\ ~Joining' /\ strm'.cursor = End(obj.hist) /\ strm'.obj = o
    BY <1>9, <1>10, <1>11, <2>1
  <2>3. got # NoFrame => got.sub <= k /\ got.sub # k
    <3>1. got # NoFrame => got.sub \in 1..Len(subs)
      BY DEF StreamInv, ClientShape
    <3> QED BY <1>3, <1>4, <3>1
  <2>n. PICK n : n = k
    OBVIOUS
  <2>f. PICK f : f = IF got # NoFrame THEN Frame(0, n) ELSE got
    OBVIOUS
  <2>r. PICK r : r = Reset(obj.hist)
    OBVIOUS
  <2>c. PICK c : c = subs[n].ch
    OBVIOUS
  <2>g. PICK g : g = given[n]
    OBVIOUS
  <2>4. Seen(n)' = f
    <3>1. got' = got /\ ~Joining' /\ (got # NoFrame => got.sub # n)
      BY <1>2, <2>2, <2>3, <2>n
    <3>2. Seen(n)' = IF got' # NoFrame /\ got'.sub # n /\ ~Joining' THEN Frame(0, n) ELSE got'
      BY DEF Seen, NoFrame, Frame
    <3> QED BY <2>f, <3>1, <3>2
  <2>5. f # NoFrame => f.id = 0
    BY <2>f DEF Frame
  <2>6. \A x \in g : x <= 0 \/ StillThere(x, <<>>, 1, c)
    BY <1>4, <2>n, <2>c, <2>g DEF HistoryShape, NewHistory
  <2>7. \A p \in 1..Len(c) : c[p] = 0 \/ 0 < c[p]
    BY <1>5, <2>n, <2>c
  <2>8. r.start = End(obj.hist) /\ r.frames = <<>> /\ End(r) = r.start /\ r.start - r.start + 1 = 1 /\ r.start \in Nat
    <3>1. r.start = End(obj.hist) /\ r.frames = <<>> /\ r.start \in Nat
      BY <1>6, <2>r
    <3> QED BY <3>1 DEF End
  <2>9. 1..Len(r.frames) = {}
    BY <2>8
  <2>10. AheadShape(r, c, g, r.start, f)
    <3>1. r.start <= r.start /\ r.start <= End(r)
      BY <2>8
    <3>2. ASSUME f # NoFrame
          PROVE  /\ \A p \in 1..Len(r.frames) : p > r.start - r.start /\ r.frames[p].id # 0 => f.id < r.frames[p].id
                 /\ \A p \in 1..Len(c) : c[p] = 0 \/ f.id < c[p]
                 /\ \A x \in g : x <= f.id \/ StillThere(x, r.frames, r.start - r.start + 1, c)
      BY <2>5, <2>6, <2>7, <2>8, <2>9, <3>2
    <3> QED BY <3>1, <3>2 DEF AheadShape
  <2>11. Ahead(o)' <=> AheadShape(r, c, g, strm'.cursor, Seen(n)')
    <3>1. objs'[o].sub = n /\ objs'[o].hist = r /\ subs'[n].ch = c /\ given'[n] = g
      BY <1>2, <1>7, <1>8, <2>n, <2>r, <2>c, <2>g
    <3>2. Ahead(o)' <=> AheadShape(objs'[o].hist, subs'[n].ch, given'[n], strm'.cursor, Seen(n)')
      BY <3>1 DEF Ahead, Seen
    <3> QED BY <3>1, <3>2
  <2>12. Ahead(o)'
    BY <2>2, <2>4, <2>8, <2>10, <2>11
  <2> HIDE DEF Seen, Joining
  <2> QED BY <1>2, <1>7, <1>8, <2>2, <2>3, <2>12 DEF StreamShape
<1> QED BY <1>12, <1>13, <1>14, <1>15, <1>16, <1>17, <1>18, <1>19, <1>20, Whole

(* Rebind: the Session's perception of its Character is made anew. *)
LEMMA RebindKeeps ==
  ASSUME StreamInv, Rebind PROVE StreamInv'
<1>1. StreamTypes
  BY DEF StreamInv
<1>2. /\ table # 0 /\ objs[table].sub # 0 /\ RebindFree /\ NewObserver(table, objs[table])
      /\ UNCHANGED <<emitted, inbound, table, parked, strm, client, got, arrival>>
  BY DEF Rebind, clientVars
<1>3. table \in 1..Len(objs) /\ parked \in 0..Len(objs)
      /\ client \in [pc : {"away", "opened", "subscribing", "subscribed", "attached"}, last : Nat]
  <2>1. table \in 0..Len(objs) /\ objs \in Seq(EgressObjects) /\ parked \in 0..Len(objs)
        /\ client \in [pc : {"away", "opened", "subscribing", "subscribed", "attached"}, last : Nat]
    BY <1>1 DEF StreamTypes
  <2> QED BY <1>2, <2>1
<1>4. \A i \in 1..Len(objs) : objs[i].next = 0 /\ objs[i].old = 0
  <2>1. objs[table].next = 0 /\ objs[table].old = 0
    BY <1>2 DEF RebindFree, Rebinding
  <2> QED BY <2>1, RebindFacts
<1>5. /\ strm.obj # 0 <=> client'.pc = "attached"
      /\ strm.obj # 0 => strm.obj = table
  BY <1>2 DEF StreamInv, ClientShape
<1>6. /\ client' \in [pc : {"away", "opened", "subscribing", "subscribed", "attached"}, last : Nat]
      /\ client'.last = client.last /\ table' = table /\ parked' \in 0..Len(objs)
  BY <1>2, <1>3
<1>7. UNCHANGED <<emitted, inbound, strm, got, arrival>>
  BY <1>2
<1> QED BY <1>2, <1>3, <1>4, <1>5, <1>6, <1>7, NewObserverKeeps

(* Subscribe: the object in the table, subscribed anew if the hub ended it,   *)
(* the parked one or a new one.                                               *)
LEMMA SubscribeKeeps ==
  ASSUME StreamInv, Subscribe PROVE StreamInv'
<1>1. StreamTypes
  BY DEF StreamInv
<1>2. /\ client.pc = "opened" /\ RebindFree /\ UNCHANGED <<emitted, inbound, strm, got, arrival>>
  BY DEF Subscribe
<1>3. /\ client \in [pc : {"away", "opened", "subscribing", "subscribed", "attached"}, last : Nat]
      /\ table \in 0..Len(objs) /\ parked \in 0..Len(objs) /\ Len(objs) \in Nat
      /\ (table # 0 => table \in 1..Len(objs)) /\ (parked # 0 => parked \in 1..Len(objs))
  <2>1. table \in 0..Len(objs) /\ parked \in 0..Len(objs) /\ objs \in Seq(EgressObjects)
    BY <1>1 DEF StreamTypes
  <2> QED BY <1>1, <2>1 DEF StreamTypes
<1>4. strm.obj = 0
  BY <1>2 DEF StreamInv, ClientShape
<1>5. \A i \in 1..Len(objs) : objs[i].next = 0 /\ objs[i].old = 0 /\ objs[i].sub # 0
  <2>1. table # 0 => objs[table].next = 0 /\ objs[table].old = 0
    BY <1>2 DEF RebindFree, Rebinding
  <2>2. \A i \in 1..Len(objs) : i # 0
    BY <1>3
  <2> QED BY <2>1, <2>2, RebindFacts
<1>6. ASSUME client' = [client EXCEPT !.pc = "subscribed"], UNCHANGED <<subs, given, objs>>,
             table' \in 1..Len(objs), parked' \in 0..Len(objs)
      PROVE  StreamInv'
  <2>1. /\ client' \in [pc : {"away", "opened", "subscribing", "subscribed", "attached"}, last : Nat]
        /\ client'.last = client.last /\ client'.pc = "subscribed"
    BY <1>3, <1>6
  <2>2. StreamTypes'
    BY <1>1, <1>2, <1>3, <1>6, <2>1 DEF StreamTypes
  <2>3. table' # 0 /\ objs[table'].sub # 0
    BY <1>3, <1>5, <1>6
  <2> QED BY <1>2, <1>4, <1>5, <1>6, <2>1, <2>2, <2>3, QuietKeeps DEF hubVars
<1>7. ASSUME NEW o, NEW obj, \/ o \in 1..Len(objs) /\ obj = objs[o]
                             \/ o = Len(objs) + 1 /\ obj = NoObj,
             client' = [client EXCEPT !.pc = "subscribing"],
             NewObserver(o, obj), table' = o, parked' \in 0..Len(objs)
      PROVE  StreamInv'
  <2>1. /\ client' \in [pc : {"away", "opened", "subscribing", "subscribed", "attached"}, last : Nat]
        /\ client'.last = client.last /\ client'.pc = "subscribing"
    BY <1>3, <1>7
  <2>2. \/ o \in 1..Len(objs) /\ obj = objs[o] /\ objs[o].sub # 0
        \/ o = Len(objs) + 1 /\ obj = NoObj
    BY <1>5, <1>7
  <2> QED BY <1>2, <1>4, <1>5, <1>7, <2>1, <2>2, NewObserverKeeps
<1>8. CASE table # 0 /\ client' = [client EXCEPT !.pc = "subscribed"] /\ UNCHANGED <<subs, given, objs, table, parked>>
  BY <1>3, <1>6, <1>8
<1>9. CASE table # 0 /\ client' = [client EXCEPT !.pc = "subscribing"] /\ NewObserver(table, objs[table])
           /\ UNCHANGED <<table, parked>>
  BY <1>3, <1>7, <1>9
<1>10. CASE parked # 0 /\ client' = [client EXCEPT !.pc = "subscribed"] /\ table' = parked /\ parked' = 0
            /\ UNCHANGED <<subs, given, objs>>
  BY <1>3, <1>6, <1>10
<1>11. CASE client' = [client EXCEPT !.pc = "subscribing"] /\ table' = Len(objs) + 1 /\ NewObserver(table', NoObj)
            /\ UNCHANGED parked
  BY <1>3, <1>7, <1>11
<1> QED BY <1>8, <1>9, <1>10, <1>11 DEF Subscribe

(* attach, of a history against the frame f received last: nothing the       *)
(* subscription was handed after it is before the place the stream opens at. *)
LEMMA AttachAhead ==
  ASSUME NEW h \in Histories, NEW last \in Nat, NEW k, NEW s \in Nat, NEW c \in Seq(Nat), NEW g \in SUBSET Nat,
         HistoryShape(h, k, s, c, g), NEW f \in Frames,
         f # NoFrame => f.id = last /\ last # 0 /\ ~Resume(h, last).resync
  PROVE  AheadShape(h, c, g, Resume(h, last).seq, f)
<1> DEFINE at == Resume(h, last)
           F == h.frames
<1>1. /\ at.seq \in Nat /\ h.start <= at.seq /\ at.seq <= End(h)
      /\ last # 0 /\ ~at.resync =>
           /\ h.floor < last /\ last <= h.newest /\ h.evicted <= last
           /\ \A p \in 1..Len(F) :
                /\ F[p].id > last => p > at.seq - h.start
                /\ p > at.seq - h.start /\ F[p].id # 0 => last < F[p].id
  BY ResumeIs
<1>2. h.start \in Nat /\ h.newest \in Nat /\ h.evicted \in Nat /\ F \in Seq(Frames) /\ \A p \in 1..Len(c) : c[p] \in Nat
  BY DEF Histories
<1>3. \A p \in 1..Len(F) : F[p].id \in Nat
  <2>1. \A p \in 1..Len(F) : F[p] \in Frames
    BY <1>2
  <2> QED BY <2>1 DEF Frames
<1>4. /\ \A x \in g : x <= h.evicted \/ StillThere(x, F, 1, c)
      /\ \A p \in 1..Len(c) : c[p] = 0 \/ h.newest < c[p]
  BY DEF HistoryShape
<1> HIDE DEF at, F
<1>5. ASSUME f # NoFrame
      PROVE  /\ \A p \in 1..Len(F) : p > at.seq - h.start /\ F[p].id # 0 => f.id < F[p].id
             /\ \A p \in 1..Len(c) : c[p] = 0 \/ f.id < c[p]
             /\ \A x \in g : x <= f.id \/ StillThere(x, F, at.seq - h.start + 1, c)
  <2>0. f.id = last /\ last # 0 /\ ~at.resync
    BY <1>5 DEF at
  <2>1. /\ last <= h.newest /\ h.evicted <= last
        /\ \A p \in 1..Len(F) :
             /\ F[p].id > last => p > at.seq - h.start
             /\ p > at.seq - h.start /\ F[p].id # 0 => last < F[p].id
    BY <1>1, <2>0
  <2>2. \A p \in 1..Len(c) : c[p] = 0 \/ last < c[p]
    BY <1>2, <1>4, <2>1
  <2>3. ASSUME NEW x \in g, ~(x <= last) PROVE StillThere(x, F, at.seq - h.start + 1, c)
    <3>1. x \in Nat /\ x > last /\ ~(x <= h.evicted)
      <4>1. x \in Nat
        OBVIOUS
      <4> QED BY <1>2, <2>1, <2>3, <4>1
    <3>2. StillThere(x, F, 1, c)
      BY <1>4, <3>1
    <3>3. ASSUME NEW p \in 1..Len(F), F[p].id = x PROVE p >= at.seq - h.start + 1
      <4>1. p > at.seq - h.start /\ p \in Nat
        BY <2>1, <3>1, <3>3
      <4> QED BY <1>1, <1>2, <4>1
    <3> QED BY <3>2, <3>3 DEF StillThere
  <2> QED BY <2>0, <2>1, <2>2, <2>3
<1> QED BY <1>1, <1>5 DEF AheadShape, at, F

(* Attach: the stream resumes in the history, or after all of it. *)
LEMMA AttachKeeps ==
  ASSUME StreamInv, Attach PROVE StreamInv'
<1>1. StreamTypes
  BY DEF StreamInv
<1> DEFINE obj == objs[table]
           k == obj.sub
           at == Resume(obj.hist, client.last)
<1>2. client.pc = "subscribed" /\ UNCHANGED <<emitted, inbound, subs, given, objs, table, parked>>
  BY DEF Attach, hubVars
<1>3. table \in 1..Len(objs) /\ strm.obj = 0 /\ table # 0 /\ objs[table].sub # 0
  <2>1. /\ table # 0 /\ objs[table].sub # 0 /\ strm.obj = 0 /\ table \in 0..Len(objs)
        /\ objs \in Seq(EgressObjects)
    BY <1>1, <1>2 DEF StreamInv, ClientShape, StreamTypes
  <2> QED BY <2>1
<1>4. /\ obj \in EgressObjects /\ obj.hist \in Histories /\ k \in Nat
      /\ subs[k].start \in Nat /\ subs[k].ch \in Seq(Nat) /\ given[k] \in SUBSET Nat
      /\ HistoryShape(obj.hist, k, subs[k].start, subs[k].ch, given[k]) /\ GotShape(obj, got)
  BY <1>3, ObjFacts
<1>5. client \in [pc : {"away", "opened", "subscribing", "subscribed", "attached"}, last : Nat] /\ client.last \in Nat
      /\ got \in Frames /\ got.id \in Nat
  BY <1>1 DEF StreamTypes, Frames
<1>6. /\ at.seq \in Nat /\ at.resync \in BOOLEAN
      /\ client.last # 0 /\ ~at.resync => obj.hist.floor < client.last
  BY <1>4, <1>5, ResumeIs
<1> HIDE DEF at, obj, k
<1>7. CASE client' = [client EXCEPT !.pc = "opened"] /\ UNCHANGED <<strm, got, arrival>>
  <2>1. client' \in [pc : {"away", "opened", "subscribing", "subscribed", "attached"}, last : Nat]
        /\ client'.pc = "opened" /\ client'.last = client.last
    BY <1>5, <1>7
  <2>2. StreamTypes'
    BY <1>1, <1>2, <1>7, <2>1 DEF StreamTypes
  <2>3. \A i \in 1..Len(objs) : objs[i].next # 0 \/ objs[i].old # 0 => i = table
    BY RebindFacts
  <2> QED BY <1>2, <1>3, <1>7, <2>1, <2>2, <2>3, QuietKeeps DEF hubVars
<1>8. CASE /\ client' = [client EXCEPT !.pc = "attached"]
           /\ strm' = [obj |-> table, cursor |-> at.seq, ended |-> FALSE]
           /\ got' = IF at.resync \/ client.last = 0 THEN NoFrame ELSE got
           /\ arrival' = [from |-> NoFrame, resumed |-> got' # NoFrame, own |-> got'.sub \in obj.had]
  <2>1. client' \in [pc : {"away", "opened", "subscribing", "subscribed", "attached"}, last : Nat]
        /\ client'.pc = "attached" /\ client'.last = client.last
    BY <1>5, <1>8
  <2>2. got' \in Frames /\ NoFrame \in Frames /\ (got' # NoFrame => got' = got /\ ~at.resync /\ client.last # 0)
    <3>1. NoFrame \in Frames
      BY DEF NoFrame, Frame, Frames
    <3> QED BY <1>5, <1>8, <3>1
  <2>3. arrival'.from = NoFrame /\ (arrival'.own <=> got'.sub \in obj.had)
        /\ arrival' \in [from : Frames, resumed : BOOLEAN, own : BOOLEAN]
    <3> DEFINE x == got' # NoFrame
               y == got'.sub \in obj.had
    <3>1. x \in BOOLEAN /\ y \in BOOLEAN
      <4>1. CASE x
        <5>1. CASE y
          BY <4>1, <5>1
        <5>2. CASE ~y
          BY <4>1, <5>2
        <5> QED BY <5>1, <5>2
      <4>2. CASE ~x
        <5>1. CASE y
          BY <4>2, <5>1
        <5>2. CASE ~y
          BY <4>2, <5>2
        <5> QED BY <5>1, <5>2
      <4> QED BY <4>1, <4>2
    <3>2. arrival' = [from |-> NoFrame, resumed |-> x, own |-> y]
      BY <1>8
    <3> HIDE DEF x, y
    <3>3. arrival'.from = NoFrame /\ arrival'.own = y
      BY <3>2
    <3>4. arrival' \in [from : Frames, resumed : BOOLEAN, own : BOOLEAN]
      BY <2>2, <3>1, <3>2
    <3>5. arrival'.own <=> y
      BY <3>3
    <3> QED BY <3>3, <3>4, <3>5 DEF y
  <2>4. strm'.obj = table /\ strm'.cursor = at.seq /\ strm'.ended = FALSE
        /\ strm' \in [obj : 0..Len(objs), cursor : Nat, ended : BOOLEAN]
    <3>1. table \in 0..Len(objs)
      BY <1>1 DEF StreamTypes
    <3> QED BY <1>6, <1>8, <3>1
  <2>5. StreamTypes'
    BY <1>1, <1>2, <2>1, <2>2, <2>3, <2>4 DEF StreamTypes
  <2>6. QueueShape(inbound', emitted')
    BY <1>2 DEF StreamInv
  <2>7. got # NoFrame => 1 <= got.id /\ got.sub \in 1..Len(subs) /\ got.id \in given[got.sub] /\ client.last = got.id
    BY DEF StreamInv, ClientShape
  <2>8. ClientShape'
    BY <1>2, <1>3, <2>1, <2>2, <2>3, <2>4, <2>7 DEF ClientShape
  <2>9. SeesWhole'
    BY <2>3 DEF SeesWhole
  <2>10. \A i \in 1..Len(subs') : SubShape(subs'[i], given'[i], inbound', emitted')
    BY <1>2 DEF StreamInv, SubHolds
  <2>11. ASSUME NEW o \in 1..Len(objs') PROVE ObjHolds(o)'
    <3>1. PICK j : j = objs[o].sub
      OBVIOUS
    <3>2. CASE j = 0
      BY <1>2, <3>1, <3>2 DEF StreamInv, ObjHolds
    <3>3. CASE j # 0
      <4>1. ObjShape(objs[o], Len(subs), subs[j].start, subs[j].ch, given[j], got)
        BY <1>2, <3>1, <3>3 DEF StreamInv, ObjHolds
      <4>2. GotShape(objs[o], got')
        BY <2>2, <4>1 DEF ObjShape, GotShape
      <4>3. ObjShape(objs[o], Len(subs), subs[j].start, subs[j].ch, given[j], got')
        BY <4>1, <4>2 DEF ObjShape
      <4> QED BY <1>2, <3>1, <3>3, <4>3 DEF ObjHolds
    <3> QED BY <3>2, <3>3
  <2>12. Apart'
    BY <1>2 DEF StreamInv, Apart
  <2>s. \A a, b \in 1..Len(subs') : a < b => SharedShape(subs'[a], given'[a], subs'[b], given'[b])
    BY <1>2 DEF StreamInv
  <2>r. ASSUME NEW o \in 1..Len(objs') PROVE RebindHolds(o)'
    <3>1. RebindHolds(o) /\ objs[o].next \in Nat
      <4>1. o \in 1..Len(objs)
        BY <1>2
      <4>2. objs[o].next \in 0..Len(subs)
        BY <4>1, RebindFacts
      <4> QED BY <4>1, <4>2 DEF StreamInv
    <3>2. got'.sub = got.sub \/ got'.sub = 0
      BY <2>2 DEF NoFrame, Frame
    <3> QED BY <1>2, <3>1, <3>2 DEF RebindHolds, Rebinding, NextShape
  <2>13. StreamShape'
    <3>1. AheadShape(obj.hist, subs[k].ch, given[k], at.seq, got')
      <4>1. got' # NoFrame => got'.id = client.last /\ client.last # 0 /\ ~Resume(obj.hist, client.last).resync
        BY <2>2, <2>7 DEF at
      <4> QED BY <1>4, <1>5, <2>2, <4>1, AttachAhead DEF at
    <3>j. Joining' <=> got' # NoFrame
      BY <1>8, <2>3 DEF Joining
    <3>s. Seen(k)' = got'
      BY <1>2, <3>j DEF Seen, k, obj
    <3>t. strm'.obj = table /\ objs' = objs /\ subs' = subs /\ given' = given /\ table' = table
      BY <1>2, <2>4
    <3> HIDE DEF Seen, Joining
    <3>2. Ahead(table)'
      BY <1>2, <2>4, <3>1, <3>s DEF Ahead, obj, k
    <3>3. ASSUME arrival'.own, got' # NoFrame PROVE got'.sub = k
      <4>1. got' = got /\ got # NoFrame /\ got.sub \in obj.had /\ ~at.resync /\ client.last # 0 /\ client.last = got.id
        BY <2>2, <2>3, <2>7, <3>3
      <4>2. obj.hist.floor < got.id /\ obj.hist.floor \in Nat
        BY <1>4, <1>6, <4>1 DEF Histories
      <4>3. ~(got.id <= obj.hist.floor)
        BY <1>5, <4>2
      <4> QED BY <1>4, <4>1, <4>3 DEF GotShape, k
    <3> QED BY <2>4, <3>2, <3>3, <3>j, <3>t DEF StreamShape, obj, k
  <2> QED BY <2>5, <2>6, <2>8, <2>9, <2>10, <2>11, <2>12, <2>13, <2>s, <2>r, Whole
<1> QED BY <1>7, <1>8 DEF Attach, at, obj

(* What a stream at cursor sends of the history h, the frame n, to a client  *)
(* that received f last, and what is ahead of it then.                       *)
Sent(h, k, c, g, cursor, f, n) ==
  /\ n \in Frames /\ n.sub = k
  /\ n.id = 0 => AheadShape(h, c, g, cursor + 1, f)
  /\ n.id # 0 => /\ AheadShape(h, c, g, cursor + 1, n) /\ n.id \in g /\ n.id <= h.newest
                 /\ f # NoFrame => f.id < n.id /\ \A x \in g : ~(f.id < x /\ x < n.id)

(* stream.run: the frame at the cursor, and what is ahead of the stream then. *)
LEMMA FrameSent ==
  ASSUME NEW h \in Histories, NEW k, NEW s \in Nat, s >= 1, NEW c \in Seq(Nat), NEW g \in SUBSET Nat,
         \A x \in g : s <= x, HistoryShape(h, k, s, c, g), NEW cursor \in Nat, NEW f \in Frames,
         AheadShape(h, c, g, cursor, f), cursor < End(h),
         NEW n, n = h.frames[cursor - h.start + 1]
  PROVE  Sent(h, k, c, g, cursor, f, n)
<1> DEFINE F == h.frames
           at == cursor - h.start + 1
<1>1. h.start \in Nat /\ h.newest \in Nat /\ h.evicted \in Nat /\ F \in Seq(Frames) /\ End(h) = h.start + Len(F)
      /\ Len(F) \in Nat
  BY DEF Histories, End
<1>2. h.start <= cursor
  BY DEF AheadShape
<1>3. at \in 1..Len(F) /\ at \in Nat /\ at > cursor - h.start /\ (cursor + 1) - h.start = at
      /\ (cursor + 1) - h.start + 1 = at + 1 /\ h.start <= cursor + 1 /\ cursor + 1 <= End(h)
      /\ cursor - h.start + 1 = at
  <2>1. cursor < h.start + Len(F) /\ h.start <= cursor /\ h.start \in Nat /\ Len(F) \in Nat /\ cursor \in Nat
    BY <1>1, <1>2
  <2> HIDE DEF F
  <2> QED BY <1>1, <2>1, SMTT(40)
<1>4. \A p \in 1..Len(F) : F[p] \in Frames
  BY <1>1
<1>5. \A p \in 1..Len(F) : F[p].id \in Nat
  BY <1>4 DEF Frames
<1>h. /\ \A p \in 1..Len(F) : F[p].sub = k
      /\ \A p, q \in 1..Len(F) : p < q /\ F[p].id # 0 /\ F[q].id # 0 => F[p].id < F[q].id
      /\ \A p \in 1..Len(F) : F[p].id # 0 => F[p].id \in g /\ h.evicted < F[p].id /\ F[p].id <= h.newest
      /\ \A x \in g : x <= h.evicted \/ StillThere(x, F, 1, c)
      /\ \A p \in 1..Len(c) : c[p] = 0 \/ h.newest < c[p]
  BY DEF HistoryShape, FramesInOrder
<1>a. f # NoFrame =>
        /\ \A p \in 1..Len(F) : p > cursor - h.start /\ F[p].id # 0 => f.id < F[p].id
        /\ \A p \in 1..Len(c) : c[p] = 0 \/ f.id < c[p]
        /\ \A x \in g : x <= f.id \/ StillThere(x, F, at, c)
  BY DEF AheadShape
<1>6. n = F[at] /\ n \in Frames /\ n.sub = k /\ n.id \in Nat
  BY <1>3, <1>4, <1>5, <1>h
<1>7. f.id \in Nat /\ \A p \in 1..Len(c) : c[p] \in Nat
  BY DEF Frames
<1>8. \A p \in 1..Len(F) : p > (cursor + 1) - h.start => p > cursor - h.start /\ p > at
  BY <1>1, <1>3
<1>9. \A x \in g : x \in Nat /\ x # 0
  OBVIOUS
<1> HIDE DEF F, at
<1>10. ASSUME n.id = 0 PROVE AheadShape(h, c, g, cursor + 1, f)
  <2>1. ASSUME f # NoFrame, NEW x \in g, ~(x <= f.id) PROVE StillThere(x, F, at + 1, c)
    <3>1. StillThere(x, F, at, c)
      BY <1>a, <2>1
    <3>2. ASSUME NEW p \in 1..Len(F), p >= at, F[p].id = x PROVE p >= at + 1
      <4>1. p # at
        BY <1>6, <1>9, <1>10, <3>2
      <4> QED BY <1>3, <3>2, <4>1
    <3> QED BY <3>1, <3>2 DEF StillThere
  <2>2. f # NoFrame =>
          /\ \A p \in 1..Len(F) : p > (cursor + 1) - h.start /\ F[p].id # 0 => f.id < F[p].id
          /\ \A p \in 1..Len(c) : c[p] = 0 \/ f.id < c[p]
          /\ \A x \in g : x <= f.id \/ StillThere(x, F, (cursor + 1) - h.start + 1, c)
    BY <1>3, <1>8, <1>a, <2>1
  <2> QED BY <1>3, <2>2 DEF AheadShape, F
<1>11. ASSUME n.id # 0
       PROVE  /\ AheadShape(h, c, g, cursor + 1, n) /\ n.id \in g /\ n.id <= h.newest
              /\ f # NoFrame => f.id < n.id /\ \A x \in g : ~(f.id < x /\ x < n.id)
  <2>1. n.id \in g /\ h.evicted < n.id /\ n.id <= h.newest
    BY <1>3, <1>6, <1>h, <1>11
  <2>2. \A p \in 1..Len(F) : p > (cursor + 1) - h.start /\ F[p].id # 0 => n.id < F[p].id
    BY <1>3, <1>6, <1>8, <1>h, <1>11
  <2>3. \A p \in 1..Len(c) : c[p] = 0 \/ n.id < c[p]
    BY <1>1, <1>6, <1>7, <1>h, <2>1, SMTT(40)
  <2>4. ASSUME NEW p \in 1..Len(F), F[p].id # 0, p >= at PROVE n.id <= F[p].id
    <3>1. CASE p = at
      BY <1>6, <3>1
    <3>2. CASE p # at
      <4>1. at < p
        BY <1>3, <2>4, <3>2
      <4>2. n.id < F[p].id
        BY <1>3, <1>6, <1>h, <1>11, <2>4, <4>1
      <4> QED BY <1>5, <1>6, <4>2
    <3> QED BY <3>1, <3>2
  <2>5. ASSUME NEW x \in g, ~(x <= n.id) PROVE StillThere(x, F, at + 1, c)
    <3>1. x \in Nat /\ x > n.id /\ x # 0 /\ ~(x <= h.evicted)
      BY <1>1, <1>6, <1>9, <2>1, <2>5
    <3>2. StillThere(x, F, 1, c)
      BY <1>h, <3>1
    <3>3. ASSUME NEW p \in 1..Len(F), F[p].id = x PROVE p >= at + 1
      <4>1. p # at
        BY <1>6, <3>1, <3>3
      <4>2. ~(p < at)
        <5>1. p < at => F[p].id < n.id
          BY <1>3, <1>6, <1>h, <1>11, <3>1, <3>3
        <5> QED BY <1>6, <3>1, <3>3, <5>1
      <4> QED BY <1>3, <4>1, <4>2
    <3> QED BY <3>2, <3>3 DEF StillThere
  <2>6. AheadShape(h, c, g, cursor + 1, n)
    BY <1>3, <2>2, <2>3, <2>5 DEF AheadShape, F
  <2>7. ASSUME f # NoFrame PROVE f.id < n.id /\ \A x \in g : ~(f.id < x /\ x < n.id)
    <3>1. f.id < n.id
      BY <1>3, <1>6, <1>a, <1>11, <2>7
    <3>2. ASSUME NEW x \in g, f.id < x, x < n.id PROVE FALSE
      <4>1. x \in Nat /\ x # 0 /\ ~(x <= f.id)
        <5>1. x \in Nat /\ f.id \in Nat /\ s \in Nat /\ s >= 1 /\ s <= x
          BY <1>7, <1>9, <3>2
        <5>2. f.id < x
          BY <3>2
        <5> HIDE DEF F, at
        <5> QED BY <5>1, <5>2
      <4>2. StillThere(x, F, at, c)
        BY <1>a, <2>7, <4>1
      <4>3. ASSUME NEW p \in 1..Len(F), p >= at, F[p].id = x PROVE FALSE
        <5>1. n.id <= x
          BY <2>4, <4>1, <4>3
        <5> QED BY <1>6, <3>2, <4>1, <5>1
      <4>4. ASSUME NEW p \in 1..Len(c), c[p] = x PROVE FALSE
        <5>1. n.id < x
          BY <2>3, <4>1, <4>4
        <5> QED BY <1>6, <3>2, <4>1, <5>1
      <4> QED BY <4>2, <4>3, <4>4 DEF StillThere
    <3> QED BY <3>1, <3>2
  <2> QED BY <2>1, <2>6, <2>7
<1> QED BY <1>6, <1>10, <1>11 DEF Sent

(* SendFrame: a frame later than the last, with no Event handed between them. *)
LEMMA SendFrameKeeps ==
  ASSUME StreamInv, SendFrame PROVE StreamInv'
<1>1. StreamTypes
  BY DEF StreamInv
<1>2. PICK o : o = strm.obj
  OBVIOUS
<1> DEFINE obj == objs[o]
           h == obj.hist
           k == obj.sub
<1>3. PICK n : n = h.frames[strm.cursor - h.start + 1]
  OBVIOUS
<1>4. /\ o # 0 /\ ~strm.ended /\ strm.cursor < End(h) /\ strm' = [strm EXCEPT !.cursor = @ + 1]
      /\ UNCHANGED <<emitted, inbound, subs, given, objs, table, parked>>
      /\ IF n.id = 0 THEN UNCHANGED <<client, got, arrival>>
         ELSE /\ client' = [client EXCEPT !.last = n.id] /\ got' = n
              /\ arrival' = IF Joining
                            THEN [arrival EXCEPT !.from = got]
                            ELSE [from |-> got, resumed |-> FALSE, own |-> TRUE]
  BY <1>2, <1>3 DEF SendFrame, hubVars, clientVars
<1>5. o \in 1..Len(objs) /\ o = table /\ client.pc = "attached" /\ objs[o].sub # 0
  <2>1. o \in 0..Len(objs) /\ objs \in Seq(EgressObjects)
    BY <1>1, <1>2 DEF StreamTypes
  <2> QED BY <1>2, <1>4, <2>1 DEF StreamInv, ClientShape
<1>6. /\ obj \in EgressObjects /\ h \in Histories /\ k \in Nat /\ k \in 1..Len(subs) /\ k \in obj.had
      /\ subs[k].start \in Nat /\ subs[k].ch \in Seq(Nat) /\ given[k] \in SUBSET Nat
      /\ HistoryShape(h, k, subs[k].start, subs[k].ch, given[k]) /\ GotShape(obj, got)
      /\ SubShape(subs[k], given[k], inbound, emitted)
  BY <1>5, ObjFacts
<1>7. strm.cursor \in Nat /\ got \in Frames /\ client \in [pc : {"away", "opened", "subscribing", "subscribed", "attached"}, last : Nat]
      /\ arrival \in [from : Frames, resumed : BOOLEAN, own : BOOLEAN]
      /\ strm \in [obj : 0..Len(objs), cursor : Nat, ended : BOOLEAN] /\ strm.cursor + 1 \in Nat
  BY <1>1 DEF StreamTypes
<1>f. PICK f : f = Seen(k)
  OBVIOUS
<1>8. /\ AheadShape(h, subs[k].ch, given[k], strm.cursor, f)
      /\ (Joining /\ arrival.own /\ got # NoFrame => got.sub = k)
      /\ (got # NoFrame /\ ~Joining => got.sub <= k)
  BY <1>2, <1>4, <1>f DEF StreamInv, StreamShape, Ahead
<1>g. /\ f \in Frames
      /\ (Joining \/ got.sub = k => f = got)
      /\ (got # NoFrame /\ ~Joining /\ got.sub # k => f.id = 0 /\ f # NoFrame)
      /\ (got = NoFrame => f = NoFrame)
  <2>1. Frame(0, k) \in Frames /\ Frame(0, k).id = 0 /\ Frame(0, k) # NoFrame
    <3>1. k # 0
      BY <1>6
    <3> HIDE DEF k
    <3>2. Frame(0, k).sub = k /\ NoFrame.sub = 0 /\ Frame(0, k).id = 0
      BY DEF NoFrame, Frame
    <3>3. Frame(0, k) \in Frames
      BY <1>6 DEF Frame, Frames
    <3> QED BY <3>1, <3>2, <3>3
  <2> QED BY <1>7, <1>f, <2>1 DEF Seen
<1> HIDE DEF obj, h, k
<1>9. /\ n \in Frames /\ n.sub = k
      /\ n.id = 0 => AheadShape(h, subs[k].ch, given[k], strm.cursor + 1, f)
      /\ n.id # 0 => /\ AheadShape(h, subs[k].ch, given[k], strm.cursor + 1, n) /\ n.id \in given[k] /\ n.id <= h.newest
                     /\ f # NoFrame => f.id < n.id /\ \A x \in given[k] : ~(f.id < x /\ x < n.id)
  <2>1. subs[k].start >= 1 /\ \A x \in given[k] : subs[k].start <= x
    BY <1>6 DEF SubShape
  <2>2. PICK s : s = subs[k].start
    OBVIOUS
  <2>3. PICK c : c = subs[k].ch
    OBVIOUS
  <2>4. PICK g : g = given[k]
    OBVIOUS
  <2>5. PICK at \in Nat : at = strm.cursor
    BY <1>7
  <2>6. /\ h \in Histories /\ s \in Nat /\ s >= 1 /\ c \in Seq(Nat) /\ g \in SUBSET Nat /\ (\A x \in g : s <= x)
        /\ HistoryShape(h, k, s, c, g) /\ AheadShape(h, c, g, at, f) /\ at < End(h)
        /\ f \in Frames /\ n = h.frames[at - h.start + 1]
    BY <1>3, <1>4, <1>6, <1>7, <1>8, <1>g, <2>1, <2>2, <2>3, <2>4, <2>5
  <2>7. Sent(h, k, c, g, at, f, n)
    BY <2>5, <2>6, FrameSent
  <2> QED BY <2>2, <2>3, <2>4, <2>5, <2>7 DEF Sent
<1>10. strm'.obj = o /\ strm'.cursor = strm.cursor + 1 /\ strm'.ended = FALSE
       /\ strm' \in [obj : 0..Len(objs), cursor : Nat, ended : BOOLEAN]
  BY <1>2, <1>4, <1>7
<1>11. n.id \in Nat /\ NoFrame.id = 0 /\ (n.id # 0 => n # NoFrame /\ n.id >= 1)
  BY <1>9 DEF Frames, NoFrame, Frame
<1>12. /\ got' = (IF n.id = 0 THEN got ELSE n) /\ got' \in Frames
       /\ client' \in [pc : {"away", "opened", "subscribing", "subscribed", "attached"}, last : Nat] /\ client'.pc = "attached"
       /\ client'.last = (IF n.id = 0 THEN client.last ELSE n.id)
  <2>1. CASE n.id = 0
    BY <1>4, <1>5, <1>7, <2>1
  <2>2. CASE n.id # 0
    BY <1>4, <1>5, <1>7, <1>9, <1>11, <2>2
  <2> QED BY <2>1, <2>2
<1>13. ASSUME n.id # 0
       PROVE  /\ arrival'.from = got /\ arrival' \in [from : Frames, resumed : BOOLEAN, own : BOOLEAN]
              /\ (arrival'.resumed <=> Joining) /\ (Joining /\ arrival'.own => arrival.own)
  <2>1. CASE Joining
    <3>1. arrival' = [arrival EXCEPT !.from = got]
      BY <1>4, <1>13, <2>1
    <3>2. arrival.resumed
      BY <2>1 DEF Joining
    <3> QED BY <1>7, <2>1, <3>1, <3>2
  <2>2. CASE ~Joining
    <3>1. arrival' = [from |-> got, resumed |-> FALSE, own |-> TRUE]
      BY <1>4, <1>13, <2>2
    <3>2. arrival'.from = got /\ arrival'.resumed = FALSE
      BY <3>1
    <3>3. arrival' \in [from : Frames, resumed : BOOLEAN, own : BOOLEAN]
      BY <1>7, <3>1
    <3> QED BY <2>2, <3>2, <3>3
  <2> QED BY <2>1, <2>2
<1>14. StreamTypes'
  <2>1. arrival' \in [from : Frames, resumed : BOOLEAN, own : BOOLEAN]
    BY <1>4, <1>7, <1>13
  <2> QED BY <1>1, <1>4, <1>10, <1>12, <2>1 DEF StreamTypes
<1>15. QueueShape(inbound', emitted')
  BY <1>4 DEF StreamInv
<1>s. \A a, b \in 1..Len(subs') : a < b => SharedShape(subs'[a], given'[a], subs'[b], given'[b])
  BY <1>4 DEF StreamInv
<1>c. /\ got # NoFrame => got.sub \in 1..Len(subs) /\ got.id \in given[got.sub]
      /\ arrival.from # NoFrame => arrival.from.sub \in 1..Len(subs)
  BY DEF StreamInv, ClientShape
<1>16. ClientShape'
  <2>1. /\ got' # NoFrame => 1 <= got'.id /\ got'.sub \in 1..Len(subs') /\ got'.id \in given'[got'.sub] /\ client'.last = got'.id
        /\ arrival'.from # NoFrame => arrival'.from.sub \in 1..Len(subs')
    <3>1. CASE n.id = 0
      BY <1>4, <1>12, <1>c, <3>1 DEF StreamInv, ClientShape
    <3>2. CASE n.id # 0
      BY <1>4, <1>6, <1>9, <1>11, <1>12, <1>13, <1>c, <3>2
    <3> QED BY <3>1, <3>2
  <2> QED BY <1>4, <1>5, <1>10, <1>12, <2>1 DEF ClientShape
<1>17. SeesWhole'
  <2>1. CASE n.id = 0
    BY <1>4, <2>1 DEF StreamInv, SeesWhole, NextAfter
  <2>2. CASE n.id # 0
    <3>0. SUFFICES ASSUME got # NoFrame PROVE SeesWhole'
      BY <1>13, <2>2 DEF SeesWhole
    <3>1. got' = n /\ arrival'.from = got /\ given' = given /\ n.sub = k /\ n.id \in given[k] /\ got.id \in Nat
      BY <1>4, <1>7, <1>9, <1>12, <1>13, <2>2 DEF Frames
    <3> DEFINE seen == IF arrival'.resumed \/ got.sub = n.sub THEN got.id ELSE 0
    <3>2. f # NoFrame /\ seen = f.id /\ seen \in Nat
      <4>1. CASE Joining \/ got.sub = k
        <5>1. arrival'.resumed \/ got.sub = n.sub
          BY <1>13, <2>2, <3>1, <4>1
        <5> QED BY <1>g, <3>0, <3>1, <4>1, <5>1
      <4>2. CASE ~(Joining \/ got.sub = k)
        BY <1>13, <1>g, <2>2, <3>0, <3>1, <4>2
      <4> QED BY <4>1, <4>2
    <3> HIDE DEF seen
    <3>3. seen < n.id /\ \A x \in given[k] : x <= seen \/ n.id <= x
      <4>1. seen < n.id /\ \A x \in given[k] : ~(seen < x /\ x < n.id)
        BY <1>9, <2>2, <3>2
      <4>2. \A x \in given[k] : x \in Nat
        BY <1>6
      <4> QED BY <1>11, <3>2, <4>1, <4>2
    <3>z. PICK z : z = seen
      OBVIOUS
    <3>4. NextAfter(z, n)'
      BY <3>1, <3>3, <3>z DEF NextAfter
    <3>5. got.id < n.id \/ n.id \in given[got.sub]
      <4>1. CASE Joining \/ got.sub = k
        BY <1>9, <1>g, <2>2, <3>0, <4>1
      <4>2. CASE ~(Joining \/ got.sub = k)
        <5>1. PICK a \in 1..Len(subs) : a = got.sub /\ a < k
          <6>1. got.sub <= k /\ got.sub # k /\ got.sub \in 1..Len(subs)
            BY <1>8, <1>c, <3>0, <4>2
          <6> QED BY <1>6, <6>1
        <5>2. SharedShape(subs[a], given[a], subs[k], given[k])
          BY <1>6, <5>1 DEF StreamInv
        <5>3. got.id \in given[a]
          BY <1>c, <3>0, <5>1
        <5>4. n.id <= got.id => n.id \in given[a]
          BY <3>1, <5>2, <5>3 DEF SharedShape
        <5> QED BY <1>11, <3>1, <5>1, <5>4
      <4> QED BY <4>1, <4>2
    <3>6. arrival'.resumed /\ arrival'.own => got.sub = k
      BY <1>8, <1>13, <2>2, <3>0
    <3> QED BY <3>1, <3>4, <3>5, <3>6, <3>z DEF SeesWhole, seen
  <2> QED BY <2>1, <2>2
<1>18. \A i \in 1..Len(subs') : SubShape(subs'[i], given'[i], inbound', emitted')
  BY <1>4 DEF StreamInv, SubHolds
<1>19. Apart'
  BY <1>4 DEF StreamInv, Apart
<1>20. ASSUME NEW i \in 1..Len(objs') PROVE ObjHolds(i)'
  <2>1. PICK j : j = objs[i].sub
    OBVIOUS
  <2>z. CASE j = 0
    BY <1>4, <2>1, <2>z DEF StreamInv, ObjHolds
  <2>n. CASE j # 0
    <3>1. ObjShape(objs[i], Len(subs), subs[j].start, subs[j].ch, given[j], got)
      BY <1>4, <2>1, <2>n DEF StreamInv, ObjHolds
    <3>2. GotShape(objs[i], got')
      <4>1. CASE n.id = 0
        BY <1>12, <3>1, <4>1 DEF ObjShape
      <4>2. CASE n.id # 0 /\ i = o
        <5>1. got' = n /\ objs[i] = obj /\ obj.sub = k /\ obj.hist = h
          BY <1>12, <4>2 DEF obj, k, h
        <5> QED BY <1>9, <4>2, <5>1 DEF GotShape
      <4>3. CASE n.id # 0 /\ i # o
        <5>1. got' = n /\ objs[i].had \cap objs[o].had = {}
          BY <1>4, <1>5, <1>12, <4>3 DEF StreamInv, Apart
        <5>2. n.sub \in objs[o].had
          BY <1>6, <1>9 DEF obj
        <5> QED BY <5>1, <5>2 DEF GotShape
      <4> QED BY <4>1, <4>2, <4>3
    <3>3. ObjShape(objs[i], Len(subs), subs[j].start, subs[j].ch, given[j], got')
      BY <3>1, <3>2 DEF ObjShape
    <3> QED BY <1>4, <2>1, <2>n, <3>3 DEF ObjHolds
  <2> QED BY <2>z, <2>n
<1>r. ASSUME NEW i \in 1..Len(objs') PROVE RebindHolds(i)'
  <2>1. i \in 1..Len(objs) /\ RebindHolds(i) /\ NextShape(objs[i]) /\ (objs[i].next # 0 => i = table)
        /\ Len(subs) \in Nat
    <3>1. i \in 1..Len(objs)
      BY <1>4
    <3> QED BY <3>1, RebindFacts DEF StreamInv
  <2>2. objs[i].next # 0 => got'.sub # objs[i].next
    <3>1. SUFFICES ASSUME objs[i].next # 0 PROVE got'.sub # objs[i].next
      OBVIOUS
    <3>2. got.sub # objs[i].next /\ objs[i].next = Len(subs) /\ objs[i].sub < objs[i].next
      BY <2>1, <3>1 DEF NextShape
    <3>3. i = o /\ objs[i].sub = k
      BY <1>5, <2>1, <3>1 DEF k, obj
    <3>4. n.sub # objs[i].next
      BY <1>6, <1>9, <2>1, <3>2, <3>3
    <3> QED BY <1>12, <3>2, <3>4
  <2>3. NextShape(objs[i])'
    BY <1>4, <2>1, <2>2 DEF NextShape
  <2> QED BY <1>4, <2>1, <2>3 DEF RebindHolds, Rebinding
<1>21. StreamShape'
  <2>j. /\ n.id = 0 => (Joining' <=> Joining) /\ got' = got /\ arrival' = arrival
        /\ n.id # 0 => got' = n
    BY <1>4, <1>12 DEF Joining
  <2>2. Seen(k)' = IF n.id = 0 THEN f ELSE n
    <3>0. Seen(k)' = IF got' # NoFrame /\ got'.sub # k /\ ~Joining' THEN Frame(0, k) ELSE got'
      BY <1>4 DEF Seen, NoFrame, k, obj
    <3>1. CASE n.id = 0
      BY <1>f, <2>j, <3>0, <3>1 DEF Seen
    <3>2. CASE n.id # 0
      BY <1>9, <2>j, <3>0, <3>2
    <3> QED BY <3>1, <3>2
  <2> HIDE DEF Seen, Joining
  <2>3. AheadShape(h, subs[k].ch, given[k], strm.cursor + 1, Seen(k)')
    BY <1>9, <2>2
  <2>4. objs' = objs /\ subs' = subs /\ given' = given
    BY <1>4
  <2>5. Ahead(o)'
    BY <1>10, <2>3, <2>4 DEF Ahead, h, k, obj
  <2>6. Joining' /\ arrival'.own /\ got' # NoFrame => got'.sub = k
    BY <1>8, <1>9, <2>j
  <2>7. got' # NoFrame /\ ~Joining' => got'.sub <= k
    BY <1>6, <1>8, <1>9, <2>j
  <2> QED BY <1>10, <2>4, <2>5, <2>6, <2>7 DEF StreamShape, k, obj
<1> QED BY <1>14, <1>15, <1>16, <1>17, <1>18, <1>19, <1>20, <1>21, <1>s, <1>r, Whole

(* A subscription whose channel loses its first place. *)
LEMMA SubPumps ==
  ASSUME NEW u \in Subscriptions, NEW v, NEW g, NEW b, NEW e, SubShape(u, g, b, e), u.ch # <<>>,
         v.start = u.start, v.st = u.st, v.ch = Tail(u.ch)
  PROVE  SubShape(v, g, b, e)
<1>1. u.ch \in Seq(Nat) /\ HubBuffer \in Nat
  BY StreamAssumption DEF Subscriptions
<1>2. /\ Len(u.ch) \in Nat /\ Len(v.ch) = Len(u.ch) - 1
      /\ \A p \in 1..Len(v.ch) : v.ch[p] = u.ch[p + 1] /\ p + 1 \in 1..Len(u.ch)
  BY <1>1
<1>3. \A p, q \in 1..Len(v.ch) : p < q => p + 1 < q + 1
  OBVIOUS
<1>4. \A p \in 1..Len(v.ch) : v.ch[p] = 0 \/ v.ch[p] \in g
  BY <1>2 DEF SubShape
<1>5. \A p, q \in 1..Len(v.ch) : p < q /\ v.ch[p] # 0 /\ v.ch[q] # 0 => v.ch[p] < v.ch[q]
  BY <1>2, <1>3 DEF SubShape
<1>6. Len(v.ch) <= HubBuffer + 1 /\ (v.st = "on" => Len(v.ch) <= HubBuffer)
  BY <1>1, <1>2 DEF SubShape
<1> QED BY <1>4, <1>5, <1>6 DEF SubShape

(* pump: one frame moves from a subscription's channel to its object's       *)
(* history.                                                                  *)
LEMMA PumpKeeps ==
  ASSUME StreamInv, NEW o \in DOMAIN objs, Pump(o) PROVE StreamInv'
<1>1. StreamTypes /\ o \in 1..Len(objs) /\ objs \in Seq(EgressObjects) /\ subs \in Seq(Subscriptions)
  BY DEF StreamInv, StreamTypes
<1>2. PICK k : k = objs[o].sub
  OBVIOUS
<1>3. PICK h : h = objs[o].hist
  OBVIOUS
<1>4. PICK c : c = subs[k].ch
  OBVIOUS
<1>5. PICK r : r = AppendFrame(h, Frame(Head(c), k))
  OBVIOUS
<1> DEFINE u == [subs[k] EXCEPT !.ch = Tail(c)]
           y == [objs[o] EXCEPT !.hist = r]
<1>6. /\ k # 0 /\ objs[o].old = 0 /\ c # <<>> /\ subs' = [subs EXCEPT ![k] = u] /\ objs' = [objs EXCEPT ![o] = y]
      /\ strm' = IF Overrun(o, r) THEN [strm EXCEPT !.ended = TRUE] ELSE strm
      /\ UNCHANGED <<emitted, inbound, given, table, parked, client, got, arrival>>
  BY <1>2, <1>3, <1>4, <1>5 DEF Pump, hubVars, clientVars
<1>7. /\ objs[o] \in EgressObjects /\ h \in Histories /\ k \in Nat /\ k \in 1..Len(subs) /\ k \in objs[o].had
      /\ objs[o].had \subseteq 1..Len(subs)
      /\ subs[k] \in Subscriptions /\ subs[k].start \in Nat /\ c \in Seq(Nat) /\ given[k] \in SUBSET Nat
      /\ HistoryShape(h, k, subs[k].start, c, given[k]) /\ GotShape(objs[o], got)
      /\ SubShape(subs[k], given[k], inbound, emitted)
  BY <1>1, <1>2, <1>3, <1>4, <1>6, ObjFacts
<1>8. u \in Subscriptions /\ u.start = subs[k].start /\ u.st = subs[k].st /\ u.ch = Tail(c)
  <2>1. Tail(c) \in Seq(Nat)
    BY <1>6, <1>7
  <2> QED BY <1>7, <2>1 DEF Subscriptions
<1>9. r \in Histories /\ HistoryShape(r, k, subs[k].start, Tail(c), given[k]) /\ h.newest <= r.newest /\ h.floor = r.floor
  <2>1. /\ subs[k].start >= 1 /\ \A x \in given[k] : subs[k].start <= x
        /\ \A p \in 1..Len(c) : c[p] = 0 \/ c[p] \in given[k]
        /\ \A p, q \in 1..Len(c) : p < q /\ c[p] # 0 /\ c[q] # 0 => c[p] < c[q]
    BY <1>4, <1>7 DEF SubShape
  <2>2. PICK s : s = subs[k].start
    OBVIOUS
  <2>3. PICK g : g = given[k]
    OBVIOUS
  <2>4. /\ h \in Histories /\ k \in Nat /\ s \in Nat /\ s >= 1 /\ c \in Seq(Nat) /\ c # <<>> /\ g \in SUBSET Nat
        /\ (\A x \in g : s <= x) /\ HistoryShape(h, k, s, c, g) /\ (\A p \in 1..Len(c) : c[p] = 0 \/ c[p] \in g)
        /\ r = AppendFrame(h, Frame(Head(c), k))
        /\ \A p, q \in 1..Len(c) : p < q /\ c[p] # 0 /\ c[q] # 0 => c[p] < c[q]
    BY <1>5, <1>6, <1>7, <2>1, <2>2, <2>3
  <2>5. Pumped(h, r, k, s, c, g)
    BY <2>4, HistoryPumps
  <2> QED BY <2>2, <2>3, <2>5 DEF Pumped
<1>10. y \in EgressObjects /\ y.sub = k /\ y.had = objs[o].had /\ y.hist = r /\ y.next = objs[o].next /\ y.old = objs[o].old
  BY <1>2, <1>7, <1>9 DEF EgressObjects
<1> HIDE DEF u, y
<1>11. /\ subs' \in Seq(Subscriptions) /\ Len(subs') = Len(subs)
       /\ \A i \in 1..Len(subs) : subs'[i] = IF i = k THEN u ELSE subs[i]
  BY <1>1, <1>6, <1>7, <1>8
<1>12. /\ objs' \in Seq(EgressObjects) /\ Len(objs') = Len(objs)
       /\ \A i \in 1..Len(objs) : objs'[i] = IF i = o THEN y ELSE objs[i]
  BY <1>1, <1>6, <1>10
<1>13. strm'.obj = strm.obj /\ strm'.cursor = strm.cursor /\ (strm'.ended \/ (strm'.ended = strm.ended /\ ~Overrun(o, r)))
       /\ strm' \in [obj : 0..Len(objs), cursor : Nat, ended : BOOLEAN]
  <2>1. strm \in [obj : 0..Len(objs), cursor : Nat, ended : BOOLEAN]
    BY <1>1 DEF StreamTypes
  <2>2. CASE Overrun(o, r)
    <3>1. strm' = [strm EXCEPT !.ended = TRUE]
      BY <1>6, <2>2
    <3> QED BY <2>1, <3>1
  <2>3. CASE ~Overrun(o, r)
    <3>1. strm' = strm
      BY <1>6, <2>3
    <3> QED BY <2>1, <2>3, <3>1
  <2> QED BY <2>2, <2>3
<1>14. StreamTypes'
  BY <1>1, <1>6, <1>11, <1>12, <1>13 DEF StreamTypes
<1>15. QueueShape(inbound', emitted')
  BY <1>6 DEF StreamInv
<1>n. \A i \in 1..Len(objs) : /\ objs'[i].sub = objs[i].sub /\ objs'[i].next = objs[i].next
                                /\ objs'[i].old = objs[i].old /\ objs'[i].had = objs[i].had
  BY <1>2, <1>10, <1>12
<1>16. ClientShape'
  <2>1. table \in 1..Len(objs) => objs'[table].sub = objs[table].sub
    BY <1>n
  <2>2. table # 0 => table \in 1..Len(objs)
    BY <1>1 DEF StreamTypes
  <2> QED BY <1>6, <1>11, <1>13, <2>1, <2>2 DEF StreamInv, ClientShape
<1>17. SeesWhole'
  BY <1>6 DEF StreamInv, SeesWhole, NextAfter
<1>s. ASSUME NEW a \in 1..Len(subs'), NEW b \in 1..Len(subs'), a < b
      PROVE  SharedShape(subs'[a], given'[a], subs'[b], given'[b])
  <2>1. SharedShape(subs[a], given[a], subs[b], given[b])
    BY <1>s, <1>11 DEF StreamInv
  <2>2. \A i \in 1..Len(subs) : subs'[i].start = subs[i].start /\ subs'[i].st = subs[i].st
    BY <1>8, <1>11
  <2> QED BY <1>6, <1>11, <2>1, <2>2, SharedStops
<1>18. ASSUME NEW i \in 1..Len(subs') PROVE SubShape(subs'[i], given'[i], inbound', emitted')
  <2>1. CASE i = k
    <3>1. SubShape(u, given[k], inbound, emitted)
      BY <1>4, <1>6, <1>7, <1>8, SubPumps
    <3> QED BY <1>6, <1>11, <2>1, <3>1
  <2>2. CASE i # k
    BY <1>6, <1>11, <2>2 DEF StreamInv, SubHolds
  <2> QED BY <2>1, <2>2
<1>19. Apart'
  BY <1>12, <1>n DEF StreamInv, Apart
<1>20. ASSUME NEW i \in 1..Len(objs'), i # o
       PROVE  /\ objs'[i] = objs[i] /\ objs[i].sub # k /\ ObjHolds(i)'
              /\ (objs[i].sub # 0 => subs'[objs[i].sub] = subs[objs[i].sub])
  <2>1. i \in 1..Len(objs) /\ objs'[i] = objs[i]
    BY <1>12, <1>20
  <2>2. PICK j : j = objs[i].sub
    OBVIOUS
  <2>z. CASE j = 0
    <3>1. ObjHolds(i)'
      BY <2>1, <2>2, <2>z DEF StreamInv, ObjHolds
    <3> QED BY <1>6, <2>1, <2>2, <2>z, <3>1
  <2>n. CASE j # 0
    <3>1. j \in 1..Len(subs) /\ j \in objs[i].had /\ ObjShape(objs[i], Len(subs), subs[j].start, subs[j].ch, given[j], got)
      BY <2>1, <2>2, <2>n DEF StreamInv, ObjHolds, ObjShape
    <3>2. j # k
      <4>1. objs[i].had \cap objs[o].had = {}
        BY <1>1, <1>20, <2>1 DEF StreamInv, Apart
      <4> QED BY <1>7, <3>1, <4>1
    <3>3. subs'[j] = subs[j]
      BY <1>11, <3>1, <3>2
    <3>4. ObjShape(objs'[i], Len(subs'), subs'[j].start, subs'[j].ch, given'[j], got')
      BY <1>6, <1>11, <2>1, <3>1, <3>3
    <3>5. ObjHolds(i)'
      BY <2>1, <2>2, <2>n, <3>4 DEF ObjHolds
    <3> QED BY <2>1, <2>2, <3>2, <3>3, <3>5
  <2> QED BY <2>z, <2>n
<1>21. objs'[o] = y /\ subs'[k] = u /\ ObjHolds(o)'
  <2>1. objs'[o] = y /\ subs'[k] = u
    BY <1>1, <1>7, <1>11, <1>12
  <2>2. GotShape(y, got)
    <3>1. ASSUME got # NoFrame, got.sub \in objs[o].had
          PROVE  IF got.sub = k THEN got.id <= r.newest ELSE got.id <= r.floor
      <4>1. IF got.sub = k THEN got.id <= h.newest ELSE got.id <= h.floor
        BY <1>2, <1>3, <1>7, <3>1 DEF GotShape
      <4>2. got.id \in Nat /\ h.newest \in Nat /\ r.newest \in Nat
        BY <1>1, <1>7, <1>9 DEF StreamTypes, Frames, Histories
      <4> QED BY <1>9, <4>1, <4>2
    <3> QED BY <1>10, <3>1 DEF GotShape
  <2>3. ObjShape(y, Len(subs), u.start, u.ch, given[k], got)
    BY <1>7, <1>8, <1>9, <1>10, <2>2 DEF ObjShape
  <2> QED BY <1>6, <1>10, <1>11, <2>1, <2>3 DEF ObjHolds
<1>r. ASSUME NEW i \in 1..Len(objs') PROVE RebindHolds(i)'
  <2>0. i \in 1..Len(objs) /\ RebindHolds(i)
    BY <1>12 DEF StreamInv
  <2>1. objs'[i].sub = objs[i].sub /\ objs'[i].next = objs[i].next /\ objs'[i].old = objs[i].old
    BY <1>n, <2>0
  <2>2. objs[i].next # 0 => /\ objs[i].next = Len(subs) /\ objs[i].sub < objs[i].next /\ got.sub # objs[i].next
                            /\ HistoryShape(NewHistory, objs[i].next, subs[objs[i].next].start,
                                            subs[objs[i].next].ch, given[objs[i].next])
                            /\ \A q \in 1..Len(objs) : objs[i].next \notin objs[q].had
    BY <2>0 DEF RebindHolds, NextShape
  <2>3. objs[i].next # 0 => subs'[objs[i].next] = subs[objs[i].next]
    <3>1. SUFFICES ASSUME objs[i].next # 0 PROVE subs'[objs[i].next] = subs[objs[i].next]
      OBVIOUS
    <3>2. objs[i].next # k /\ objs[i].next \in 1..Len(subs)
      <4>1. objs[i].next = Len(subs) /\ objs[i].next \notin objs[o].had
        BY <1>1, <2>2, <3>1
      <4>2. Len(subs) \in 1..Len(subs)
        BY <1>7
      <4> QED BY <1>7, <4>1, <4>2
    <3> QED BY <1>11, <3>2
  <2>4. NextShape(objs[i])'
    BY <1>6, <1>11, <1>12, <1>n, <2>1, <2>2, <2>3 DEF NextShape
  <2> QED BY <1>6, <1>11, <2>0, <2>1, <2>4 DEF RebindHolds, Rebinding
<1>22. StreamShape'
  <2>1. SUFFICES ASSUME strm.obj # 0 PROVE StreamShape'
    BY <1>13 DEF StreamShape
  <2>2. PICK i : i = strm.obj
    OBVIOUS
  <2>3. i \in 1..Len(objs) /\ strm.cursor \in Nat /\ got \in Frames /\ i = table /\ objs[i].sub # 0
    <3>1. i \in 0..Len(objs) /\ Len(objs) \in Nat /\ strm.cursor \in Nat /\ got \in Frames
      BY <1>1, <2>2 DEF StreamTypes
    <3>2. i = table /\ objs[table].sub # 0
      BY <2>1, <2>2 DEF StreamInv, ClientShape
    <3> QED BY <2>1, <2>2, <3>1, <3>2
  <2>j. PICK j : j = objs[i].sub
    OBVIOUS
  <2>f. PICK f : f = Seen(j)
    OBVIOUS
  <2>4. /\ ~strm.ended => AheadShape(objs[i].hist, subs[j].ch, given[j], strm.cursor, f)
        /\ Joining /\ arrival.own /\ got # NoFrame => got.sub = j
        /\ got # NoFrame /\ ~Joining => got.sub <= j
    BY <2>1, <2>2, <2>j, <2>f DEF StreamInv, StreamShape, Ahead
  <2>5. objs'[i].sub = j
    BY <1>n, <2>3, <2>j
  <2>g. Seen(j)' = f /\ (Joining' <=> Joining) /\ f \in Frames
    <3>1. j \in Nat
      BY <2>3, <2>j, ObjFacts
    <3> QED BY <1>6, <2>3, <2>f, <3>1 DEF Seen, Joining, Frame, Frames
  <2> HIDE DEF Seen, Joining
  <2>8. ~strm'.ended => AheadShape(objs'[i].hist, subs'[j].ch, given'[j], strm'.cursor, f)
    <3>1. CASE i # o
      <4>1. objs'[i] = objs[i] /\ subs'[j] = subs[j]
        BY <1>12, <1>20, <2>3, <2>j, <3>1
      <4>2. ~strm'.ended => ~strm.ended
        BY <1>13
      <4> QED BY <1>6, <1>13, <2>4, <4>1, <4>2
    <3>2. CASE i = o
      <4>1. ASSUME ~strm'.ended PROVE AheadShape(r, Tail(c), given[k], strm.cursor, f)
        <5>1. ~strm.ended /\ ~Overrun(o, r)
          BY <1>13, <4>1
        <5>2. ~(End(r) - strm.cursor > StreamBuffer)
          BY <2>2, <3>2, <5>1 DEF Overrun
        <5>3. AheadShape(h, c, given[k], strm.cursor, f)
          BY <1>2, <1>3, <1>4, <2>4, <2>j, <3>2, <5>1
        <5>4. Len(h.frames) <= Window /\ \A p, q \in 1..Len(c) : p < q /\ c[p] # 0 /\ c[q] # 0 => c[p] < c[q]
          BY <1>4, <1>7 DEF HistoryShape, SubShape
        <5>5. PICK g : g = given[k]
          OBVIOUS
        <5>6. PICK at : at = strm.cursor
          OBVIOUS
        <5>7. /\ g \in SUBSET Nat /\ at \in Nat /\ AheadShape(h, c, g, at, f) /\ ~(End(r) - at > StreamBuffer)
          BY <1>7, <2>3, <5>2, <5>3, <5>5, <5>6
        <5>8. AheadShape(r, Tail(c), g, at, f)
          BY <1>5, <1>6, <1>7, <2>g, <5>4, <5>7, AheadPumps
        <5> QED BY <5>5, <5>6, <5>8
      <4> QED BY <1>2, <1>6, <1>8, <1>10, <1>13, <1>21, <2>j, <3>2, <4>1
    <3> QED BY <3>1, <3>2
  <2>9. Ahead(i)' <=> AheadShape(objs'[i].hist, subs'[j].ch, given'[j], strm'.cursor, Seen(j)')
    BY <2>5 DEF Ahead
  <2> QED BY <1>6, <1>13, <2>2, <2>4, <2>5, <2>8, <2>9, <2>g DEF StreamShape
<1>23. \A i \in 1..Len(objs') : ObjHolds(i)'
  BY <1>20, <1>21
<1> QED BY <1>14, <1>15, <1>16, <1>17, <1>18, <1>19, <1>22, <1>23, <1>s, <1>r, Whole

(* The initial state has the invariant. *)
LEMMA StreamInvInit ==
  ASSUME StreamInit PROVE StreamInv
<1>1. /\ emitted = 0 /\ inbound = <<>> /\ subs = <<>> /\ given = <<>> /\ objs = <<>>
      /\ table = 0 /\ parked = 0 /\ strm = NoStream /\ client = [pc |-> "away", last |-> 0] /\ got = NoFrame
      /\ arrival = [from |-> NoFrame, resumed |-> FALSE, own |-> TRUE]
  BY DEF StreamInit
<1>2. Len(<<>>) = 0 /\ 1..0 = {} /\ 0..0 = {0} /\ 0 \in Nat
  OBVIOUS
<1>3. NoFrame \in Frames
  BY DEF NoFrame, Frame, Frames
<1>4. strm \in [obj : 0..Len(objs), cursor : Nat, ended : BOOLEAN] /\ strm.obj = 0
  BY <1>1, <1>2 DEF NoStream
<1>5. arrival \in [from : Frames, resumed : BOOLEAN, own : BOOLEAN] /\ arrival.from = NoFrame
  BY <1>1, <1>3
<1>6. client \in [pc : {"away", "opened", "subscribing", "subscribed", "attached"}, last : Nat] /\ client.pc = "away"
  BY <1>1
<1>7. emitted \in 0..MaxEvents /\ Len(inbound) <= Inbound /\ inbound \in Seq(Nat)
  BY <1>1, <1>2, StreamAssumption
<1>8. subs \in Seq(Subscriptions) /\ given \in Seq(SUBSET Nat) /\ Len(given) = Len(subs) /\ objs \in Seq(EgressObjects)
      /\ Len(subs) = 0 /\ Len(objs) = 0
  BY <1>1, <1>2
<1>9. StreamTypes
  BY <1>1, <1>3, <1>4, <1>5, <1>6, <1>7, <1>8 DEF StreamTypes
<1>10. QueueShape(inbound, emitted) /\ SeesWhole /\ StreamShape /\ ClientShape
  BY <1>1, <1>2, <1>4, <1>5, <1>6 DEF QueueShape, SeesWhole, StreamShape, ClientShape
<1>11. Apart /\ \A a, b \in 1..Len(subs) : a < b => SharedShape(subs[a], given[a], subs[b], given[b])
  BY <1>2, <1>8 DEF Apart
<1> QED BY <1>2, <1>8, <1>9, <1>10, <1>11 DEF StreamInv

(* Every step of the stream keeps the invariant. *)
LEMMA StreamInvStep ==
  ASSUME StreamInv, [StreamNext]_streamVars PROVE StreamInv'
<1>1. CASE Publish
  BY <1>1, PublishKeeps
<1>2. CASE Deliver
  BY <1>2, DeliverKeeps
<1>3. CASE Rebind
  BY <1>3, RebindKeeps
<1>4. CASE Connect
  BY <1>4, ConnectKeeps
<1>5. CASE Subscribe
  BY <1>5, SubscribeKeeps
<1>6. CASE Attach
  BY <1>6, AttachKeeps
<1>7. CASE SendFrame
  BY <1>7, SendFrameKeeps
<1>8. CASE StreamEnds
  BY <1>8, StreamEndsKeeps
<1>9. CASE ConnectionLost
  BY <1>9, ConnectionLostKeeps
<1>10. CASE Unpark
  BY <1>10, UnparkKeeps
<1>11. ASSUME NEW o \in DOMAIN objs, Pump(o) PROVE StreamInv'
  BY <1>11, PumpKeeps
<1>12. ASSUME NEW o \in DOMAIN objs, PumpEnds(o) PROVE StreamInv'
  BY <1>12, PumpEndsKeeps
<1>13. ASSUME NEW o \in DOMAIN objs, Swap(o) PROVE StreamInv'
  BY <1>13, SwapKeeps
<1>14. ASSUME NEW o \in DOMAIN objs, LetGo(o) PROVE StreamInv'
  BY <1>14, LetGoKeeps
<1>15. CASE Resubscribed
  BY <1>15, ResubscribedKeeps
<1>16. CASE UNCHANGED streamVars
  BY <1>16, StutterKeeps
<1> QED BY <1>1, <1>2, <1>3, <1>4, <1>5, <1>6, <1>7, <1>8, <1>9, <1>10, <1>11, <1>12, <1>13, <1>14, <1>15, <1>16
     DEF StreamNext

(* The invariant has what the client sees whole. *)
LEMMA StreamInvSafe ==
  ASSUME StreamInv PROVE SeesWhole
BY DEF StreamInv

(* The invariant bounds the queue, the channels and the windows. *)
LEMMA StreamInvTypes ==
  ASSUME StreamInv PROVE StreamTypeOK
<1> USE StreamAssumption
<1>1. StreamTypes
  BY DEF StreamInv
<1>2. inbound \in Seq(1..MaxEvents)
  <2>1. emitted \in 0..MaxEvents /\ MaxEvents \in Nat /\ inbound \in Seq(Nat)
    BY <1>1 DEF StreamTypes
  <2>2. \A p \in 1..Len(inbound) : 1 <= inbound[p] /\ inbound[p] <= emitted
    BY DEF StreamInv, QueueShape
  <2>3. \A p \in 1..Len(inbound) : inbound[p] \in 1..MaxEvents
    BY <2>1, <2>2
  <2> HIDE StreamAssumption
  <2> QED BY <2>1, <2>3, SeqDef
<1>3. \A k \in DOMAIN subs : Len(subs[k].ch) <= HubBuffer + 1
  <2>1. DOMAIN subs = 1..Len(subs)
    BY <1>1 DEF StreamTypes
  <2>2. \A k \in 1..Len(subs) : SubShape(subs[k], given[k], inbound, emitted)
    BY DEF StreamInv, SubHolds
  <2> QED BY <2>1, <2>2 DEF SubShape
<1>4. \A o \in DOMAIN objs : Len(objs[o].hist.frames) <= Window
  <2>1. DOMAIN objs = 1..Len(objs)
    BY <1>1 DEF StreamTypes
  <2>2. \A o \in 1..Len(objs) : ObjHolds(o)
    BY DEF StreamInv
  <2>3. Len(<<>>) = 0 /\ Window \in Nat /\ 0 <= Window
    OBVIOUS
  <2> QED BY <2>1, <2>2, <2>3 DEF ObjHolds, ObjShape, HistoryShape
<1>5. {table, parked} \subseteq 0..Len(objs) /\ client.pc \in {"away", "opened", "subscribing", "subscribed", "attached"}
  BY <1>1 DEF StreamTypes
<1> QED BY <1>1, <1>2, <1>3, <1>4, <1>5 DEF StreamTypes, StreamTypeOK

===============================================================================
