---------------------------- MODULE PartitionHealth ----------------------------
(******************************************************************************)
(* One Partition's read-only state (server/ingress partitions.go) and what    *)
(* the producer does with it (producer.go): the probe goroutine and Submits   *)
(* whose records failed change it under the tracker's lock and publish the    *)
(* transition outside it, so that callbacks overtake each other; a Submit     *)
(* reads the flag and fetches the Partition's client in two steps.            *)
(******************************************************************************)
EXTENDS Integers

CONSTANTS
  NumProducers,  \* Submits that produce to the Partition
  MaxClients     \* bound: clients built for the Partition

ASSUME HealthAssumption == NumProducers \in Nat /\ MaxClients \in Nat

VARIABLES
  produceMark,   \* produceAt: "none", "held", or "ripe" once the hold has passed
  probeMark,     \* probeName # ""
  leaderMiss,    \* consecutive probes without a leader, 2 standing for more
  metadataMiss,  \* consecutive probes without an answer, 2 standing for more
  degraded,      \* the state, and the flag Degraded reads
  notice,        \* each goroutine's callback: [pc, degraded, read]
  gauge,         \* andara_ingress_degraded of the Partition
  current,        \* the Partition's client by number; 0: none
  clients,       \* how many clients were built
  since,         \* history: the client was built after the last recovery
  submit         \* each Submit in Produce: [pc, heard]

healthVars == <<produceMark, probeMark, leaderMiss, metadataMiss, degraded, notice, gauge,
                current, clients, since, submit>>

Producers == 1..NumProducers
Probe == 0
Publishers == Producers \cup {Probe}
Quiet == [pc |-> "none", degraded |-> FALSE, read |-> FALSE]
NoSubmit == [pc |-> "none", heard |-> "nothing"]

HealthInit ==
  /\ produceMark = "none" /\ probeMark = FALSE /\ leaderMiss = 0 /\ metadataMiss = 0
  /\ degraded = FALSE /\ notice = [g \in Publishers |-> Quiet] /\ gauge = FALSE
  /\ current = 0 /\ clients = 0 /\ since = FALSE
  /\ submit = [p \in Producers |-> NoSubmit]

AtMostTwo(n) == IF n > 2 THEN 2 ELSE n

(* settleLocked: the flag follows the marks, and a change is to be published. *)
SettleLocked(g, produce, probe) ==
  LET now == produce # "none" \/ probe
  IN  /\ produceMark' = produce /\ probeMark' = probe /\ degraded' = now
      /\ since' = (since /\ (now = degraded))
      /\ notice' = IF now = degraded THEN notice
                   ELSE [notice EXCEPT ![g] = [pc |-> "gauge", degraded |-> now, read |-> FALSE]]

(* A healthy probe after the hold ends a produce mark. *)
Healed == IF produceMark = "ripe" THEN "none" ELSE produceMark

(* ObserveProbe, by what the metadata says of the Partition. *)
ProbeFails ==
  /\ metadataMiss' = AtMostTwo(metadataMiss + 1) /\ leaderMiss' = 0
  /\ SettleLocked(Probe, produceMark, probeMark \/ metadataMiss + 1 >= 2)

ProbeNoLeader ==
  /\ metadataMiss' = 0 /\ leaderMiss' = AtMostTwo(leaderMiss + 1)
  /\ SettleLocked(Probe, produceMark, probeMark \/ leaderMiss + 1 >= 2)

ProbeBelowMinISR ==
  /\ metadataMiss' = 0 /\ leaderMiss' = 0
  /\ SettleLocked(Probe, produceMark, TRUE)

(* The Partition has its leader and replicas, or the topic has no such Partition. *)
ProbeHealthy ==
  /\ metadataMiss' = 0 /\ leaderMiss' = 0
  /\ SettleLocked(Probe, Healed, FALSE)

Free(g) == notice[g].pc = "none"

ObserveProbe ==
  /\ Free(Probe)
  /\ ProbeFails \/ ProbeNoLeader \/ ProbeBelowMinISR \/ ProbeHealthy
  /\ UNCHANGED <<gauge, current, clients, submit>>

(* ingress.degraded_hold passes since the last produce error. *)
DegradedHoldPasses ==
  /\ produceMark = "held" /\ produceMark' = "ripe"
  /\ UNCHANGED <<probeMark, leaderMiss, metadataMiss, degraded, notice, gauge, current, clients, since, submit>>

healthUnchanged == <<produceMark, probeMark, leaderMiss, metadataMiss, degraded>>

(* Produce finds the Partition writable. *)
CheckDegraded(p) ==
  /\ submit[p].pc = "none" /\ Free(p) /\ ~degraded
  /\ submit' = [submit EXCEPT ![p].pc = "checked"]
  /\ UNCHANGED <<healthUnchanged, notice, gauge, current, clients, since>>

(* clientFor: the Partition's client, built if there is none; the record is   *)
(* enqueued, and what the broker says from now on is heard for it.            *)
ClientFor(p) ==
  /\ submit[p].pc = "checked"
  /\ \/ current # 0 /\ UNCHANGED <<current, clients, since>>
     \/ /\ current = 0 /\ clients < MaxClients
        /\ current' = clients + 1 /\ clients' = clients + 1 /\ since' = ~degraded
  /\ submit' = [submit EXCEPT ![p] = [pc |-> "produced", heard |-> "nothing"]]
  /\ UNCHANGED <<healthUnchanged, notice, gauge>>

(* The tap (tap.go) reads a produce response: the latest word for every record alive. *)
NoteProduceResponse(word) ==
  /\ \E p \in Producers : submit[p].pc = "produced"
  /\ submit' = [p \in Producers |->
       IF submit[p].pc = "produced" THEN [submit[p] EXCEPT !.heard = word] ELSE submit[p]]
  /\ UNCHANGED <<healthUnchanged, notice, gauge, current, clients, since>>

(* The promise: a record that failed after the broker refused it marks the Partition. *)
PromiseFires(p) ==
  /\ submit[p].pc = "produced"
  /\ submit' = [submit EXCEPT ![p] = NoSubmit]
  /\ \/ UNCHANGED <<produceMark, probeMark, degraded, since, notice>>
     \/ submit[p].heard = "refused" /\ SettleLocked(p, "held", probeMark)
  /\ UNCHANGED <<leaderMiss, metadataMiss, gauge, current, clients>>

(* onHealthChange: the gauge is set to what the flag was a moment ago. *)
ReadFlag(g) ==
  /\ notice[g].pc = "gauge"
  /\ notice' = [notice EXCEPT ![g].pc = "set", ![g].read = degraded]
  /\ UNCHANGED <<healthUnchanged, gauge, current, clients, since, submit>>

SetGauge(g) ==
  /\ notice[g].pc = "set" /\ gauge' = notice[g].read
  /\ notice' = [notice EXCEPT ![g].pc = "drop"]
  /\ UNCHANGED <<healthUnchanged, current, clients, since, submit>>

(* Mutant: the callback of a recovery drops the client as that of an outage does. *)
IfDegradedOrNot(g) ==
  /\ notice[g].pc = "drop" /\ notice' = [notice EXCEPT ![g] = Quiet]
  /\ current' = 0 /\ since' = FALSE
  /\ UNCHANGED <<healthUnchanged, gauge, clients, submit>>

(* ifDegraded and dropClient, under the tracker's lock. *)
IfDegraded(g) ==
  /\ notice[g].pc = "drop" /\ notice' = [notice EXCEPT ![g] = Quiet]
  /\ current' = IF notice[g].degraded /\ degraded THEN 0 ELSE current
  /\ since' = (since /\ current' # 0)
  /\ UNCHANGED <<healthUnchanged, gauge, clients, submit>>

HealthNext ==
  \/ ObserveProbe \/ DegradedHoldPasses
  \/ \E p \in Producers : CheckDegraded(p) \/ ClientFor(p) \/ PromiseFires(p)
  \/ \E word \in {"ok", "refused"} : NoteProduceResponse(word)
  \/ \E g \in Publishers : ReadFlag(g) \/ SetGauge(g) \/ IfDegraded(g)

--------------------------------------------------------------------------------
HealthTypeOK ==
  /\ produceMark \in {"none", "held", "ripe"} /\ leaderMiss \in 0..2 /\ metadataMiss \in 0..2
  /\ \A g \in Publishers : notice[g].pc \in {"none", "gauge", "set", "drop"}
  /\ current \in 0..clients /\ clients \in 0..MaxClients
  /\ degraded = (produceMark # "none" \/ probeMark)

(* producer.go, onHealthChange: a client built since the Partition last became *)
(* writable is not closed while it stays so, however late the callback of an   *)
(* earlier outage runs.                                                        *)
HealthyClientKept == [][since /\ ~degraded' => current' = current]_healthVars

================================================================================
