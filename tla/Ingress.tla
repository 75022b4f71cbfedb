--------------------------------- MODULE Ingress ---------------------------------
(******************************************************************************)
(* One Session's Submits on their way to the log: the turn queue and the      *)
(* idempotency keys (server/ingress ingress.go, idempotency.go), the stages   *)
(* of server/command's pipeline, and the Kafka producer with the records      *)
(* whose fate is not known (producer.go).  How long an Intent is held for its *)
(* Character is Bindings, when a Partition is read-only PartitionHealth.      *)
(*                                                                            *)
(* A Submit is a goroutine: its steps are the stretches between two locks or  *)
(* waits.  The Session's Zones are on one Partition.  Other Sessions appear   *)
(* as a buffer that may be full and as produce requests that may have been    *)
(* written.  The entry of a key has the number of the Submit that made it.    *)
(******************************************************************************)
EXTENDS Integers, Sequences, FiniteSets, SequencesExt

CONSTANTS
  MaxCalls,     \* bound: Submits of the Session
  MayLackKey,   \* bound: the Submits that may come without a client_ref
  MaxPending,   \* ingress.max_pending: Submits in flight, and keys held
  MaxRecords,   \* bound: records of the Session handed to a client
  MaxDrops      \* bound: how often the Partition's client is dropped

ASSUME IngressAssumption ==
  MaxCalls \in Nat /\ MayLackKey \subseteq 1..MaxCalls /\ MaxPending \in Nat \ {0} /\ MaxRecords \in Nat /\ MaxDrops \in Nat

Calls == 1..MaxCalls
NoRef == 0
Raws == {1, 2}

VARIABLES
  call,        \* each Submit's goroutine: [pc, ref, raw, waits, answer]
  keys,        \* table.keys: the Submits whose entries are held
  order,       \* table.order, oldest first; a slot may outlive its key until the next sweep
  entry,       \* each Submit's entry: see Entries
  prev,        \* turn.prev: the Submit before this one in the queue; 0: none
  tail,        \* session.tail
  passed,      \* the Submits whose turn.done is closed
  leaving,     \* the Submits whose place closes after the one before it
  pending,     \* session.pending
  restarting,  \* the draining flag
  drained,     \* WaitAdmitted has reported that every admitted Submit returned
  gen,         \* the Partition's client: how many were dropped before it
  rec,         \* each Submit's record in a client: [st, att, gen]
  enq,         \* the records in the order of TryProduce
  log,         \* external: the Commands topic, as the Submits' numbers
  released,    \* history: the entries given up to the window or to make room
  turns        \* history: the Submits in the order they took their places

tableVars == <<keys, order, entry, released>>
callVars == <<call, tableVars>>
queueVars == <<prev, tail, passed, leaving, pending, turns>>
lifeVars == <<restarting, drained>>
produceVars == <<gen, rec, enq, log>>
vars == <<callVars, queueVars, lifeVars, produceVars>>

NoRecord == [st |-> "none", att |-> 0, gen |-> 0]
Idle == [pc |-> "idle", ref |-> NoRef, raw |-> 1, waits |-> 0, answer |-> "none"]

(* An entry is made open; its outcome is kept or it is transient. *)
Entries == {"none", "open", "accepted", "rejected", "unknown", "transient"}
Kept == {"accepted", "rejected", "unknown"}

Init ==
  /\ call = [c \in Calls |-> Idle]
  /\ keys = {} /\ order = <<>> /\ entry = [c \in Calls |-> "none"] /\ released = {}
  /\ prev = [c \in Calls |-> 0] /\ tail = 0 /\ passed = {} /\ leaving = {} /\ pending = 0
  /\ turns = <<>>
  /\ restarting = FALSE /\ drained = FALSE
  /\ gen = 0
  /\ rec = [c \in Calls |-> NoRecord] /\ enq = <<>> /\ log = <<>>

--------------------------------------------------------------------------------
At(c, pc) == call[c].pc = pc
Goes(c, pc) == call' = [call EXCEPT ![c].pc = pc]

(* What a Submit is answered.  "refused" stands for the answers that say that *)
(* this Submit produced nothing and that are not remembered: rate_limited,    *)
(* pending_full, server_restarting, world_read_only, in_transit, a duplicate  *)
(* client_ref, a refused principal, and the end of the caller's context while *)
(* it waits.                                                                  *)
Codes == {"none", "accepted", "rejected", "refused", "produce_deadline", "outcome_unknown"}

(* The Submit returns; `of' is the Submit whose outcome it is given. *)
Answers(c, code, of) ==
  call' = [call EXCEPT ![c].pc = "done", ![c].answer = code, ![c].waits = of]

(* Submits the flag let in that have not returned. *)
Admitted == {c \in Calls : call[c].pc \notin {"idle", "done"}}

HasKey(c) == call[c].ref # NoRef

(* table.resolve: a transient outcome leaves the keys at once, its slot in the *)
(* order goes with the next sweep.                                            *)
Resolve(c, outcome) ==
  /\ entry' = [entry EXCEPT ![c] = IF HasKey(c) THEN outcome ELSE @]
  /\ keys' = IF outcome \in Kept THEN keys ELSE keys \ {c}
  /\ UNCHANGED <<order, released>>

(* A new ref is the next one the client has not used; its Intent is Raw 1. *)
Used == {call[c].ref : c \in Calls} \ {NoRef}
Intents == {<<Cardinality(Used) + 1, 1>>} \cup (Used \X Raws)

(* table.sweep: what was resolved longer ago than the window goes. *)
Resolved == {e \in keys : entry[e] \in Kept}
Ordered(held) == SelectSeq(order, LAMBDA e : e \in held)

(* The Submit c has the Intent i and goes on at pc. *)
GoesWith(c, i, pc, waits) ==
  call' = [call EXCEPT ![c].pc = pc, ![c].ref = i[1], ![c].raw = i[2], ![c].waits = waits]

(* lookup, the ref known: refused for another Intent, or to wait for its outcome. *)
LookupHit(c, i, held) ==
  \E e \in held :
    /\ call[e].ref = i[1]
    /\ keys' = held /\ order' = Ordered(held) /\ UNCHANGED entry
    /\ \/ call[e].raw # i[2] /\ Answers(c, "refused", 0)
       \/ call[e].raw = i[2] /\ GoesWith(c, i, "await", e)

(* lookup's eviction: the oldest entry that is resolved. *)
Evictable(held) ==
  LET o == Ordered(held)
  IN  {e \in held : entry[e] \in Kept
         /\ \E n \in 1..Len(o) : o[n] = e /\ \A m \in 1..(n - 1) : entry[o[m]] = "open"}

(* A new entry, the youngest of those that are held. *)
MakesEntry(c, i, held) ==
  /\ keys' = held \cup {c} /\ order' = Append(Ordered(held), c)
  /\ entry' = [entry EXCEPT ![c] = "open"] /\ GoesWith(c, i, "enter", 0)

(* lookup, the ref not known: an entry is made where there is room. *)
LookupMiss(c, i, held) ==
  /\ \A e \in held : call[e].ref # i[1]
  /\ \/ Cardinality(held) < MaxPending /\ MakesEntry(c, i, held)
     \/ /\ Cardinality(held) >= MaxPending
        /\ \E old \in Evictable(held) : MakesEntry(c, i, held \ {old})
     \/ /\ Cardinality(held) >= MaxPending /\ Evictable(held) = {}
        /\ keys' = held /\ order' = Ordered(held) /\ UNCHANGED entry
        /\ Answers(c, "refused", 0)

(* lookup, under the Session's lock. *)
Lookup(c, i) ==
  /\ \E swept \in SUBSET Resolved :
       LookupHit(c, i, keys \ swept) \/ LookupMiss(c, i, keys \ swept)
  /\ released' = released \cup (keys \ keys')

(* The next Submit of the Session arrives. *)
Arrives(c) == At(c, "idle") /\ \A b \in 1..(c - 1) : ~At(b, "idle")

(* submit, to its first wait: the draining flag, the rate limit, and the key,  *)
(* if it has one.                                                              *)
Submit(c) ==
  /\ Arrives(c)
  /\ \/ Answers(c, "refused", 0) /\ UNCHANGED tableVars
     \/ ~restarting /\ c \in MayLackKey /\ Goes(c, "enter") /\ UNCHANGED tableVars
     \/ ~restarting /\ \E i \in Intents : Lookup(c, i)
  /\ UNCHANGED <<queueVars, lifeVars, produceVars>>

(* await: the outcome that was kept is the answer; after a transient one this *)
(* Submit looks again.                                                        *)
Await(c) ==
  /\ At(c, "await")
  /\ LET e == call[c].waits
     IN  \/ entry[e] = "accepted" /\ Answers(c, "accepted", e) /\ UNCHANGED tableVars
         \/ entry[e] = "rejected" /\ Answers(c, "rejected", e) /\ UNCHANGED tableVars
         \/ entry[e] = "unknown" /\ Answers(c, "outcome_unknown", e) /\ UNCHANGED tableVars
         \/ entry[e] = "transient" /\ Lookup(c, <<call[c].ref, call[c].raw>>)
  /\ UNCHANGED <<queueVars, lifeVars, produceVars>>

(* The caller's context ends while it waits for another Submit's outcome. *)
AwaitGivesUp(c) ==
  /\ At(c, "await")
  /\ Answers(c, "refused", 0)
  /\ UNCHANGED <<tableVars, queueVars, lifeVars, produceVars>>

(* Mutant: the limit is one Submit too high. *)
EnterOverfull(c) ==
  /\ At(c, "enter") /\ pending <= MaxPending
  /\ pending' = pending + 1
  /\ prev' = [prev EXCEPT ![c] = tail] /\ tail' = c /\ turns' = Append(turns, c)
  /\ Goes(c, "queued")
  /\ UNCHANGED <<tableVars, passed, leaving, lifeVars, produceVars>>

(* session.enter: a place behind every earlier Submit, or none. *)
Enter(c) ==
  /\ At(c, "enter")
  /\ \/ /\ pending >= MaxPending
        /\ Resolve(c, "transient") /\ Answers(c, "refused", 0)
        /\ UNCHANGED queueVars
     \/ /\ pending < MaxPending
        /\ pending' = pending + 1
        /\ prev' = [prev EXCEPT ![c] = tail] /\ tail' = c /\ turns' = Append(turns, c)
        /\ Goes(c, "queued")
        /\ UNCHANGED <<tableVars, passed, leaving>>
  /\ UNCHANGED <<lifeVars, produceVars>>

TurnPassed(c) == prev[c] = 0 \/ prev[c] \in passed

(* session.leave *)
Leave(c) ==
  /\ passed' = passed \cup {c} /\ pending' = pending - 1
  /\ UNCHANGED <<prev, tail, leaving, turns>>

(* Mutant: a Submit that gives up closes its place at once. *)
LeaveAfterAtOnce(c) ==
  /\ passed' = passed \cup {c} /\ pending' = pending - 1
  /\ UNCHANGED <<prev, tail, leaving, turns>>

(* session.leaveAfter: its place closes only once the one before it has. *)
LeaveAfter(c) ==
  /\ leaving' = leaving \cup {c} /\ pending' = pending - 1
  /\ UNCHANGED <<prev, tail, passed, turns>>

(* Mutant: a Submit that gives up in the queue leaves its key open. *)
QueuedGivesUpForgets(c) ==
  /\ At(c, "queued")
  /\ LeaveAfter(c) /\ Answers(c, "refused", 0)
  /\ UNCHANGED <<tableVars, lifeVars, produceVars>>

(* The caller's context ends while it waits for its turn. *)
QueuedGivesUp(c) ==
  /\ At(c, "queued")
  /\ LeaveAfter(c) /\ Resolve(c, "transient") /\ Answers(c, "refused", 0)
  /\ UNCHANGED <<lifeVars, produceVars>>

PlaceCloses(c) ==
  /\ c \in leaving /\ TurnPassed(c)
  /\ leaving' = leaving \ {c} /\ passed' = passed \cup {c}
  /\ UNCHANGED <<prev, tail, pending, turns, callVars, lifeVars, produceVars>>

--------------------------------------------------------------------------------
(* Pipeline.Submit returns an error before anything was enqueued, and settle *)
(* resolves the entry with it: kept if it is a rejection of the Intent.      *)
Refused(c, code) ==
  /\ Leave(c) /\ Answers(c, code, 0)
  /\ Resolve(c, IF code = "rejected" THEN "rejected" ELSE "transient")
  /\ UNCHANGED <<lifeVars, produceVars>>

Runs(c) == At(c, "queued") /\ TurnPassed(c)

(* Parse, the verb's role, and a Session with no Character. *)
Reject(c) == Runs(c) /\ Refused(c, "rejected")

(* The hold for a Character between Zones runs out, or the caller's context    *)
(* ends in it (Bindings); Produce finds the Partition read-only or the buffer  *)
(* full.                                                                       *)
RefuseRun(c) == Runs(c) /\ Refused(c, "refused")

(* Produce hands the record to the Partition's client.  The client may be one *)
(* that was made while this Submit was between the check and here.            *)
Produce(c) ==
  /\ Runs(c) /\ Len(enq) < MaxRecords
  /\ rec' = [rec EXCEPT ![c] = [st |-> "buffered", att |-> 0, gen |-> gen]]
  /\ enq' = Append(enq, c)
  /\ Goes(c, "wait")
  /\ UNCHANGED <<tableVars, queueVars, lifeVars, gen, log>>

(* The promise has fired. *)
Fired(c) == rec[c].st \in {"acked", "failed", "lost", "refused"}

(* Mutant: any refusal of the broker is taken for a record that is not in the log. *)
RefusedAny(c) == rec[c].st = "refused"

(* Only one attempt left the process and the broker refused it: the record is *)
(* not in the log.  The count is the Partition's, so it may be taken for more.*)
RefusedOnce(c) == rec[c].st = "refused" /\ rec[c].att = 1

(* The promise fires within the deadline, with the record acknowledged or the *)
(* one attempt refused.                                                       *)
Produced(c) ==
  /\ At(c, "wait")
  /\ \/ /\ rec[c].st = "acked"
        /\ Leave(c) /\ Resolve(c, "accepted") /\ Answers(c, "accepted", c)
     \/ /\ RefusedOnce(c)
        /\ Leave(c) /\ Resolve(c, "transient") /\ Answers(c, "refused", 0)
  /\ UNCHANGED <<lifeVars, produceVars>>

(* Produce returns Unsettled: the promise failed, or the deadline or the       *)
(* caller's context ended first with the record live.  The entry stays open.   *)
ProduceDeadline(c) ==
  /\ At(c, "wait")
  /\ Leave(c) /\ Answers(c, "produce_deadline", 0)
  /\ UNCHANGED <<tableVars, lifeVars, produceVars>>

(* Mutant: a record is taken for unwritten when its promise failed. *)
FatesOfFailure(c) == IF rec[c].st = "acked" THEN {"accepted"} ELSE {"transient"}

(* KafkaProducer.settle: landed; not written, if no produce request left the  *)
(* process since (another Session's may have); or never to be known.          *)
Fates(c) ==
  IF rec[c].st = "acked" THEN {"accepted"}
  ELSE IF rec[c].att = 0 THEN {"transient", "unknown"}
  ELSE {"unknown"}

(* Ingress.settle's goroutine: the record's fate is known, and resolves the entry. *)
Settle(c) ==
  /\ entry[c] = "open" /\ call[c].answer = "produce_deadline" /\ Fired(c)
  /\ \E fate \in Fates(c) : Resolve(c, fate)
  /\ UNCHANGED <<call, queueVars, lifeVars, produceVars>>

--------------------------------------------------------------------------------
(* Mutant: WaitAdmitted counts only the Submits that have a place. *)
WaitAdmittedQueued ==
  /\ restarting /\ pending = 0
  /\ drained' = TRUE
  /\ UNCHANGED <<restarting, callVars, queueVars, produceVars>>

RefuseRestarting ==
  /\ restarting' = TRUE
  /\ UNCHANGED <<drained, callVars, queueVars, produceVars>>

WaitAdmitted ==
  /\ restarting /\ Admitted = {}
  /\ drained' = TRUE
  /\ UNCHANGED <<restarting, callVars, queueVars, produceVars>>

--------------------------------------------------------------------------------
(* The Partition: its health, its client and the broker. *)
produceUnchanged == <<callVars, queueVars, lifeVars>>

(* onHealthChange: the client of a Partition that is read-only now is dropped; *)
(* closing it fails what it held, record by record.  A client that held        *)
(* nothing of the Session makes no difference to it.                           *)
DropClient ==
  /\ gen < MaxDrops /\ \E c \in Calls : rec[c].st \in {"buffered", "sent"}
  /\ gen' = gen + 1
  /\ UNCHANGED <<rec, enq, log, produceUnchanged>>

(* The records enqueued in the same client before c. *)
Ahead(c) ==
  {e \in Calls : \E i, j \in 1..Len(enq) :
     i < j /\ enq[i] = e /\ enq[j] = c /\ rec[e].gen = rec[c].gen}

InLog(c) == c \in ToSet(log)

(* A produce request that carries c leaves the process, for the first time or *)
(* again; counted before its answer can be read.                              *)
Write(c) ==
  /\ rec[c].st \in {"buffered", "sent"} /\ rec[c].att < 2
  /\ \A e \in Ahead(c) : rec[e].st # "buffered"
  /\ rec' = [rec EXCEPT ![c].st = "sent", ![c].att = @ + 1]
  /\ UNCHANGED <<gen, enq, log, produceUnchanged>>

(* The broker appends it: the idempotent producer keeps one client's order and *)
(* writes once.  A request can arrive after the client gave its record up.     *)
Land(c) ==
  /\ ~InLog(c) /\ rec[c].st \in {"sent", "lost"}
  /\ \A e \in Ahead(c) : rec[e].st \in {"sent", "lost"} => InLog(e)
  /\ log' = Append(log, c)
  /\ UNCHANGED <<gen, rec, enq, produceUnchanged>>

(* The promise: acknowledged; the last attempt refused by the broker for want  *)
(* of a permission; given up with its client, which may have sent it; or given *)
(* up by the delivery timeout, which takes back only what was never sent.      *)
Promise(c) ==
  /\ \/ rec[c].st = "sent" /\ InLog(c) /\ rec' = [rec EXCEPT ![c].st = "acked", ![c].att = 1]
     \/ /\ rec[c].st = "sent" /\ (InLog(c) => rec[c].att = 2)
        /\ rec' = [rec EXCEPT ![c].st = "refused"]
     \/ rec[c].st = "sent" /\ rec[c].gen < gen /\ rec' = [rec EXCEPT ![c].st = "lost", ![c].att = 1]
     \/ rec[c].st = "buffered" /\ rec' = [rec EXCEPT ![c].st = "failed"]
  /\ UNCHANGED <<gen, enq, log, produceUnchanged>>

--------------------------------------------------------------------------------
(* What a Submit's goroutines do by themselves. *)
Proceeds(c) ==
  \/ Await(c) \/ Enter(c) \/ PlaceCloses(c)
  \/ Reject(c) \/ RefuseRun(c) \/ Produce(c) \/ Produced(c) \/ ProduceDeadline(c)

Next ==
  \/ \E c \in Calls :
       \/ Submit(c) \/ Proceeds(c) \/ Settle(c)
       \/ AwaitGivesUp(c) \/ QueuedGivesUp(c)
       \/ Write(c) \/ Land(c) \/ Promise(c)
  \/ RefuseRestarting \/ WaitAdmitted
  \/ DropClient

Spec == Init /\ [][Next]_vars

--------------------------------------------------------------------------------
TypeOK ==
  /\ \A c \in Calls :
       /\ call[c].pc \in {"idle", "await", "enter", "queued", "wait", "done"}
       /\ call[c].ref \in 0..MaxCalls /\ call[c].raw \in Raws
       /\ call[c].answer \in Codes /\ entry[c] \in Entries /\ prev[c] \in 0..MaxCalls
       /\ rec[c].st \in {"none", "buffered", "sent", "acked", "failed", "lost", "refused"}
  /\ Cardinality(keys) <= MaxPending /\ pending \in 0..MaxPending
  /\ passed \subseteq Calls /\ leaving \subseteq Calls
  /\ \A e \in keys : entry[e] \in Kept \cup {"open"}

(* AW-SRV-031: a client_ref is one Command.  Two records of one ref are in the *)
(* log only if the key of one of them was given up to the window or to make    *)
(* room, whatever deadlines, retries, dropped clients and late writes there    *)
(* were.                                                                       *)
LoggedOnce ==
  \A i, j \in 1..Len(log) :
    i < j /\ HasKey(log[i]) /\ call[log[i]].ref = call[log[j]].ref
      => log[i] \in released \/ log[j] \in released

(* An answer is true, then and later: an accepted offset is in the log, and a  *)
(* Submit told that nothing was produced is not, nor is the one whose          *)
(* rejection it was given.                                                     *)
AnswersTruthful ==
  \A c \in Calls :
    /\ call[c].answer = "accepted" => InLog(call[c].waits)
    /\ call[c].answer \in {"refused", "rejected"} => ~InLog(c)
    /\ call[c].answer = "rejected" /\ call[c].waits # 0 => ~InLog(call[c].waits)

PlaceOf(c) == CHOOSE i \in 1..Len(turns) : turns[i] = c

(* AC-2: a Session's Commands are in the log in the order its Submits took     *)
(* their places.  Only a record of a client that was dropped may come late,    *)
(* and its Submit was told that its outcome was not known.                     *)
InOrder ==
  \A i, j \in 1..Len(log) :
    i < j /\ PlaceOf(log[i]) > PlaceOf(log[j])
      => /\ rec[log[j]].gen < rec[log[i]].gen
         /\ call[log[j]].answer = "produce_deadline"

(* RefuseRestarting and WaitAdmitted: once pre-stop has been told that the     *)
(* admitted Submits returned, no record enters a client any more.              *)
DrainedIsQuiet == [][drained => enq' = enq]_vars

(* Every path resolves its key: an entry in flight belongs to a Submit that is *)
(* still running, or to a record whose promise has yet to be told to settle.   *)
(* A key left open would make every retry of its client_ref wait for good.     *)
OpenIsOwned ==
  \A c \in Calls : entry[c] = "open" =>
    call[c].pc # "done" \/ (call[c].answer = "produce_deadline" /\ rec[c].st # "none")

================================================================================
