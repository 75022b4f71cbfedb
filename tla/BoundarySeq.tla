------------------------------ MODULE BoundarySeq ------------------------------
(******************************************************************************)
(* tickloop.boundarySeq: how Tick Boundary Records are put on the events      *)
(* topic so that it never holds a gap.  Two goroutines run its code: the tick *)
(* loop calls publish, and franz-go's promise goroutine calls resolve with a  *)
(* record's fate.  Both may hand boundaries to the producer (handOver), which *)
(* happens outside the mutex, one record at a time.                           *)
(*                                                                            *)
(* A critical section (mu held) is one step.  handOver is three steps per     *)
(* record as in the code: ask for room (once per batch), read the stopped     *)
(* flag, produce.                                                             *)
(*                                                                            *)
(* The producer and the broker are external: the model takes from franz-go    *)
(* what the comments of boundary_seq.go and kafka.go rely on (a record in the *)
(* buffer is written in order; one that times out fails all that is buffered  *)
(* behind it; promises run one after the other on one goroutine; a record's   *)
(* slot is freed only after its promise returned).                            *)
(******************************************************************************)
EXTENDS Integers, Sequences, FiniteSets

CONSTANTS
  MaxTick,      \* bound: the last tick whose boundary is published
  MaxBuffered,  \* the producer's buffer, in records (kafka.go maxBuffered)
  MaxRestarts   \* bound: how often the process may die and recover

ASSUME BoundaryAssumption ==
  /\ MaxTick \in Nat
  /\ MaxBuffered \in Nat
  /\ MaxRestarts \in Nat

VARIABLES
  tick,         \* the newest tick the loop called Publish for
  outstanding,  \* ticks handed over (or about to be), not yet resolved
  held,         \* ticks taken meanwhile, in order
  lostTick,     \* the boundary reported lost; 0 before
  acked,        \* the newest tick onAcked reported; 0 before
  phase,        \* what each goroutine is doing: see Phases
  batch,        \* what each goroutine still has to hand over
  running,      \* slots the promise being run holds: 1, or 0
  buffer,       \* external: taken by the producer, not yet written
  sent,         \* external: on the topic, the promise that says so not yet run
  failed,       \* external: dropped from the buffer, promise not yet run
  refused,      \* external: refused by a full buffer, promise not yet run
  others,       \* external: buffer slots Events and Commands hold
  used,         \* external: buffer slots in use
  topic,        \* external: the boundaries on the events topic
  restarts      \* how often the process died

seqVars == <<outstanding, held, lostTick, acked>>
threadVars == <<phase, batch, running>>
producerVars == <<buffer, sent, failed, refused, others, used>>
vars == <<tick, seqVars, threadVars, producerVars, topic, restarts>>

Threads == {"loop", "promise"}
Phases == {"idle", "room", "check", "produce"}

(* boundarySeq.lost and its mirror stopped: ticks start at 1, so the lost tick *)
(* says both.                                                                 *)
lost == lostTick # 0

Idle(t) == phase[t] = "idle"

(* s is the run of ticks after n: n + 1, n + 2, ... *)
Run(s, n) == \A i \in 1..Len(s) : s[i] = n + i

Init ==
  /\ tick = 0 /\ topic = <<>> /\ restarts = 0
  /\ outstanding = {} /\ held = <<>>
  /\ lostTick = 0 /\ acked = 0
  /\ phase = [t \in Threads |-> "idle"]
  /\ batch = [t \in Threads |-> <<>>]
  /\ running = 0
  /\ buffer = <<>> /\ sent = <<>> /\ failed = {} /\ refused = {}
  /\ others = 0 /\ used = 0

--------------------------------------------------------------------------------
(* loseLocked: the first loss, and the only one reported. *)
LoseLocked(t) ==
  /\ lostTick' = t
  /\ held' = <<>>

(* The batch goes to thread t's handOver, which starts with the room check. *)
StartHandOver(t, ticks) ==
  /\ phase' = [phase EXCEPT ![t] = "room"]
  /\ batch' = [batch EXCEPT ![t] = ticks]

EndHandOver(t) ==
  /\ phase' = [phase EXCEPT ![t] = "idle"]
  /\ batch' = [batch EXCEPT ![t] = <<>>]

(* publish on a boundary the loop brings: declare the oldest outstanding one *)
(* lost when the delivery timeout has passed for it, refuse after a loss,    *)
(* hold while anything is outstanding, else hand over.                       *)
PublishTimedOut ==
  /\ ~lost
  /\ \E n \in outstanding : (\A m \in outstanding : n <= m) /\ LoseLocked(n)
  /\ UNCHANGED <<outstanding, acked, phase, batch>>

PublishRefused == lost /\ UNCHANGED <<seqVars, phase, batch>>

(* Mutant: a boundary is handed over while an earlier one is outstanding. *)
PublishEager(n) ==
  /\ ~lost
  /\ outstanding # {} \/ held # <<>>
  /\ outstanding' = outstanding \cup {n}
  /\ StartHandOver("loop", <<n>>)
  /\ UNCHANGED <<held, lostTick, acked>>

PublishHeld(n) ==
  /\ ~lost
  /\ outstanding # {} \/ held # <<>>
  /\ held' = Append(held, n)
  /\ UNCHANGED <<outstanding, lostTick, acked, phase, batch>>

PublishNow(n) ==
  /\ ~lost
  /\ outstanding = {} /\ held = <<>>
  /\ outstanding' = {n}
  /\ StartHandOver("loop", <<n>>)
  /\ UNCHANGED <<held, lostTick, acked>>

(* KafkaPublisher.Publish for the next tick, every Event of which renders:    *)
(* one that did not would return before the boundary is looked at, and leave  *)
(* its tick out of the sequence.                                              *)
Publish ==
  /\ Idle("loop")
  /\ tick < MaxTick
  /\ tick' = tick + 1
  /\ \/ PublishTimedOut
     \/ PublishRefused
     \/ PublishHeld(tick + 1)
     \/ PublishNow(tick + 1)
  /\ UNCHANGED <<running, producerVars, topic, restarts>>

(* Mutant: the answer that comes after the loss is still reported. *)
ResolveLateAcks(n) ==
  /\ lost
  /\ outstanding' = outstanding \ {n}
  /\ acked' = n
  /\ UNCHANGED <<held, lostTick>>

(* resolve(n, fate) run by goroutine t: a late answer, a loss, an *)
(* acknowledgement.                                               *)
ResolveLate(n) ==
  /\ lost
  /\ outstanding' = outstanding \ {n}
  /\ UNCHANGED <<held, lostTick, acked>>

ResolveLost(n) ==
  /\ ~lost
  /\ outstanding' = outstanding \ {n}
  /\ LoseLocked(n)
  /\ UNCHANGED acked

(* Mutant: what was handed over counts as delivered with the first of it. *)
ResolveAckedAll(n) ==
  /\ ~lost
  /\ outstanding \ {n} # {} \/ held = <<>>
  /\ acked' \in outstanding /\ \A m \in outstanding : m <= acked'
  /\ outstanding' = outstanding \ {n}
  /\ UNCHANGED <<held, lostTick>>

ResolveAcked(n) ==
  /\ ~lost
  /\ outstanding \ {n} # {} \/ held = <<>>
  /\ acked' = n
  /\ outstanding' = outstanding \ {n}
  /\ UNCHANGED <<held, lostTick>>

(* Mutant: what was held is left for a publish that hands it over. *)
ResolveAckedWaits(t, n) ==
  /\ ~lost
  /\ outstanding \ {n} = {} /\ held # <<>>
  /\ acked' = n
  /\ outstanding' = {}
  /\ UNCHANGED <<held, lostTick, phase, batch>>

(* Mutant: what was held goes out without counting as outstanding. *)
ResolveAckedForgets(t, n) ==
  /\ ~lost
  /\ outstanding \ {n} = {} /\ held # <<>>
  /\ acked' = n
  /\ outstanding' = {}
  /\ held' = <<>>
  /\ StartHandOver(t, held)
  /\ UNCHANGED lostTick

(* It was the last outstanding one: all that was held goes out together. *)
ResolveAckedLast(t, n) ==
  /\ ~lost
  /\ outstanding \ {n} = {} /\ held # <<>>
  /\ acked' = n
  /\ outstanding' = {held[i] : i \in 1..Len(held)}
  /\ held' = <<>>
  /\ StartHandOver(t, held)
  /\ UNCHANGED lostTick

(* The promise goroutine takes the next queued promise; the slot its record *)
(* holds is freed when the promise, hand-over included, has returned.  A     *)
(* refused record never got a slot.                                          *)
PromiseAcked ==
  /\ Idle("promise") /\ running = 0
  /\ sent # <<>>
  /\ sent' = Tail(sent)
  /\ running' = 1
  /\ \/ ResolveLate(Head(sent)) /\ UNCHANGED <<phase, batch>>
     \/ ResolveAcked(Head(sent)) /\ UNCHANGED <<phase, batch>>
     \/ ResolveAckedLast("promise", Head(sent))
  /\ UNCHANGED <<tick, buffer, failed, refused, others, used, topic, restarts>>

PromiseFailed(n) ==
  /\ Idle("promise") /\ running = 0
  /\ n \in failed
  /\ failed' = failed \ {n}
  /\ running' = 1
  /\ ResolveLate(n) \/ ResolveLost(n)
  /\ UNCHANGED <<tick, phase, batch, buffer, sent, refused, others, used, topic, restarts>>

(* Mutant: a refused record frees a slot as one that was buffered does. *)
PromiseRefusedFrees(n) ==
  /\ Idle("promise") /\ running = 0
  /\ n \in refused
  /\ refused' = refused \ {n}
  /\ used' = used - 1
  /\ ResolveLate(n) \/ ResolveLost(n)
  /\ UNCHANGED <<tick, threadVars, buffer, sent, failed, others, topic, restarts>>

PromiseRefused(n) ==
  /\ Idle("promise") /\ running = 0
  /\ n \in refused
  /\ refused' = refused \ {n}
  /\ ResolveLate(n) \/ ResolveLost(n)
  /\ UNCHANGED <<tick, threadVars, buffer, sent, failed, others, used, topic, restarts>>

(* Mutant: a promise that has returned returns again. *)
PromiseReturnsAgain ==
  /\ Idle("promise")
  /\ running' = running - 1
  /\ used' = used - 1
  /\ UNCHANGED <<tick, seqVars, phase, batch, buffer, sent, failed, refused, others, topic, restarts>>

PromiseReturns ==
  /\ Idle("promise") /\ running = 1
  /\ running' = 0
  /\ used' = used - 1
  /\ UNCHANGED <<tick, seqVars, phase, batch, buffer, sent, failed, refused, others, topic, restarts>>

--------------------------------------------------------------------------------
(* handOver: the batch is lost before any of it is handed over when the *)
(* buffer cannot take all of it.                                        *)
HandOverRoom(t) ==
  /\ phase[t] = "room"
  /\ used + Len(batch[t]) <= MaxBuffered
  /\ phase' = [phase EXCEPT ![t] = "check"]
  /\ UNCHANGED <<tick, seqVars, batch, running, producerVars, topic, restarts>>

HandOverNoRoom(t) ==
  /\ phase[t] = "room"
  /\ used + Len(batch[t]) > MaxBuffered
  /\ ResolveLate(Head(batch[t])) \/ ResolveLost(Head(batch[t]))
  /\ EndHandOver(t)
  /\ UNCHANGED <<tick, running, producerVars, topic, restarts>>

(* The batch is done, or a loss was declared meanwhile. *)
HandOverDone(t) ==
  /\ phase[t] = "check"
  /\ lost \/ batch[t] = <<>>
  /\ EndHandOver(t)
  /\ UNCHANGED <<tick, seqVars, running, producerVars, topic, restarts>>

HandOverCheck(t) ==
  /\ phase[t] = "check"
  /\ ~lost
  /\ batch[t] # <<>>
  /\ phase' = [phase EXCEPT ![t] = "produce"]
  /\ UNCHANGED <<tick, seqVars, batch, running, producerVars, topic, restarts>>

(* TryProduce: a full buffer refuses the record, through its promise. *)
HandOverProduce(t) ==
  /\ phase[t] = "produce"
  /\ phase' = [phase EXCEPT ![t] = "check"]
  /\ batch' = [batch EXCEPT ![t] = Tail(batch[t])]
  /\ \/ /\ used < MaxBuffered
        /\ buffer' = Append(buffer, Head(batch[t]))
        /\ used' = used + 1
        /\ UNCHANGED refused
     \/ /\ used >= MaxBuffered
        /\ refused' = refused \cup {Head(batch[t])}
        /\ UNCHANGED <<buffer, used>>
  /\ UNCHANGED <<tick, seqVars, running, sent, failed, others, topic, restarts>>

--------------------------------------------------------------------------------
(* External: the producer writes the oldest buffered record.  The broker's *)
(* answer, and so the promise, may come much later or never.               *)
BrokerWrites ==
  /\ buffer # <<>>
  /\ topic' = Append(topic, Head(buffer))
  /\ sent' = Append(sent, Head(buffer))
  /\ buffer' = Tail(buffer)
  /\ UNCHANGED <<tick, seqVars, threadVars, failed, refused, others, used, restarts>>

(* External: the oldest buffered record times out, which fails everything     *)
(* buffered.  The buffer is emptied now; the promises that say so run later.  *)
(* The delivery timeout is a minute and a hand-over is a loop over a slice,   *)
(* so a record does not time out while its own batch is being handed over.    *)
DeliveryTimesOut ==
  /\ buffer # <<>>
  /\ \A t \in Threads : Idle(t)
  /\ failed' = failed \cup {buffer[i] : i \in 1..Len(buffer)}
  /\ buffer' = <<>>
  /\ UNCHANGED <<tick, seqVars, threadVars, sent, refused, others, used, topic, restarts>>

(* External: Events and Commands share the buffer.  A slot of theirs is freed *)
(* on the promise goroutine too, so never while it runs another promise.      *)
OthersTake ==
  /\ used < MaxBuffered
  /\ others' = others + 1 /\ used' = used + 1
  /\ UNCHANGED <<tick, seqVars, threadVars, buffer, sent, failed, refused, topic, restarts>>

OthersFree ==
  /\ Idle("promise") /\ running = 0
  /\ others > 0
  /\ others' = others - 1 /\ used' = used - 1
  /\ UNCHANGED <<tick, seqVars, threadVars, buffer, sent, failed, refused, topic, restarts>>

(* The topic never holds a gap or a duplicate (boundarySeq's purpose, and what *)
(* sim.ErrBoundaryGap would refuse at the next boot): the i-th boundary on it  *)
(* is tick i's, through losses, late writes and restarts.                      *)
Gapless == Run(topic, 0)

(* The process dies, or exits 5 on the loss, and its successor recovers to *)
(* the newest boundary on the topic; ReplayEach refuses a gap.             *)
Restart ==
  /\ Gapless
  /\ restarts < MaxRestarts
  /\ restarts' = restarts + 1
  /\ tick' = Len(topic)
  /\ outstanding' = {} /\ held' = <<>>
  /\ lostTick' = 0 /\ acked' = 0
  /\ phase' = [t \in Threads |-> "idle"]
  /\ batch' = [t \in Threads |-> <<>>]
  /\ running' = 0
  /\ buffer' = <<>> /\ sent' = <<>> /\ failed' = {} /\ refused' = {}
  /\ others' = 0 /\ used' = 0
  /\ UNCHANGED topic

HandOver(t) ==
  \/ HandOverRoom(t) \/ HandOverNoRoom(t)
  \/ HandOverCheck(t) \/ HandOverDone(t) \/ HandOverProduce(t)

Next ==
  \/ Publish
  \/ PromiseAcked \/ PromiseReturns
  \/ \E n \in 1..MaxTick : PromiseFailed(n) \/ PromiseRefused(n)
  \/ \E t \in Threads : HandOver(t)
  \/ BrokerWrites \/ DeliveryTimesOut
  \/ OthersTake \/ OthersFree
  \/ Restart

Spec == Init /\ [][Next]_vars

(* Goroutines keep running, a buffered record is written or times out, and a *)
(* written one is answered: an outage ends.  Nothing forces the loop to      *)
(* publish another boundary, an Event to take a slot or the process to die.  *)
Fairness ==
  /\ WF_vars(PromiseAcked) /\ WF_vars(PromiseReturns)
  /\ WF_vars(\E n \in 1..MaxTick : PromiseFailed(n) \/ PromiseRefused(n))
  /\ \A t \in Threads : WF_vars(HandOver(t))
  /\ WF_vars(BrokerWrites \/ DeliveryTimesOut)

FairSpec == Spec /\ Fairness

--------------------------------------------------------------------------------
(* The types of boundarySeq's fields and of the producer's queues. *)
TypeOK ==
  /\ tick \in Nat /\ acked \in Nat /\ lostTick \in Nat /\ restarts \in Nat
  /\ outstanding \in SUBSET Nat /\ held \in Seq(Nat)
  /\ running \in {0, 1}
  /\ phase \in [Threads -> Phases] /\ batch \in [Threads -> Seq(Nat)]
  /\ buffer \in Seq(Nat) /\ sent \in Seq(Nat) /\ topic \in Seq(Nat)
  /\ failed \in SUBSET Nat /\ refused \in SUBSET Nat
  /\ others \in Nat /\ used \in Int

(* What onAcked reports is on the topic, and so is everything before it: the *)
(* loop commits offsets and the snapshotter writes rounds on its word.       *)
AckedDelivered == acked <= Len(topic)

(* The boundary reported lost was not reported delivered, nor was any later   *)
(* one: the loop's cap at lost - 1 never has to discard an acknowledgement,   *)
(* and reportLost's last_delivered_tick is one a restart finds on the topic.  *)
LossNotAcked == lost => acked < lostTick

(* The slot arithmetic the room check relies on: every record the producer *)
(* holds, and nothing else, is counted, and the buffer never overflows.    *)
SlotsExact ==
  /\ used = others + Len(buffer) + Len(sent) + running + Cardinality(failed)
  /\ used <= MaxBuffered

(* Publication as seen by the loop, the snapshotter and recovery. *)
Log == INSTANCE BoundaryLog WITH delivered <- Len(topic)

(* The publisher implements that promise. *)
ImplementsBoundaryLog == Log!Spec

(* A boundary publish took is not kept waiting for ever: it is settled, or a *)
(* loss is declared, or the process is replaced.  A held boundary has no     *)
(* timeout of its own and no retry; only the resolve of an earlier one moves *)
(* it.                                                                       *)
TakenIsSettled ==
  \A n \in 1..MaxTick, r \in 0..MaxRestarts :
    (restarts = r /\ (n \in outstanding \/ \E i \in 1..Len(held) : held[i] = n))
      ~> (acked >= n \/ lost \/ restarts # r)

--------------------------------------------------------------------------------
(* The inductive invariant behind Gapless.  Free is the last tick that is on *)
(* the topic or in the buffer.                                               *)
Free == Len(topic) + Len(buffer)

LoopBatch == batch["loop"]
PromiseBatch == batch["promise"]

(* No slot is freed while the promise goroutine hands over, so once the   *)
(* buffer is full it refuses the rest of that batch.                      *)
Full == used >= MaxBuffered

(* Only one goroutine has something to hand over, and it continues what was *)
(* produced before it, or will be refused whole.                            *)
HandOverInv ==
  /\ \A t \in Threads : Idle(t) => batch[t] = <<>>
  /\ \A t \in Threads : phase[t] \in {"room", "produce"} => batch[t] # <<>>
  /\ Len(LoopBatch) <= 1
  /\ LoopBatch = <<>> \/ PromiseBatch = <<>>
  /\ Run(LoopBatch, Free)
  /\ Run(PromiseBatch, Free) \/ Full
  /\ \A i \in 1..Len(LoopBatch) : acked < LoopBatch[i]
  /\ \A i \in 1..Len(PromiseBatch) : acked < PromiseBatch[i]

(* Acknowledgements come in tick order, each for a boundary on the topic. *)
Oldest == Len(topic) - Len(sent) + 1

AckOrder ==
  /\ Len(sent) <= Len(topic)
  /\ Run(sent, Oldest - 1)
  /\ acked < Oldest

(* Nothing has failed: every tick up to the loop's is on the topic, in the *)
(* buffer, in a batch or held, in that order, and outstanding is exactly   *)
(* what waits for its promise.                                             *)
Handed == Free + Len(LoopBatch) + Len(PromiseBatch)

Healthy ==
  /\ failed = {} /\ refused = {}
  /\ Run(LoopBatch, Free) /\ Run(PromiseBatch, Free)
  /\ outstanding = Oldest..Handed
  /\ Run(held, Handed)
  /\ tick = Handed + Len(held)

(* A boundary has failed and its promise has not run yet: it is outstanding, *)
(* past everything produced, and nothing more can enter the buffer.          *)
Doomed ==
  /\ failed \cup refused # {}
  /\ \A n \in failed \cup refused : n \in outstanding /\ n > Free
  /\ \A n \in outstanding : Oldest <= n
  /\ \A n \in (Len(topic) + 1)..Free : n \in outstanding
  /\ \A i \in 1..Len(PromiseBatch) : PromiseBatch[i] \in outstanding /\ PromiseBatch[i] > Free
  /\ LoopBatch = <<>>
  /\ PromiseBatch = <<>> \/ Full

(* The whole, preserved by every step: the topic has no gap, the buffer       *)
(* continues it, and the sequencer is healthy, about to lose, or has lost.    *)
BoundaryInv ==
  /\ Gapless
  /\ Run(buffer, Len(topic))
  /\ HandOverInv
  /\ AckOrder
  /\ LossNotAcked
  /\ lost \/ Healthy \/ Doomed

================================================================================
