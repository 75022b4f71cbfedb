---------------------------- MODULE CommandFeed ----------------------------
(***************************************************************************)
(* The Command log as the tick loop and a replica read it                  *)
(* (server/tickloop/kafka.go, seams.go and reader.go).  KafkaSource's      *)
(* fetch goroutine fills one buffer per Partition, checks that offsets     *)
(* follow on, and pauses a Partition whose buffer is full; the tick polls  *)
(* the buffers round-robin, skips frozen Partitions, and puts back what    *)
(* Step did not apply while the fetcher goes on.  A replica's              *)
(* CommandSource serves the ranges that the boundaries record from         *)
(* buffers of its own.                                                     *)
(*                                                                         *)
(* A record is its offset; Partitions are numbered from 1.                 *)
(***************************************************************************)
EXTENDS Integers, Sequences, FiniteSets, FiniteSetsExt

CONSTANTS
  NumPartitions,       \* assigned Partitions (64 in the code)
  MaxCommands,         \* Commands appended to one Partition, at most
  BufferPerPartition,  \* a buffer this long pauses its Partition
  MaxPerTick,          \* records one Poll takes
  MaxFeedFaults        \* Commands that do not decode, and Zones that fault, at most

ASSUME FeedAssumption ==
  /\ NumPartitions \in Nat /\ MaxCommands \in Nat /\ MaxPerTick \in Nat /\ BufferPerPartition \in Nat
  /\ MaxFeedFaults \in Nat

VARIABLES
  end,        \* the end offset of each Partition
  dropped,    \* its start offset
  garbled,    \* <<p, o>>: Commands that do not decode
  buffers,    \* what is fetched and not polled, per Partition
  expected,   \* the next offset the fetcher expects
  paused,     \* Partitions whose fetch is paused
  commandSource,     \* "ok", or why the source serves no more: "gap", "denied"
  cut,        \* the broker does not answer, as the last fetch or ping saw it
  batch,      \* what the tick polled, per Partition
  inTick,     \* a tick is between its Poll and its Requeue
  applied,    \* the next offset the World applies
  frozen,     \* Partitions with a faulted Zone
  boundaries, \* the applied offsets each tick recorded
  feedFaults, \* faults so far
  replicaSource     \* its buffers, the next offset it fetches, its offsets and its place

feedVars == <<end, dropped, garbled, buffers, expected, paused, commandSource, cut, batch, inTick,
              applied, frozen, boundaries, feedFaults, replicaSource>>
logVars    == <<end, dropped, garbled>>
sourceVars == <<buffers, expected, paused, commandSource, cut>>
feedWorld  == <<batch, inTick, applied, frozen, boundaries>>

Partitions == 1..NumPartitions

\* The offsets from a up to and without b.
Offsets(a, b) == [i \in 1..(b - a) |-> a + i - 1]

-----------------------------------------------------------------------------
(* The log.                                                                 *)

ProduceCommand(p) ==
  /\ end[p] < MaxCommands
  /\ end' = [end EXCEPT ![p] = @ + 1]
  /\ UNCHANGED <<dropped, garbled, sourceVars, feedWorld, feedFaults, replicaSource>>

ProduceGarbled(p) ==
  /\ end[p] < MaxCommands /\ feedFaults < MaxFeedFaults
  /\ garbled' = garbled \cup {<<p, end[p]>>}
  /\ end' = [end EXCEPT ![p] = @ + 1]
  /\ feedFaults' = feedFaults + 1
  /\ UNCHANGED <<dropped, sourceVars, feedWorld, replicaSource>>

\* Retention drops the oldest record of a Partition.
DropOldest(p) ==
  /\ dropped[p] < end[p] /\ feedFaults < MaxFeedFaults
  /\ dropped' = [dropped EXCEPT ![p] = @ + 1]
  /\ feedFaults' = feedFaults + 1
  /\ UNCHANGED <<end, garbled, sourceVars, feedWorld, replicaSource>>

-----------------------------------------------------------------------------
(* The fetch goroutine.                                                     *)

\* applyBackpressureLocked: pause at the limit, resume below half of it.
Backpressure(bufs) ==
  {p \in Partitions : \/ Len(bufs[p]) >= BufferPerPartition
                      \/ p \in paused /\ Len(bufs[p]) >= BufferPerPartition \div 2}

\* The records up to the first that does not decode.
Decoded(p, a, b) == LET G == {o \in a..(b - 1) : <<p, o>> \in garbled} IN
                    IF G = {} THEN b ELSE Min(G)

\* One fetch: records of the Partitions that are not paused, in order.  A
\* record that does not decode, or a position the broker has dropped, ends
\* the source with a gap; a full buffer pauses its Partition.
Fetch ==
  /\ commandSource = "ok"
  /\ \E upTo \in [Partitions -> 0..MaxCommands] :
       /\ \A p \in Partitions :
            IF p \in paused THEN upTo[p] = expected[p] ELSE upTo[p] \in expected[p]..end[p]
       /\ LET lost == {p \in Partitions \ paused : expected[p] < dropped[p]}
              got  == [p \in Partitions |-> IF p \in lost THEN expected[p]
                                            ELSE Decoded(p, expected[p], upTo[p])]
              bufs == [p \in Partitions |-> buffers[p] \o Offsets(expected[p], got[p])]
          IN /\ commandSource' = IF lost # {} \/ (\E p \in Partitions : got[p] < upTo[p]) THEN "gap" ELSE "ok"
             /\ buffers' = bufs
             /\ expected' = got
             /\ paused' = Backpressure(bufs)
  /\ cut' = FALSE
  /\ UNCHANGED <<logVars, feedWorld, feedFaults, replicaSource>>

\* A fetch or a ping that failed: nothing is fetched, and it is remembered.
FetchFails ==
  /\ commandSource = "ok" /\ feedFaults < MaxFeedFaults
  /\ cut' = TRUE
  /\ feedFaults' = feedFaults + 1
  /\ UNCHANGED <<logVars, buffers, expected, paused, commandSource, feedWorld, replicaSource>>

\* The broker refuses the principal: the goroutine ends.
FetchDenied ==
  /\ commandSource = "ok" /\ feedFaults < MaxFeedFaults
  /\ commandSource' = "denied"
  /\ feedFaults' = feedFaults + 1
  /\ UNCHANGED <<logVars, buffers, expected, paused, cut, feedWorld, replicaSource>>

-----------------------------------------------------------------------------
(* The tick.                                                                *)

\* selectRoundRobin: the rounds go over the Partitions in order, one record
\* each, so the i-th record of a buffer comes after the earlier rounds and,
\* within its own, after the lower Partitions.
Before(i, p) ==
  {q \in (Partitions \ frozen) \X (1..MaxCommands) :
     /\ q[2] <= Len(buffers[q[1]])
     /\ q[2] < i \/ (q[2] = i /\ q[1] < p)}

\* How many records each Partition gives, until max is reached.
Share(max) ==
  [p \in Partitions |->
     Cardinality({i \in 1..Len(buffers[p]) : p \notin frozen /\ Cardinality(Before(i, p)) < max})]

\* A gap ends the loop; with nothing to give, a refusal does, and a cut
\* broker is starvation, which the loop ticks through.
Poll ==
  /\ ~inTick /\ commandSource # "gap"
  /\ LET n == Share(MaxPerTick) IN
       /\ commandSource = "denied" => \E p \in Partitions : n[p] > 0
       /\ batch' = [p \in Partitions |-> SubSeq(buffers[p], 1, n[p])]
       /\ buffers' = [p \in Partitions |-> SubSeq(buffers[p], n[p] + 1, Len(buffers[p]))]
  /\ inTick' = TRUE
  /\ UNCHANGED <<logVars, expected, paused, commandSource, cut, applied, frozen, boundaries, feedFaults, replicaSource>>

\* Put back behind what was fetched meanwhile, a mutant of Requeued.
RequeuedBehind(back) == [p \in Partitions |-> buffers[p] \o back[p]]

\* requeue: at the front of the buffers.
Requeued(back) == [p \in Partitions |-> back[p] \o buffers[p]]

\* Step applies the batch; a Zone that faults at a record freezes its
\* Partition there, and the rest of it goes back to the source.  The tick
\* records how far it is.
StepAll(fault) ==
  /\ inTick
  /\ fault # <<>> => fault[1] \notin frozen /\ fault[2] \in 1..Len(batch[fault[1]])
                     /\ feedFaults < MaxFeedFaults
  /\ LET kept(p) == IF fault # <<>> /\ fault[1] = p THEN fault[2] - 1 ELSE Len(batch[p])
         now     == [p \in Partitions |-> applied[p] + kept(p)]
     IN /\ applied' = now
        /\ buffers' = Requeued([p \in Partitions |-> SubSeq(batch[p], kept(p) + 1, Len(batch[p]))])
        /\ boundaries' = IF now = applied THEN boundaries ELSE Append(boundaries, now)
  /\ frozen' = IF fault = <<>> THEN frozen ELSE frozen \cup {fault[1]}
  /\ feedFaults' = IF fault = <<>> THEN feedFaults ELSE feedFaults + 1
  /\ batch' = [p \in Partitions |-> <<>>]
  /\ inTick' = FALSE
  /\ UNCHANGED <<logVars, expected, paused, commandSource, cut, replicaSource>>

-----------------------------------------------------------------------------
(* A replica: CommandSource.                                                *)

\* NewCommandSource refuses offsets the log has dropped already.
ReplicaOpen ==
  /\ replicaSource.is = "closed"
  /\ replicaSource' = [replicaSource EXCEPT !.is = IF \E p \in Partitions : dropped[p] > 0 THEN "gap" ELSE "open"]
  /\ UNCHANGED <<logVars, sourceVars, feedWorld, feedFaults>>

\* The range of each Partition that the next boundary records.
Range1(p) == replicaSource.offsets[p]
Range2(p) == boundaries[replicaSource.at + 1][p]

Short(p) == Len(replicaSource.buf[p]) < Range2(p) - Range1(p)

\* Fetch polls while a range is short; a poll brings records of any Partition.
ReplicaPoll(p) ==
  /\ replicaSource.is = "open" /\ replicaSource.at < Len(boundaries) /\ \E q \in Partitions : Short(q)
  /\ \E n \in (replicaSource.next[p] + 1)..end[p] :
       LET got == Decoded(p, replicaSource.next[p], n)
       IN replicaSource' = [replicaSource EXCEPT
            !.is      = IF replicaSource.next[p] < dropped[p] \/ got < n THEN "gap" ELSE "open",
            !.buf[p]  = IF replicaSource.next[p] < dropped[p] \/ got < n THEN @
                        ELSE @ \o Offsets(replicaSource.next[p], n),
            !.next[p] = n]
  /\ UNCHANGED <<logVars, sourceVars, feedWorld, feedFaults>>

\* Every range is there: a range is served and dropped from its buffer.
ReplicaServe ==
  /\ replicaSource.is = "open" /\ replicaSource.at < Len(boundaries) /\ \A p \in Partitions : ~Short(p)
  /\ replicaSource' = [replicaSource EXCEPT
       !.is = IF \E p \in Partitions : replicaSource.buf[p] # <<>> /\ Head(replicaSource.buf[p]) # Range1(p)
                THEN "gap" ELSE "open",
       !.buf = [p \in Partitions |-> SubSeq(@[p], Range2(p) - Range1(p) + 1, Len(@[p]))],
       !.offsets = boundaries[replicaSource.at + 1],
       !.at = @ + 1]
  /\ UNCHANGED <<logVars, sourceVars, feedWorld, feedFaults>>

-----------------------------------------------------------------------------

AtZero == [p \in Partitions |-> 0]
Nothing == [p \in Partitions |-> <<>>]

FeedInit ==
  /\ end = AtZero /\ dropped = AtZero /\ garbled = {}
  /\ buffers = Nothing /\ expected = AtZero /\ paused = {} /\ commandSource = "ok" /\ cut = FALSE
  /\ batch = Nothing /\ inTick = FALSE /\ applied = AtZero /\ frozen = {} /\ boundaries = <<>>
  /\ feedFaults = 0
  /\ replicaSource = [is |-> "closed", buf |-> Nothing, next |-> AtZero, offsets |-> AtZero, at |-> 0]

FeedNext ==
  \/ \E p \in Partitions : ProduceCommand(p) \/ ProduceGarbled(p) \/ DropOldest(p)
  \/ Fetch \/ FetchFails \/ FetchDenied
  \/ Poll
  \/ \E fault \in {<<>>} \cup (Partitions \X (1..MaxPerTick)) : StepAll(fault)
  \/ ReplicaOpen \/ ReplicaServe
  \/ \E p \in Partitions : ReplicaPoll(p)

FeedSpec == FeedInit /\ [][FeedNext]_feedVars

-----------------------------------------------------------------------------

FeedTypeOK ==
  /\ \A p \in Partitions : dropped[p] <= end[p] /\ end[p] <= MaxCommands
                           /\ applied[p] <= expected[p] /\ expected[p] <= end[p]
  /\ paused \subseteq Partitions /\ frozen \subseteq Partitions
  /\ commandSource \in {"ok", "gap", "denied"} /\ cut \in BOOLEAN /\ inTick \in BOOLEAN
  /\ feedFaults \in 0..MaxFeedFaults
  /\ replicaSource.is \in {"closed", "open", "gap"}

\* Per Partition, what the tick holds and then what is buffered are the
\* offsets from the World's next to the fetcher's next, each once and in
\* order: fetches between a Poll and its Requeue, faults, frozen Partitions
\* and gaps neither skip a Command nor hand one out twice, and no record that
\* does not decode is among them.
FeedExact ==
  \A p \in Partitions :
    /\ batch[p] \o buffers[p] = Offsets(applied[p], expected[p])
    /\ \A o \in 0..(expected[p] - 1) : <<p, o>> \notin garbled

\* A replica that has not reported a gap has applied exactly what the
\* boundaries up to its place record, and its buffers hold what comes next.
ReplicaExact ==
  replicaSource.is = "open" =>
    /\ replicaSource.offsets = IF replicaSource.at = 0 THEN AtZero ELSE boundaries[replicaSource.at]
    /\ \A p \in Partitions : replicaSource.buf[p] = Offsets(replicaSource.offsets[p], replicaSource.next[p])
=============================================================================
