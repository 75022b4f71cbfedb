--------------------------- MODULE BoundaryReader ---------------------------
(***************************************************************************)
(* Reading the boundary Partition (server/tickloop/reader.go) as recovery  *)
(* and the state projector do: SeekAfter finds the round's own boundary by *)
(* binary search over a Partition with no index, roundBoundary reads it,   *)
(* HeadTick fixes where replay ends, and Next hands the boundaries out     *)
(* batch by batch.  Meanwhile a running server appends Events and          *)
(* boundaries to the Partition, the broker trims its start, and a write a  *)
(* dead process left in flight may land late, out of tick order.           *)
(*                                                                         *)
(* A record is the tick of its boundary, or 0 for anything else.  Offsets  *)
(* start at 0; the record at offset o is partition[o + 1].                 *)
(***************************************************************************)
EXTENDS Integers, Sequences, FiniteSets, FiniteSetsExt

CONSTANTS
  MaxOffset,    \* records appended at most
  MaxLate,      \* late writes of a dead process, at most
  ReplayBatch,  \* boundaries one Next asks for
  HeadWindow    \* the first window HeadTick reads from the end (64 in the code)

ASSUME ReaderAssumption ==
  /\ MaxOffset \in Nat /\ MaxLate \in Nat /\ {ReplayBatch, HeadWindow} \subseteq Nat \ {0}

VARIABLES
  partition,    \* the boundary Partition, trimmed records included
  trimmed,      \* its start offset
  lateWrites,         \* late writes that landed
  seek,         \* the search: the offsets listed and the two ends of the interval
  reader,       \* the reader's position, the offsets it buffers, what it expects
  replica,      \* the caller: its phase, its tick, the round and the head it read
  listed        \* the last boundary on the Partition when the head was listed

readerVars == <<partition, trimmed, lateWrites, seek, reader, replica, listed>>

LogEnd       == Len(partition)
Record(o) == partition[o + 1]

IsBoundary(o)     == Record(o) > 0
Boundaries(a, b)  == {o \in a..(b - 1) : IsBoundary(o)}
LastTick(a, b)    == IF Boundaries(a, b) = {} THEN 0
                     ELSE Record(CHOOSE o \in Boundaries(a, b) : \A q \in Boundaries(a, b) : q <= o)
Newest            == LET T == {partition[i] : i \in 1..Len(partition)} \cup {0}
                     IN CHOOSE t \in T : \A u \in T : u <= t

-----------------------------------------------------------------------------
(* The server, the broker and the dead process.                             *)

AppendEvent ==
  /\ LogEnd < MaxOffset
  /\ partition' = Append(partition, 0)
  /\ UNCHANGED <<trimmed, lateWrites, seek, reader, replica, listed>>

AppendBoundary ==
  /\ LogEnd < MaxOffset
  /\ partition' = Append(partition, Newest + 1)
  /\ UNCHANGED <<trimmed, lateWrites, seek, reader, replica, listed>>

\* A boundary of an earlier tick, after its successor's.
LateWrite ==
  /\ lateWrites < MaxLate /\ LogEnd < MaxOffset /\ Newest > 1
  /\ \E t \in 1..(Newest - 1) : partition' = Append(partition, t)
  /\ lateWrites' = lateWrites + 1
  /\ UNCHANGED <<trimmed, seek, reader, replica, listed>>

\* Retention removes the Partition's oldest record.
Trim ==
  /\ trimmed < LogEnd
  /\ trimmed' = trimmed + 1
  /\ UNCHANGED <<partition, lateWrites, seek, reader, replica, listed>>

-----------------------------------------------------------------------------
(* SeekAfter.                                                               *)

Refuse == replica' = [replica EXCEPT !.phase = "gap"]

\* The offsets are listed once.
SeekBegin(t) ==
  /\ replica.phase = "idle" /\ t \in {partition[i] : i \in (trimmed + 1)..LogEnd} \ {0}
  /\ seek' = [lo |-> trimmed, hi |-> LogEnd, so |-> trimmed, eo |-> LogEnd]
  /\ replica' = [replica EXCEPT !.phase = "seek", !.round = t]
  /\ UNCHANGED <<partition, trimmed, lateWrites, reader, listed>>

\* The first boundary at or after an offset, or none before the end: a probe
\* reads on past the end it was given when a fetch holds more.
ProbeAt(o, end) == LET F == Boundaries(o, LogEnd) IN
  IF F = {} THEN -1 ELSE CHOOSE q \in F : \A x \in F : q <= x

SeekProbe ==
  /\ replica.phase = "seek" /\ seek.lo < seek.hi
  /\ LET mid == seek.lo + (seek.hi - seek.lo) \div 2
         at  == ProbeAt(mid, seek.hi)
     IN IF mid < trimmed THEN Refuse /\ UNCHANGED seek
        ELSE /\ seek' = IF at >= 0 /\ Record(at) <= replica.round - 1
                          THEN [seek EXCEPT !.lo = at + 1] ELSE [seek EXCEPT !.hi = mid]
             /\ UNCHANGED replica
  /\ UNCHANGED <<partition, trimmed, lateWrites, reader, listed>>

\* The record where the search landed, taken for the next boundary; a mutant
\* of BoundaryAfter.
BoundaryAfterAt(lo) == lo < seek.eo /\ Record(lo) > replica.round - 1

\* Whether a boundary after the tick is on the log from where the search
\* landed on.
BoundaryAfter(lo) == /\ lo < seek.eo
                     /\ ProbeAt(lo, seek.eo) >= 0
                     /\ Record(ProbeAt(lo, seek.eo)) > replica.round - 1

\* The search has landed: no later boundary means the log no longer has the
\* round's, and the caller refuses it.  The reader expects the round's tick.
SeekEnd ==
  /\ replica.phase = "seek" /\ seek.lo >= seek.hi
  /\ IF seek.lo < trimmed \/ ~BoundaryAfter(seek.lo)
       THEN Refuse /\ UNCHANGED reader
       ELSE /\ reader' = [next |-> seek.lo, hwm |-> 0, start |-> seek.so,
                          expect |-> replica.round, buf |-> {}]
            /\ replica' = [replica EXCEPT !.phase = "round"]
  /\ UNCHANGED <<partition, trimmed, lateWrites, seek, listed>>

-----------------------------------------------------------------------------
(* Next.                                                                    *)

\* A fetch brings any number of records; the boundaries among them are
\* buffered, as their offsets, and the high watermark remembered.
Fetched(n) ==
  [reader EXCEPT !.next = n, !.hwm = IF LogEnd > @ THEN LogEnd ELSE @,
                 !.buf  = Boundaries(reader.next, n)]

\* The search landed past the boundary it looked for.
LandedPast(r) == r.expect # 0 /\ r.buf # {} /\ Record(Min(r.buf)) > r.expect

\* The reader starts over from the Partition's start.
StartOver(r) == [r EXCEPT !.buf = {}, !.next = r.start, !.expect = 0]

\* The first max boundaries of the buffer.
HandedOut(r, max)    == {o \in r.buf : Cardinality({q \in r.buf : q < o}) < max}

\* The rest of the buffer dropped, a mutant of HandedOver.
HandedOverAll(r, max) == [r EXCEPT !.buf = {}, !.expect = IF r.buf = {} THEN @ ELSE 0]

HandedOver(r, max) ==
  [r EXCEPT !.buf = @ \ HandedOut(r, max), !.expect = IF r.buf = {} THEN @ ELSE 0]

\* What one call of Next comes to when the fetch reaches up to n: a refusal
\* when the broker has dropped the offset, the start over, or a batch.
NextBoundaries(n, max) ==
  LET r == IF reader.buf = {} THEN Fetched(n) ELSE reader IN
  IF reader.buf = {} /\ reader.next < trimmed
    THEN [reader |-> reader, batch |-> {}, refused |-> TRUE]
  ELSE IF LandedPast(r)
    THEN [reader |-> StartOver(r), batch |-> {}, refused |-> FALSE]
  ELSE [reader |-> HandedOver(r, max), batch |-> HandedOut(r, max), refused |-> FALSE]

\* How far a fetch may reach; a full buffer needs none.
FetchEnds == IF reader.buf = {} THEN reader.next..LogEnd ELSE {reader.next}

\* roundBoundary: earlier boundaries are passed over, the round's is taken,
\* a later one refused.
ReaderRound(batch) ==
  IF \A o \in batch : Record(o) < replica.round THEN UNCHANGED replica
  ELSE IF \E o \in batch : Record(o) = replica.round
    THEN replica' = [replica EXCEPT !.phase = "head", !.tick = replica.round]
    ELSE Refuse

NextRound ==
  /\ replica.phase = "round"
  /\ \E n \in FetchEnds : LET call == NextBoundaries(n, 1) IN
       /\ reader' = call.reader
       /\ IF call.refused THEN Refuse ELSE ReaderRound(call.batch)
  /\ UNCHANGED <<partition, trimmed, lateWrites, seek, listed>>

-----------------------------------------------------------------------------
(* HeadTick and the replay to it.                                           *)

\* The first boundary of a window taken for its last, a mutant of LastBoundary.
LastBoundaryFirst(a, b) == IF Boundaries(a, b) = {} THEN 0 ELSE Record(ProbeAt(a, b))

LastBoundary(a, b) == LastTick(a, b)

\* Windows growing by four from the end, the first that holds a boundary; all
\* past the third are one, which reaches the start.
HeadTick ==
  LET from(w) == IF LogEnd - w < trimmed THEN trimmed ELSE LogEnd - w
      W       == {w \in {HeadWindow, 4 * HeadWindow, 16 * HeadWindow, LogEnd} :
                    Boundaries(from(w), LogEnd) # {}}
  IN IF W = {} THEN 0
     ELSE LastBoundary(from(CHOOSE w \in W : \A v \in W : w <= v), LogEnd)

ReadHead ==
  /\ replica.phase = "head"
  /\ replica' = [replica EXCEPT !.phase = "replay", !.head = HeadTick]
  /\ listed' = LastTick(trimmed, LogEnd)
  /\ UNCHANGED <<partition, trimmed, lateWrites, seek, reader>>

\* replay: the boundaries at or before the replica's tick and after the head
\* are left out; the rest must follow on, tick by tick.
TakeBatch(batch) ==
  LET due == {o \in batch : Record(o) > replica.tick /\ Record(o) <= replica.head} IN
  IF \A o \in due : Record(o) = replica.tick + Cardinality({q \in due : q <= o})
    THEN replica' = [replica EXCEPT !.tick = @ + Cardinality(due)]
    ELSE Refuse

NextReplay ==
  /\ replica.phase = "replay" /\ replica.tick < replica.head
  /\ \E n \in FetchEnds : LET call == NextBoundaries(n, ReplayBatch) IN
       /\ reader' = call.reader
       /\ IF call.refused THEN Refuse ELSE TakeBatch(call.batch)
  /\ UNCHANGED <<partition, trimmed, lateWrites, seek, listed>>

Replayed ==
  /\ replica.phase = "replay" /\ replica.tick >= replica.head
  /\ replica' = [replica EXCEPT !.phase = "done"]
  /\ UNCHANGED <<partition, trimmed, lateWrites, seek, reader, listed>>

-----------------------------------------------------------------------------

ReaderInit ==
  /\ partition = <<>> /\ trimmed = 0 /\ lateWrites = 0
  /\ seek = [lo |-> 0, hi |-> 0, so |-> 0, eo |-> 0]
  /\ reader = [next |-> 0, hwm |-> 0, start |-> 0, expect |-> 0, buf |-> {}]
  /\ replica = [phase |-> "idle", round |-> 0, tick |-> 0, head |-> 0]
  /\ listed = 0

ReaderNext ==
  \/ AppendEvent \/ AppendBoundary \/ LateWrite \/ Trim
  \/ \E t \in 1..MaxOffset : SeekBegin(t)
  \/ SeekProbe \/ SeekEnd \/ NextRound \/ ReadHead \/ NextReplay \/ Replayed

ReaderSpec == ReaderInit /\ [][ReaderNext]_readerVars

-----------------------------------------------------------------------------

ReaderTypeOK ==
  /\ partition \in Seq(0..MaxOffset) /\ LogEnd <= MaxOffset
  /\ trimmed \in 0..LogEnd /\ lateWrites \in 0..MaxLate
  /\ seek \in [lo : 0..MaxOffset, hi : 0..MaxOffset, so : 0..MaxOffset, eo : 0..MaxOffset]
  /\ reader \in [next : 0..LogEnd, hwm : 0..LogEnd, start : 0..LogEnd, expect : 0..MaxOffset,
                 buf : SUBSET (0..(LogEnd - 1))]
  /\ replica \in [phase : {"idle", "seek", "round", "head", "replay", "done", "gap"},
                  round : 0..MaxOffset, tick : 0..MaxOffset, head : 0..MaxOffset]
  /\ listed \in 0..MaxOffset

\* A log in tick order that still holds what the replica needs is never
\* refused: whatever Events lie between the boundaries, and however the
\* Partition grows while SeekAfter probes it and Next reads it, the search
\* lands at or before the round's boundary and the replay follows on.
\* "Holds what it needs" is what the search listed: a start offset that
\* moved past the listed one during the reading is the one way out.
NoFalseGap ==
  replica.phase = "gap" => lateWrites > 0 \/ trimmed > seek.so

\* Replay ends at the head: in a log in tick order the replica that says it
\* is done is at the tick of the last boundary the Partition held when the
\* head was listed, and nowhere past it.
EndsAtHead ==
  /\ replica.phase \in {"replay", "done"} /\ lateWrites = 0 => replica.head = listed
  /\ replica.phase = "done" =>
       replica.tick = IF replica.round > replica.head THEN replica.round ELSE replica.head

\* Nothing between is skipped: while the replica replays a log in tick
\* order, every boundary it still needs is in the reader's buffer or ahead of
\* its position, whatever the fetches brought and the batches left behind.
NothingSkipped ==
  replica.phase = "replay" /\ lateWrites = 0 /\ trimmed <= seek.so =>
    \A t \in (replica.tick + 1)..replica.head :
      \/ \E o \in reader.buf : Record(o) = t
      \/ \E o \in reader.next..(LogEnd - 1) : Record(o) = t
=============================================================================
