----------------------------- MODULE TickLoopProofs -----------------------------
(******************************************************************************)
(* Proofs about TickLoop, for every number of Partitions, records and ticks,  *)
(* every set of records that panic and any number of restarts: a checkpoint   *)
(* is of a recorded boundary and never goes back, every stored object is of a *)
(* recorded World, the boundaries are one history, and recovery refuses only  *)
(* after a tick that faulted a Zone.                                          *)
(******************************************************************************)
EXTENDS TickLoop, FiniteSetTheorems, SequenceTheorems, WellFoundedInduction, TLAPS

--------------------------------------------------------------------------------
(* The least and the greatest of a set of naturals. *)

(* A set of naturals that is not empty has a least element. *)
LEMMA LeastNatural ==
  ASSUME NEW S \in SUBSET Nat, S # {}
  PROVE  \E n \in S : \A x \in S : n <= x
<1> DEFINE R == {r \in Nat \X Nat : r[1] < r[2]}
<1>1. IsWellFoundedOn(R, Nat)
  <2>1. OpToRel(<, Nat) = R
    BY DEF OpToRel
  <2> QED BY <2>1, NatLessThanWellFounded
<1>2. PICK n \in S : \A x \in S : <<x, n>> \notin R
  BY <1>1, WFMin, Zenon
<1>3. \A x \in S : ~(x < n)
  BY <1>2
<1> QED BY <1>3

(* A set of naturals below a bound that is not empty has a greatest element. *)
LEMMA GreatestNatural ==
  ASSUME NEW N \in Nat, NEW S \in SUBSET (0..N), S # {}
  PROVE  \E n \in S : \A x \in S : x <= n
<1> DEFINE T == {N - x : x \in S}
<1>1. \A x \in S : x \in Nat /\ N - x \in Nat
  OBVIOUS
<1>2. T \in SUBSET Nat /\ T # {}
  BY <1>1, Zenon
<1>3. PICK n \in T : \A x \in T : n <= x
  BY <1>2, LeastNatural
<1>4. PICK m \in S : n = N - m
  BY <1>3
<1>5. ASSUME NEW x \in S PROVE x <= m
  <2>1. N - x \in T
    OBVIOUS
  <2>2. n <= N - x
    BY <2>1, <1>3
  <2>3. x \in Nat /\ m \in Nat /\ N - m <= N - x
    BY <2>2, <1>1, <1>4
  <2> QED BY <2>3
<1> QED BY <1>5

(* What Min returns. *)
LEMMA MinIsLeast ==
  ASSUME NEW S \in SUBSET Nat, S # {}
  PROVE  Min(S) \in S /\ \A x \in S : Min(S) <= x
BY LeastNatural DEF Min

(* What Max returns. *)
LEMMA MaxIsGreatest ==
  ASSUME NEW N \in Nat, NEW S \in SUBSET (0..N), S # {}
  PROVE  Max(S) \in S /\ \A x \in S : x <= Max(S)
BY GreatestNatural DEF Max

--------------------------------------------------------------------------------
(* The invariant. *)

(* The history up to tick n. *)
Prefix(w, n) == SubSeq(w, 1, n)

(* Every tick of a history is a Step from the one before. *)
Chain(w) ==
  \A i \in 1..Len(w) :
    \E to \in Batches(Prefix(w, i - 1)) : Prefix(w, i) = Step(Prefix(w, i - 1), to)

(* The offsets never go back along a history. *)
Ascending(w) ==
  \A i, j \in 1..Len(w) : i <= j => \A p \in Partitions : w[i].offsets[p] <= w[j].offsets[p]

(* A history the Engine can have. *)
History(w) == w \in Seq(TickOf) /\ Chain(w) /\ Ascending(w)

(* What the newest boundary is the hash of. *)
Recorded == IF topic = <<>> THEN <<>> ELSE topic[Len(topic)]

(* The boundaries are the prefixes of one history. *)
TopicInv ==
  /\ topic \in Seq(Seq(TickOf)) /\ Len(topic) \in 0..MaxTick
  /\ History(Recorded) /\ Len(Recorded) = Len(topic)
  /\ \A i \in 1..Len(topic) : topic[i] = Prefix(Recorded, i)

Alive == phase \in {"up", "ticked", "draining"}

(* A process that runs has a World that continues what was recorded before it, *)
(* and its boundaries are recorded from that World; one that does not run has  *)
(* nothing.                                                                    *)
WorldInv ==
  /\ History(world) /\ Len(world) \in 0..(MaxTick + 1)
  /\ Alive => Len(topic) <= Len(world) /\ Recorded = Prefix(world, Len(topic))
  /\ ~Alive => /\ world = <<>> /\ published = 0 /\ pending = <<>> /\ round = "none"
               /\ acked = 0 /\ lostTick = 0
  /\ phase = "ticked" => Len(world) > 0
  /\ base \in 0..Len(topic)
  /\ published \in 0..MaxTick /\ published <= Len(world)
  /\ published # 0 => published > base
  /\ acked \in 0..Len(topic) /\ lostTick \in 0..MaxTick

(* The ticks held for a checkpoint ascend, none is older than the checkpoint   *)
(* there is, and that one is of a recorded boundary.                           *)
CheckpointInv ==
  /\ pending \in Seq(Nat)
  /\ \A i, j \in 1..Len(pending) : i < j => pending[i] < pending[j]
  /\ \A i \in 1..Len(pending) :
       /\ pending[i] \in (base + 1)..published
       /\ pending[i] >= committed.tick
       /\ phase = "ticked" => pending[i] < Len(world)
  /\ committed.tick \in Nat
  /\ published # 0 => committed.tick <= published
  /\ published = 0 /\ Alive => committed.tick <= base
  /\ CheckpointDelivered

(* The round in flight copied the World at one of its ticks, and writes only  *)
(* once that tick was acknowledged.                                           *)
RoundInv ==
  /\ round \in Rounds /\ left \subseteq Partitions /\ copy \in Seq(TickOf)
  /\ round # "none" => Len(copy) \in 1..Len(world) /\ copy = Prefix(world, Len(copy))
  /\ round = "writing" => Len(copy) <= acked
  /\ \A o \in objects : o.zone \in Partitions /\ Len(o.world) \in 1..Len(topic)
  /\ RoundsVerify

Flags == phase \in Phases /\ forced \in BOOLEAN /\ restarts \in 0..MaxRestarts

LoopInv == Flags /\ TopicInv /\ WorldInv /\ CheckpointInv /\ RoundInv

--------------------------------------------------------------------------------
(* Prefixes of sequences. *)

LEMMA PrefixType ==
  ASSUME NEW S, NEW w \in Seq(S), NEW n \in 0..Len(w)
  PROVE  /\ Prefix(w, n) \in Seq(S) /\ Len(Prefix(w, n)) = n
         /\ \A i \in 1..n : Prefix(w, n)[i] = w[i]
BY DEF Prefix

LEMMA PrefixWhole ==
  ASSUME NEW S, NEW w \in Seq(S)
  PROVE  Prefix(w, Len(w)) = w
<1>1. Len(w) \in 0..Len(w)
  OBVIOUS
<1>2. /\ Prefix(w, Len(w)) \in Seq(S) /\ Len(Prefix(w, Len(w))) = Len(w)
      /\ \A i \in 1..Len(w) : Prefix(w, Len(w))[i] = w[i]
  BY <1>1, PrefixType
<1> QED BY <1>2, SeqEqual

LEMMA PrefixAppend ==
  ASSUME NEW S, NEW w \in Seq(S), NEW n \in 0..Len(w), NEW e \in S
  PROVE  Prefix(Append(w, e), n) = Prefix(w, n)
BY DEF Prefix

LEMMA PrefixPrefix ==
  ASSUME NEW S, NEW w \in Seq(S), NEW m \in 0..Len(w), NEW n \in 0..m
  PROVE  Prefix(Prefix(w, m), n) = Prefix(w, n)
BY DEF Prefix

LEMMA PrefixEmpty == \A n \in {0} : Prefix(<<>>, n) = <<>>
BY DEF Prefix

--------------------------------------------------------------------------------
(* What a Step does to a history. *)

(* The last tick's offsets and faulted Zones are of their types. *)
LEMMA LastTickTypes ==
  ASSUME NEW w \in Seq(TickOf)
  PROVE  Offsets(w) \in [Partitions -> 0..MaxRecords] /\ Faulted(w) \in SUBSET Partitions
<1>1. CASE w = <<>>
  BY <1>1, TickLoopAssumption DEF Offsets, Faulted, Start
<1>2. CASE w # <<>>
  <2>1. w[Len(w)] \in TickOf
    BY <1>2
  <2> QED BY <2>1, <1>2 DEF Offsets, Faulted, TickOf
<1> QED BY <1>1, <1>2

(* Where a Partition's records panic, its offset stops at the first of them. *)
LEMMA PanicsAt ==
  ASSUME NEW w \in Seq(TickOf), NEW to \in Batches(w), NEW p \in Partitions
  PROVE  /\ to[p] \in 0..MaxRecords /\ Offsets(w)[p] \in 0..to[p]
         /\ Panics(w, to, p) # {} => Min(Panics(w, to, p)) \in Offsets(w)[p]..(to[p] - 1)
         /\ p \in Faulted(w) => Panics(w, to, p) = {}
<1>1. to[p] \in 0..MaxRecords /\ Offsets(w)[p] \in 0..MaxRecords /\ Offsets(w)[p] <= to[p]
  BY LastTickTypes DEF Batches
<1>2. Panics(w, to, p) \subseteq Offsets(w)[p]..(to[p] - 1)
  BY DEF Panics
<1>3. Panics(w, to, p) \in SUBSET Nat
  BY <1>1, <1>2
<1>4. Panics(w, to, p) # {} => Min(Panics(w, to, p)) \in Panics(w, to, p)
  BY <1>3, MinIsLeast
<1>5. p \in Faulted(w) => Panics(w, to, p) = {}
  BY <1>1 DEF Batches, Panics
<1> QED BY <1>1, <1>2, <1>4, <1>5

(* One tick further, with offsets that did not go back. *)
LEMMA StepTick ==
  ASSUME NEW w \in Seq(TickOf), NEW to \in Batches(w)
  PROVE  \E e \in TickOf :
           /\ Step(w, to) = Append(w, e)
           /\ \A p \in Partitions : Offsets(w)[p] <= e.offsets[p]
<1> DEFINE off == [p \in Partitions |->
                     IF Panics(w, to, p) = {} THEN to[p] ELSE Min(Panics(w, to, p))]
           fau == Faulted(w) \cup {p \in Partitions : Panics(w, to, p) # {}}
           e == [offsets |-> off, faulted |-> fau]
<1>1. \A p \in Partitions : off[p] \in 0..MaxRecords /\ Offsets(w)[p] <= off[p]
  <2> TAKE p \in Partitions
  <2>1. /\ to[p] \in 0..MaxRecords /\ Offsets(w)[p] \in 0..to[p]
        /\ Panics(w, to, p) # {} => Min(Panics(w, to, p)) \in Offsets(w)[p]..(to[p] - 1)
    BY PanicsAt
  <2>2. off[p] = IF Panics(w, to, p) = {} THEN to[p] ELSE Min(Panics(w, to, p))
    OBVIOUS
  <2> HIDE DEF off
  <2>3. MaxRecords \in Nat
    BY TickLoopAssumption
  <2> QED BY <2>1, <2>2, <2>3
<1>2. off \in [Partitions -> 0..MaxRecords]
  BY <1>1
<1>3. fau \in SUBSET Partitions
  BY LastTickTypes
<1>4. e \in TickOf
  BY <1>2, <1>3 DEF TickOf
<1>5. Step(w, to) = Append(w, e)
  BY DEF Step
<1>6. e.offsets = off
  OBVIOUS
<1> QED BY <1>1, <1>4, <1>5, <1>6

(* A Step continues a history. *)
LEMMA HistoryStep ==
  ASSUME NEW w, History(w), NEW to \in Batches(w)
  PROVE  /\ History(Step(w, to)) /\ Len(Step(w, to)) = Len(w) + 1
         /\ \A n \in 0..Len(w) : Prefix(Step(w, to), n) = Prefix(w, n)
<1> DEFINE v == Step(w, to)
<1>w. w \in Seq(TickOf) /\ Chain(w) /\ Ascending(w) /\ Len(w) \in Nat
  BY DEF History
<1>1. PICK e \in TickOf : v = Append(w, e) /\ \A p \in Partitions : Offsets(w)[p] <= e.offsets[p]
  BY <1>w, StepTick
<1> HIDE DEF v
<1>2. /\ v \in Seq(TickOf) /\ Len(v) = Len(w) + 1 /\ v[Len(v)] = e
      /\ \A i \in 1..Len(w) : v[i] = w[i]
  BY <1>1, <1>w
<1>3. \A n \in 0..Len(w) : Prefix(v, n) = Prefix(w, n)
  BY <1>1, <1>w, PrefixAppend
<1>4. Chain(v)
  <2> SUFFICES ASSUME NEW i \in 1..Len(v)
               PROVE  \E t \in Batches(Prefix(v, i - 1)) : Prefix(v, i) = Step(Prefix(v, i - 1), t)
    BY DEF Chain
  <2>1. CASE i \in 1..Len(w)
    <3>1. i \in 0..Len(w) /\ i - 1 \in 0..Len(w)
      BY <2>1, <1>w
    <3>2. Prefix(v, i) = Prefix(w, i) /\ Prefix(v, i - 1) = Prefix(w, i - 1)
      BY <3>1, <1>3
    <3> QED BY <3>2, <2>1, <1>w DEF Chain
  <2>2. CASE i = Len(w) + 1
    <3>1. Prefix(v, i) = v
      BY <2>2, <1>2, PrefixWhole
    <3>2. i - 1 = Len(w) /\ Len(w) \in 0..Len(w)
      BY <2>2, <1>w
    <3>3. Prefix(v, i - 1) = w
      BY <3>2, <1>3, <1>w, PrefixWhole
    <3> QED BY <3>1, <3>3 DEF v
  <2> QED BY <2>1, <2>2, <1>2, <1>w
<1>5. Ascending(v)
  <2> SUFFICES ASSUME NEW i \in 1..Len(v), NEW j \in 1..Len(v), i <= j, NEW p \in Partitions
               PROVE  v[i].offsets[p] <= v[j].offsets[p]
    BY DEF Ascending
  <2>1. CASE j \in 1..Len(w)
    <3>1. i \in 1..Len(w)
      BY <2>1
    <3> QED BY <3>1, <2>1, <1>2, <1>w DEF Ascending
  <2>e. v[i] \in TickOf /\ v[j] \in TickOf
    BY <1>2
  <2>n. v[i].offsets[p] \in Int /\ v[j].offsets[p] \in Int
    BY <2>e DEF TickOf
  <2>2. CASE j = Len(w) + 1 /\ i = j
    BY <2>2, <2>n
  <2>3. CASE j = Len(w) + 1 /\ i \in 1..Len(w)
    <3>1. w # <<>> /\ Offsets(w) = w[Len(w)].offsets /\ Len(w) \in 1..Len(w)
      BY <2>3, <1>w DEF Offsets
    <3>2. v[i] = w[i] /\ v[j] = e
      BY <2>3, <1>2
    <3>3. w[i].offsets[p] <= w[Len(w)].offsets[p]
      BY <2>3, <3>1, <1>w DEF Ascending
    <3>4. w[Len(w)].offsets[p] <= e.offsets[p]
      BY <3>1, <1>1
    <3>e. w[Len(w)] \in TickOf
      BY <3>1, <1>w
    <3>5. w[Len(w)].offsets[p] \in Int
      BY <3>e DEF TickOf
    <3> QED BY <3>2, <3>3, <3>4, <3>5, <2>n
  <2> QED BY <2>1, <2>2, <2>3, <1>2, <1>w
<1> QED BY <1>2, <1>3, <1>4, <1>5 DEF History, v

(* What was reached on the way is a history too. *)
LEMMA HistoryPrefix ==
  ASSUME NEW w, History(w), NEW n \in 0..Len(w)
  PROVE  /\ History(Prefix(w, n)) /\ Len(Prefix(w, n)) = n
         /\ \A i \in 0..n : Prefix(Prefix(w, n), i) = Prefix(w, i)
<1>w. w \in Seq(TickOf) /\ Chain(w) /\ Ascending(w) /\ Len(w) \in Nat
  BY DEF History
<1> DEFINE v == Prefix(w, n)
<1>1. v \in Seq(TickOf) /\ Len(v) = n /\ \A i \in 1..n : v[i] = w[i]
  BY <1>w, PrefixType
<1>2. \A i \in 0..n : Prefix(v, i) = Prefix(w, i)
  BY <1>w, PrefixPrefix
<1> HIDE DEF v
<1>3. Chain(v)
  <2> SUFFICES ASSUME NEW i \in 1..Len(v)
               PROVE  \E t \in Batches(Prefix(v, i - 1)) : Prefix(v, i) = Step(Prefix(v, i - 1), t)
    BY DEF Chain
  <2>1. i \in 0..n /\ i - 1 \in 0..n /\ i \in 1..Len(w)
    BY <1>1
  <2>2. Prefix(v, i) = Prefix(w, i) /\ Prefix(v, i - 1) = Prefix(w, i - 1)
    BY <2>1, <1>2
  <2> QED BY <2>1, <2>2, <1>w DEF Chain
<1>4. Ascending(v)
  BY <1>1, <1>w DEF Ascending
<1> QED BY <1>1, <1>2, <1>3, <1>4 DEF History, v

(* Nothing has happened yet. *)
LEMMA HistoryEmpty == History(<<>>) /\ Len(<<>>) = 0
BY DEF History, Chain, Ascending

(* A tick that faulted no Zone is reproduced from its recorded offsets. *)
LEMMA NoFaultReproduces ==
  ASSUME NEW w \in Seq(TickOf), NEW to \in Batches(w), Faulted(Step(w, to)) = Faulted(w)
  PROVE  Step(w, Offsets(Step(w, to))) = Step(w, to)
<1> DEFINE off == [p \in Partitions |->
                     IF Panics(w, to, p) = {} THEN to[p] ELSE Min(Panics(w, to, p))]
           fau == Faulted(w) \cup {p \in Partitions : Panics(w, to, p) # {}}
           e == [offsets |-> off, faulted |-> fau]
           v == Step(w, to)
<1>1. v = Append(w, e)
  BY DEF Step
<1>2. v # <<>> /\ v[Len(v)] = e
  BY <1>1
<1>3. Faulted(v) = fau /\ Offsets(v) = off
  BY <1>2 DEF Faulted, Offsets
<1>4. \A p \in Partitions : Panics(w, to, p) = {}
  <2> TAKE p \in Partitions
  <2>1. p \in Faulted(w) => Panics(w, to, p) = {}
    BY PanicsAt
  <2>2. fau = Faulted(w)
    BY <1>3
  <2> QED BY <2>1, <2>2
<1>5. to \in [Partitions -> 0..MaxRecords]
  BY DEF Batches
<1>6. off = to
  BY <1>4, <1>5
<1> QED BY <1>3, <1>6

--------------------------------------------------------------------------------
(* Checkpoints. *)

Sorted(q) == \A i, j \in 1..Len(q) : i < j => q[i] < q[j]

(* The ticks held, none older than c. *)
HeldFrom(q, c) ==
  /\ q \in Seq(Nat) /\ Sorted(q)
  /\ \A i \in 1..Len(q) : q[i] \in (base + 1)..published /\ q[i] >= c

(* The size of an interval that begins at 1. *)
LEMMA IntervalSize ==
  ASSUME NEW n \in Nat PROVE IsFiniteSet(1..n) /\ Cardinality(1..n) = n
<1>1. 1 \in Int /\ n \in Int
  OBVIOUS
<1>2. IsFiniteSet(1..n) /\ Cardinality(1..n) = IF 1 > n THEN 0 ELSE n - 1 + 1
  BY <1>1, FS_Interval, Zenon
<1> QED BY <1>2

(* commitAcked commits the newest of the ticks up to the cap: those before it *)
(* are up to the cap too.                                                     *)
LEMMA ReadyIsAcked ==
  ASSUME NEW q \in Seq(Nat), Sorted(q), Cap \in Int
  PROVE  Ready(q) \in 0..Len(q) /\ (Ready(q) > 0 => q[Ready(q)] <= Cap)
<1> DEFINE S == {i \in 1..Len(q) : q[i] <= Cap}
           k == Cardinality(S)
<1>1. IsFiniteSet(1..Len(q)) /\ Cardinality(1..Len(q)) = Len(q)
  BY IntervalSize
<1>2. IsFiniteSet(S) /\ k <= Len(q)
  BY <1>1, FS_Subset
<1>3. k \in Nat
  BY <1>2, FS_CardinalityType
<1>4. ASSUME k > 0, ~(q[k] <= Cap) PROVE FALSE
  <2> HIDE DEF k
  <2>1. k \in 1..Len(q) /\ k \notin S
    BY <1>2, <1>3, <1>4
  <2>2. S \in SUBSET (1..(k - 1))
    <3> SUFFICES ASSUME NEW i \in S PROVE i \in 1..(k - 1)
      OBVIOUS
    <3>1. i \in 1..Len(q) /\ q[i] <= Cap /\ q[i] \in Nat /\ q[k] \in Nat
      BY <2>1
    <3>2. ~(k < i) /\ i # k
      BY <3>1, <2>1, <1>4 DEF Sorted
    <3> QED BY <3>1, <3>2, <2>1
  <2>3. IsFiniteSet(1..(k - 1)) /\ Cardinality(1..(k - 1)) = k - 1
    <3>1. k - 1 \in Nat
      BY <2>1
    <3> QED BY <3>1, IntervalSize
  <2>4. Cardinality(S) <= k - 1
    <3>1. Cardinality(S) <= Cardinality(1..(k - 1))
      BY <2>2, <2>3, FS_Subset, Zenon
    <3> QED BY <3>1, <2>3
  <2> QED BY <2>4, <1>3 DEF k
<1> QED BY <1>2, <1>3, <1>4 DEF Ready

(* What the boundary of a tick records. *)
LEMMA RecordedOffsets ==
  ASSUME TopicInv, NEW t \in 1..Len(topic)
  PROVE  /\ Offsets(topic[t]) = Recorded[t].offsets
         /\ Recorded[t].offsets \in [Partitions -> 0..MaxRecords]
<1>1. Recorded \in Seq(TickOf) /\ Len(Recorded) = Len(topic) /\ Len(topic) \in Nat
  BY DEF TopicInv, History
<1>2. t \in 0..Len(Recorded)
  BY <1>1
<1>3. /\ Prefix(Recorded, t) \in Seq(TickOf) /\ Len(Prefix(Recorded, t)) = t
      /\ \A i \in 1..t : Prefix(Recorded, t)[i] = Recorded[i]
  BY <1>1, <1>2, PrefixType
<1>4. topic[t] = Prefix(Recorded, t)
  BY DEF TopicInv
<1>5. topic[t] # <<>> /\ topic[t][Len(topic[t])] = Recorded[t]
  BY <1>3, <1>4
<1>6. Recorded[t] \in TickOf
  BY <1>1
<1> QED BY <1>5, <1>6 DEF Offsets, TickOf

(* Along the boundaries the offsets never go back. *)
LEMMA RecordedAscend ==
  ASSUME TopicInv, NEW s \in 1..Len(topic), NEW t \in s..Len(topic), NEW p \in Partitions
  PROVE  Offsets(topic[s])[p] <= Offsets(topic[t])[p]
<1>1. t \in 1..Len(topic) /\ s \in 1..Len(Recorded) /\ t \in 1..Len(Recorded) /\ s <= t
  BY DEF TopicInv
<1>2. Recorded[s].offsets[p] <= Recorded[t].offsets[p]
  BY <1>1 DEF TopicInv, History, Ascending
<1>3. Offsets(topic[s]) = Recorded[s].offsets
  BY <1>1, RecordedOffsets
<1>4. Offsets(topic[t]) = Recorded[t].offsets
  BY <1>1, RecordedOffsets
<1> QED BY <1>2, <1>3, <1>4

(* A process that runs has recorded its own World. *)
LEMMA RecordedIsWorld ==
  ASSUME TopicInv, WorldInv, Alive, NEW t \in 0..Len(topic)
  PROVE  /\ t \in 0..Len(world) /\ Prefix(world, t) = Prefix(Recorded, t)
         /\ t > 0 => Prefix(world, t) = topic[t]
<1>1. Len(topic) \in 0..Len(world) /\ Recorded = Prefix(world, Len(topic)) /\ world \in Seq(TickOf)
  BY DEF WorldInv, TopicInv, History
<1>2. t \in 0..Len(world) /\ Prefix(Recorded, t) = Prefix(world, t)
  BY <1>1, PrefixPrefix
<1> QED BY <1>2 DEF TopicInv

(* commitAcked: the checkpoint is of a recorded boundary and did not go back, *)
(* and what is still held is not older.                                       *)
LEMMA CommitStep ==
  ASSUME TopicInv, WorldInv, CheckpointDelivered, committed.tick \in Nat, Alive,
         NEW q, HeldFrom(q, committed.tick), CommitAcked(q)
  PROVE  /\ committed'.tick \in Nat /\ committed'.tick >= committed.tick
         /\ committed'.tick = committed.tick \/ committed'.tick \in (base + 1)..published
         /\ committed'.tick <= Len(topic)
         /\ committed'.offsets = IF committed'.tick = 0 THEN Start ELSE Offsets(topic[committed'.tick])
         /\ \A p \in Partitions : committed'.offsets[p] >= committed.offsets[p]
         /\ HeldFrom(Held(q), committed'.tick)
<1>q. q \in Seq(Nat) /\ Sorted(q) /\ Len(q) \in Nat
  BY DEF HeldFrom
<1>c. Cap \in Int /\ Cap <= acked /\ acked \in 0..Len(topic) /\ Len(topic) \in Nat
  BY DEF Cap, WorldInv, TopicInv, lost
<1>r. Ready(q) \in 0..Len(q) /\ (Ready(q) > 0 => q[Ready(q)] <= Cap)
  BY <1>q, <1>c, ReadyIsAcked
<1> DEFINE k == Ready(q)  h == Held(q)
<1>h. /\ h \in Seq(Nat) /\ Len(h) = Len(q) - k
      /\ \A i \in 1..Len(h) : h[i] = q[k + i] /\ k + i \in 1..Len(q)
  <2>1. h = SubSeq(q, k + 1, Len(q)) /\ k \in Nat /\ k <= Len(q)
    BY <1>r DEF Held
  <2> HIDE DEF h, k
  <2> QED BY <2>1, <1>q
<1>s. Sorted(h)
  <2> HIDE DEF h, k
  <2> SUFFICES ASSUME NEW i \in 1..Len(h), NEW j \in 1..Len(h), i < j PROVE h[i] < h[j]
    BY DEF Sorted
  <2>1. k + i < k + j /\ k + i \in 1..Len(q) /\ k + j \in 1..Len(q)
    BY <1>h, <1>q, <1>r DEF k
  <2>2. q[k + i] < q[k + j]
    BY <2>1, <1>q DEF Sorted
  <2> QED BY <2>2, <1>h
<1>e. \A i \in 1..Len(h) : h[i] \in (base + 1)..published /\ h[i] >= committed.tick
  BY <1>h DEF HeldFrom
<1> HIDE DEF k, h
<1>0. /\ committed.tick <= Len(topic)
      /\ committed.offsets = IF committed.tick = 0 THEN Start ELSE Offsets(topic[committed.tick])
  BY DEF CheckpointDelivered
<1>o. committed.offsets \in [Partitions -> 0..MaxRecords]
  <2>1. CASE committed.tick = 0
    BY <2>1, <1>0, TickLoopAssumption DEF Start
  <2>2. CASE committed.tick # 0
    <3>1. committed.tick \in 1..Len(topic)
      BY <2>2, <1>0, <1>c
    <3> QED BY <3>1, <2>2, <1>0, RecordedOffsets
  <2> QED BY <2>1, <2>2
<1>1. CASE UNCHANGED committed
  <2>1. \A p \in Partitions : committed.offsets[p] \in Int
    BY <1>o
  <2> QED BY <1>1, <2>1, <1>0, <1>h, <1>s, <1>e DEF HeldFrom, h
<1>2. CASE Ready(q) > 0 /\ committed' = [tick |-> q[k], offsets |-> Offsets(SubSeq(world, 1, q[k]))]
  <2> DEFINE t == q[k]
  <2>1. k \in 1..Len(q) /\ t \in Nat /\ t \in (base + 1)..published /\ t >= committed.tick
    BY <1>2, <1>r, <1>q DEF k, HeldFrom
  <2>2. t \in 1..Len(topic)
    BY <2>1, <1>2, <1>r, <1>c DEF k, WorldInv
  <2> HIDE DEF t
  <2>3. SubSeq(world, 1, t) = topic[t]
    <3>1. t \in 0..Len(topic) /\ t > 0
      BY <2>2, <1>c
    <3> QED BY <3>1, RecordedIsWorld DEF Prefix
  <2>4. committed'.tick = t /\ committed'.offsets = Offsets(topic[t])
    BY <1>2, <2>3 DEF t
  <2>5. \A p \in Partitions : committed'.offsets[p] >= committed.offsets[p]
    <3> TAKE p \in Partitions
    <3>1. Offsets(topic[t])[p] \in Nat
      BY <2>2, RecordedOffsets, TickLoopAssumption
    <3>2. committed.offsets[p] \in Nat
      BY <1>o
    <3>3. CASE committed.tick = 0
      <4>1. committed.offsets[p] = 0
        BY <3>3, <1>0 DEF Start
      <4> QED BY <4>1, <3>1, <2>4
    <3>4. CASE committed.tick # 0
      <4>1. committed.tick \in 1..Len(topic) /\ t \in committed.tick..Len(topic)
        BY <3>4, <1>0, <1>c, <2>1, <2>2 DEF t
      <4>2. Offsets(topic[committed.tick])[p] <= Offsets(topic[t])[p]
        BY <4>1, RecordedAscend
      <4>3. committed.offsets = Offsets(topic[committed.tick])
        BY <3>4, <1>0
      <4> QED BY <4>2, <4>3, <3>1, <3>2, <2>4
    <3> QED BY <3>3, <3>4
  <2>6. \A i \in 1..Len(h) : h[i] >= t
    <3> TAKE i \in 1..Len(h)
    <3>1. h[i] = q[k + i] /\ k + i \in 1..Len(q) /\ k < k + i
      BY <1>h, <2>1
    <3>2. q[k] < q[k + i] /\ q[k + i] \in Nat
      BY <3>1, <2>1, <1>q DEF Sorted
    <3> QED BY <3>1, <3>2, <2>1 DEF t
  <2>7. HeldFrom(h, committed'.tick)
    BY <2>4, <2>6, <1>h, <1>s, <1>e DEF HeldFrom
  <2>8. t >= committed.tick /\ t \in (base + 1)..published /\ t \in Nat /\ t # 0 /\ t <= Len(topic)
    BY <2>1, <2>2 DEF t
  <2> QED BY <2>4, <2>5, <2>7, <2>8 DEF h
<1> QED BY <1>1, <1>2 DEF CommitAcked, k

--------------------------------------------------------------------------------
(* The parts of LoopInv that a step leaves alone. *)

LEMMA TopicKept == TopicInv /\ UNCHANGED topic => TopicInv'
BY DEF TopicInv, Recorded

LEMMA CheckpointKept ==
  ASSUME CheckpointInv, UNCHANGED <<pending, committed, base, published, topic>>,
         Alive' => Alive, phase' = "ticked" => phase = "ticked" /\ world' = world
  PROVE  CheckpointInv'
BY DEF CheckpointInv, CheckpointDelivered, Alive

LEMMA WorldKept ==
  ASSUME WorldInv, UNCHANGED <<world, published, pending, base, topic, acked, lostTick>>,
         Alive' <=> Alive, ~Alive => UNCHANGED round,
         phase' = "ticked" => phase = "ticked"
  PROVE  WorldInv'
BY DEF WorldInv, Recorded, Alive

LEMMA RoundKept ==
  ASSUME RoundInv, UNCHANGED <<round, copy, left, objects, world, topic, acked>>
  PROVE  RoundInv'
BY DEF RoundInv, RoundsVerify

(* Init. *)
LEMMA LoopInit == Init => LoopInv
<1> SUFFICES ASSUME Init PROVE LoopInv
  OBVIOUS
<1> USE TickLoopAssumption DEF Init
<1>1. Flags
  <2>1. 0 \in 0..MaxRestarts
    OBVIOUS
  <2> QED BY <2>1 DEF Flags, Phases
<1>2. Recorded = <<>> /\ Alive
  BY DEF Recorded, Alive
<1>3. TopicInv
  BY <1>2, HistoryEmpty DEF TopicInv
<1>4. Prefix(<<>>, 0) = <<>>
  BY PrefixEmpty
<1>5. WorldInv
  BY <1>2, <1>4, HistoryEmpty DEF WorldInv
<1>6. CheckpointInv
  BY DEF CheckpointInv, CheckpointDelivered
<1>7. RoundInv
  BY DEF RoundInv, RoundsVerify, Rounds
<1> QED BY <1>1, <1>3, <1>5, <1>6, <1>7 DEF LoopInv

--------------------------------------------------------------------------------
(* The loop. *)

LEMMA TickStepInv == ASSUME LoopInv, TickStep PROVE LoopInv'
<1> USE DEF LoopInv, boundaryVars, roundVars
<1>u. /\ phase = "up" /\ phase' = "ticked" /\ Alive /\ Alive'
      /\ Len(world) < (IF lost THEN MaxTick + 1 ELSE MaxTick)
      /\ published' = IF lost THEN published ELSE Len(world')
      /\ UNCHANGED <<pending, committed, acked, lostTick, base, topic, forced, round, copy, left,
                     objects, restarts>>
  BY DEF TickStep, Alive
<1>1. PICK to \in Batches(world) : world' = Step(world, to)
  BY DEF TickStep
<1>2. /\ History(world') /\ Len(world') = Len(world) + 1
      /\ \A n \in 0..Len(world) : Prefix(world', n) = Prefix(world, n)
  BY <1>1, HistoryStep DEF WorldInv
<1>3. Flags'
  BY <1>u DEF Flags, Phases
<1>4. TopicInv'
  BY <1>u, TopicKept
<1>n. Len(world) \in Nat /\ MaxTick \in Nat /\ Len(topic) \in Nat /\ base \in 0..Len(topic)
  BY TickLoopAssumption DEF WorldInv, TopicInv
<1>5. WorldInv'
  <2>1. Len(world') \in 0..(MaxTick + 1) /\ Len(world') > 0
    BY <1>2, <1>u, <1>n
  <2>2. Len(topic) <= Len(world') /\ Recorded = Prefix(world', Len(topic))
    <3>1. Len(topic) \in 0..Len(world) /\ Recorded = Prefix(world, Len(topic))
      BY <1>u, <1>n DEF WorldInv
    <3> QED BY <3>1, <1>2, <1>n
  <2>3. Recorded' = Recorded
    BY <1>u DEF Recorded
  <2>4. /\ published' \in 0..MaxTick /\ published' <= Len(world')
        /\ published' # 0 => published' > base
    <3>1. CASE lost
      BY <3>1, <1>u, <1>2, <1>n DEF WorldInv
    <3>2. CASE ~lost
      <4>1. published' = Len(world') /\ Len(world) < MaxTick /\ base <= Len(world)
        BY <3>2, <1>u, <1>n DEF WorldInv
      <4> QED BY <4>1, <1>2, <1>n
    <3> QED BY <3>1, <3>2
  <2> QED BY <2>1, <2>2, <2>3, <2>4, <1>2, <1>u DEF WorldInv
<1>6. CheckpointInv'
  <2>1. published' >= published
    BY <1>u, <1>2, <1>n DEF WorldInv
  <2>2. published' # 0 => committed.tick <= published'
    <3>1. CASE published # 0
      BY <3>1, <2>1, <1>u DEF CheckpointInv, WorldInv
    <3>2. CASE published = 0 /\ published' # 0
      <4>1. committed.tick <= base /\ published' > base
        BY <3>2, <1>u, <1>5 DEF CheckpointInv, WorldInv
      <4> QED BY <4>1, <1>n, <1>5 DEF CheckpointInv, WorldInv
    <3> QED BY <3>1, <3>2
  <2>3. published' = 0 => committed.tick <= base
    <3>1. published' = 0 => published = 0
      BY <2>1 DEF WorldInv
    <3> QED BY <3>1, <1>u DEF CheckpointInv
  <2>4. \A i \in 1..Len(pending) :
          pending[i] \in (base + 1)..published' /\ pending[i] < Len(world')
    <3> TAKE i \in 1..Len(pending)
    <3>1. pending[i] \in (base + 1)..published /\ pending[i] <= Len(world)
      BY <1>n DEF CheckpointInv, WorldInv
    <3>2. published \in Nat /\ published' \in Nat /\ base \in Nat
      BY <1>n, <1>5 DEF WorldInv
    <3> QED BY <3>1, <3>2, <2>1, <1>2, <1>n
  <2> QED BY <2>2, <2>3, <2>4, <1>u DEF CheckpointInv, CheckpointDelivered
<1>7. RoundInv'
  <2>1. round # "none" => Len(copy) \in 1..Len(world') /\ copy = Prefix(world', Len(copy))
    <3> SUFFICES ASSUME round # "none"
                 PROVE  Len(copy) \in 1..Len(world') /\ copy = Prefix(world', Len(copy))
      OBVIOUS
    <3>1. Len(copy) \in 1..Len(world) /\ copy = Prefix(world, Len(copy))
      BY DEF RoundInv
    <3>2. Len(copy) \in 0..Len(world)
      BY <3>1
    <3>3. Prefix(world', Len(copy)) = Prefix(world, Len(copy))
      BY <3>2, <1>2
    <3> QED BY <3>1, <3>3, <1>2, <1>n
  <2> QED BY <2>1, <1>u DEF RoundInv, RoundsVerify
<1> QED BY <1>3, <1>4, <1>5, <1>6, <1>7

(* The tick t, published and not yet committed, may be held. *)
LEMMA HoldHeld ==
  ASSUME base \in Nat, published \in Nat, NEW c \in Nat, NEW q, HeldFrom(q, c),
         NEW t \in (base + 1)..published, t >= c
  PROVE  HeldFrom(Hold(q, t), c)
<1>q. q \in Seq(Nat) /\ Sorted(q) /\ Len(q) \in Nat
      /\ \A i \in 1..Len(q) : q[i] \in (base + 1)..published /\ q[i] >= c
  BY DEF HeldFrom
<1>1. CASE q # <<>> /\ q[Len(q)] >= t
  BY <1>1 DEF Hold
<1>2. CASE ~(q # <<>> /\ q[Len(q)] >= t)
  <2> DEFINE h == Append(q, t)
  <2>1. Hold(q, t) = h
    BY <1>2 DEF Hold
  <2>2. h \in Seq(Nat) /\ Len(h) = Len(q) + 1 /\ h[Len(q) + 1] = t /\ \A i \in 1..Len(q) : h[i] = q[i]
    BY <1>q
  <2> HIDE DEF h
  <2>3. \A i \in 1..Len(q) : q[i] < t
    <3> TAKE i \in 1..Len(q)
    <3>1. q # <<>> /\ Len(q) \in 1..Len(q) /\ q[Len(q)] \in Nat /\ q[i] \in Nat
      BY <1>q
    <3>2. q[Len(q)] < t
      BY <3>1, <1>2
    <3>3. q[i] <= q[Len(q)]
      BY <3>1, <1>q DEF Sorted
    <3> QED BY <3>1, <3>2, <3>3
  <2>i. \A i \in 1..Len(h) : i \in 1..Len(q) \/ i = Len(q) + 1
    BY <2>2, <1>q
  <2>4. Sorted(h)
    <3> SUFFICES ASSUME NEW i \in 1..Len(h), NEW j \in 1..Len(h), i < j PROVE h[i] < h[j]
      BY DEF Sorted
    <3>1. i \in 1..Len(q)
      BY <2>i, <2>2, <1>q
    <3>2. CASE j \in 1..Len(q)
      BY <3>1, <3>2, <2>2, <1>q DEF Sorted
    <3>3. CASE j = Len(q) + 1
      BY <3>1, <3>3, <2>2, <2>3
    <3> QED BY <3>2, <3>3, <2>i
  <2>5. ASSUME NEW i \in 1..Len(h) PROVE h[i] \in (base + 1)..published /\ h[i] >= c
    <3>1. CASE i \in 1..Len(q)
      BY <3>1, <2>2, <1>q
    <3>2. CASE i = Len(q) + 1
      BY <3>2, <2>2
    <3> QED BY <3>1, <3>2, <2>i
  <2> QED BY <2>1, <2>2, <2>4, <2>5 DEF HeldFrom
<1> QED BY <1>1, <1>2

(* The types of what the steps compute with. *)
LEMMA LoopNumbers ==
  ASSUME LoopInv
  PROVE  /\ Len(world) \in Nat /\ Len(topic) \in Nat /\ base \in Nat /\ published \in Nat
         /\ acked \in Nat /\ lostTick \in Nat /\ committed.tick \in Nat
         /\ MaxTick \in Nat /\ MaxRestarts \in Nat
         /\ base <= Len(topic) /\ published <= Len(world)
         /\ HeldFrom(pending, committed.tick)
<1>1. Len(topic) \in Nat /\ MaxTick \in Nat /\ MaxRestarts \in Nat
  BY TickLoopAssumption DEF LoopInv, TopicInv
<1>2. /\ Len(world) \in Nat /\ base \in Nat /\ published \in Nat /\ acked \in Nat /\ lostTick \in Nat
      /\ base <= Len(topic) /\ published <= Len(world)
  BY <1>1 DEF LoopInv, WorldInv
<1>3. committed.tick \in Nat /\ HeldFrom(pending, committed.tick)
  BY DEF LoopInv, CheckpointInv, HeldFrom, Sorted
<1> QED BY <1>1, <1>2, <1>3

(* The second half of a tick: what is held, and what is committed of it. *)
LEMMA FinishCommits ==
  ASSUME LoopInv, TickFinish
  PROVE  /\ Alive /\ Published => Len(world) \in (base + 1)..published /\ Len(world) >= committed.tick
         /\ HeldFrom(HoldDue, committed.tick)
<1>n. /\ Len(world) \in Nat /\ base \in Nat /\ published \in Nat /\ committed.tick \in Nat
      /\ HeldFrom(pending, committed.tick)
  BY LoopNumbers
<1>1. phase = "ticked" /\ Alive /\ Len(world) > 0
  BY DEF TickFinish, Alive, LoopInv, WorldInv
<1>2. Published => Len(world) \in (base + 1)..published /\ Len(world) >= committed.tick
  <2> SUFFICES ASSUME Published PROVE Len(world) \in (base + 1)..published /\ Len(world) >= committed.tick
    OBVIOUS
  <2>1. published = Len(world) /\ published # 0
    BY <1>1, <1>n DEF Published
  <2>2. published > base /\ committed.tick <= published
    BY <2>1 DEF LoopInv, WorldInv, CheckpointInv
  <2> QED BY <2>1, <2>2, <1>n
<1>3. CASE ~(Published /\ Len(world) % CheckpointEvery = 0)
  BY <1>1, <1>2, <1>3, <1>n DEF HoldDue
<1>4. CASE Published /\ Len(world) % CheckpointEvery = 0
  <2>1. HoldDue = Append(pending, Len(world))
    BY <1>4 DEF HoldDue
  <2>2. pending # <<>> => Len(pending) \in 1..Len(pending)
    BY <1>n DEF HeldFrom
  <2>3. pending # <<>> => pending[Len(pending)] < Len(world) /\ pending[Len(pending)] \in Nat
    BY <2>2, <1>1, <1>n DEF LoopInv, CheckpointInv
  <2>4. Hold(pending, Len(world)) = HoldDue
    BY <2>1, <2>3, <1>n DEF Hold
  <2>5. HeldFrom(Hold(pending, Len(world)), committed.tick)
    BY <1>4, <1>2, <1>n, HoldHeld
  <2> QED BY <2>4, <2>5, <1>1, <1>2
<1> QED BY <1>3, <1>4

LEMMA TickFinishInv ==
  ASSUME LoopInv, TickFinish
  PROVE  /\ LoopInv' /\ committed'.tick >= committed.tick
         /\ \A p \in Partitions : committed'.offsets[p] >= committed.offsets[p]
<1>n. /\ Len(world) \in Nat /\ Len(topic) \in Nat /\ base \in Nat /\ published \in Nat
      /\ committed.tick \in Nat
  BY LoopNumbers
<1>u. /\ phase = "ticked" /\ phase' \in {"up", "draining"} /\ Alive /\ Alive'
      /\ UNCHANGED <<world, published, acked, lostTick, base, topic, objects, restarts>>
      /\ CommitAcked(HoldDue) /\ MaybeSnapshot(Held(HoldDue))
  BY DEF TickFinish, Alive, boundaryVars
<1>h. /\ HeldFrom(HoldDue, committed.tick)
      /\ Published => Len(world) \in (base + 1)..published
  BY <1>u, FinishCommits
<1>c. /\ committed'.tick \in Nat /\ committed'.tick >= committed.tick
      /\ committed'.tick = committed.tick \/ committed'.tick \in (base + 1)..published
      /\ committed'.tick <= Len(topic)
      /\ committed'.offsets = IF committed'.tick = 0 THEN Start ELSE Offsets(topic[committed'.tick])
      /\ \A p \in Partitions : committed'.offsets[p] >= committed.offsets[p]
      /\ HeldFrom(Held(HoldDue), committed'.tick)
  BY <1>u, <1>h, <1>n, CommitStep DEF LoopInv, CheckpointInv
<1>p. published # 0 => committed'.tick <= published
  BY <1>c, <1>n DEF LoopInv, CheckpointInv
<1>1. HeldFrom(pending', committed'.tick)
  <2>1. CASE Published /\ pending' = Hold(Held(HoldDue), Len(world))
    <3>1. Len(world) \in (base + 1)..published /\ published # 0 /\ Len(world) = published
      BY <2>1, <1>h, <1>n DEF Published
    <3> QED BY <2>1, <3>1, <1>p, <1>c, <1>n, HoldHeld
  <2>2. CASE pending' = Held(HoldDue)
    BY <2>2, <1>c
  <2> QED BY <2>1, <2>2, <1>u DEF MaybeSnapshot
<1>2. Flags'
  <2>1. forced' \in BOOLEAN
    BY <1>u DEF MaybeSnapshot, LoopInv, Flags
  <2> QED BY <2>1, <1>u DEF LoopInv, Flags, Phases
<1>3. TopicInv'
  BY <1>u, TopicKept DEF LoopInv
<1>4. WorldInv'
  BY <1>u DEF LoopInv, WorldInv, Recorded
<1>5. CheckpointInv'
  <2>1. published = 0 => committed'.tick <= base
    BY <1>c, <1>u, <1>n DEF LoopInv, CheckpointInv
  <2>2. /\ pending' \in Seq(Nat)
        /\ \A i, j \in 1..Len(pending') : i < j => pending'[i] < pending'[j]
        /\ \A i \in 1..Len(pending') :
             pending'[i] \in (base + 1)..published /\ pending'[i] >= committed'.tick
    BY <1>1 DEF HeldFrom, Sorted
  <2> QED BY <2>1, <2>2, <1>c, <1>p, <1>u DEF CheckpointInv, CheckpointDelivered
<1>6. RoundInv'
  <2>1. CASE UNCHANGED <<round, copy, left>>
    BY <2>1, <1>u, RoundKept DEF LoopInv
  <2>2. CASE StartRound
    <3>1. round' = "waiting" /\ copy' = world /\ left' = Partitions
      BY <2>2 DEF StartRound
    <3>2. world \in Seq(TickOf) /\ Len(world) > 0
      BY <1>u DEF LoopInv, WorldInv, History
    <3>3. Prefix(world, Len(world)) = world /\ Len(world) \in 1..Len(world)
      BY <3>2, <1>n, PrefixWhole
    <3> QED BY <3>1, <3>2, <3>3, <1>u DEF LoopInv, RoundInv, RoundsVerify, Rounds
  <2> QED BY <2>1, <2>2, <1>u DEF MaybeSnapshot
<1> QED BY <1>2, <1>3, <1>4, <1>5, <1>6, <1>c DEF LoopInv

(* What ends with the process leaves what is stored. *)
LEMMA ExitInv ==
  ASSUME LoopInv, Exit,
         committed'.tick \in Nat, committed'.tick <= Len(topic),
         committed'.offsets = IF committed'.tick = 0 THEN Start ELSE Offsets(topic[committed'.tick])
  PROVE  LoopInv'
<1>u. /\ phase' = "down" /\ ~Alive' /\ world' = <<>> /\ published' = 0 /\ pending' = <<>>
      /\ acked' = 0 /\ lostTick' = 0 /\ forced' = FALSE
      /\ round' = "none" /\ copy' = <<>> /\ left' = {}
      /\ UNCHANGED <<base, topic, objects, restarts>>
  BY DEF Exit, Alive
<1>n. Len(topic) \in Nat /\ base \in Nat /\ MaxTick \in Nat
  BY LoopNumbers
<1>1. Flags'
  BY <1>u DEF LoopInv, Flags, Phases
<1>2. TopicInv'
  BY <1>u, TopicKept DEF LoopInv
<1>3. WorldInv'
  BY <1>u, <1>n, HistoryEmpty DEF LoopInv, WorldInv
<1>4. CheckpointInv'
  BY <1>u DEF CheckpointInv, CheckpointDelivered
<1>5. RoundInv'
  BY <1>u DEF LoopInv, RoundInv, RoundsVerify, Rounds
<1> QED BY <1>1, <1>2, <1>3, <1>4, <1>5 DEF LoopInv

LEMMA DrainedInv ==
  ASSUME LoopInv, Drained
  PROVE  /\ LoopInv' /\ committed'.tick >= committed.tick
         /\ \A p \in Partitions : committed'.offsets[p] >= committed.offsets[p]
<1>n. /\ base \in Nat /\ published \in Nat /\ committed.tick \in Nat
      /\ HeldFrom(pending, committed.tick)
  BY LoopNumbers
<1> DEFINE q == IF published > 0 THEN Hold(pending, published) ELSE pending
<1>1. Alive /\ CommitAcked(q) /\ Exit
  BY DEF Drained, Alive
<1>2. HeldFrom(q, committed.tick)
  <2>1. CASE published > 0
    <3>1. published \in (base + 1)..published /\ published >= committed.tick
      BY <2>1, <1>n DEF LoopInv, WorldInv, CheckpointInv
    <3> QED BY <2>1, <3>1, <1>n, HoldHeld
  <2>2. CASE ~(published > 0)
    BY <2>2, <1>n
  <2> QED BY <2>1, <2>2
<1> HIDE DEF q
<1>3. /\ committed'.tick \in Nat /\ committed'.tick >= committed.tick
      /\ committed'.tick <= Len(topic)
      /\ committed'.offsets = IF committed'.tick = 0 THEN Start ELSE Offsets(topic[committed'.tick])
      /\ \A p \in Partitions : committed'.offsets[p] >= committed.offsets[p]
  BY <1>1, <1>2, <1>n, CommitStep DEF LoopInv, CheckpointInv
<1>4. LoopInv'
  BY <1>1, <1>3, ExitInv
<1> QED BY <1>3, <1>4

LEMMA CrashInv == ASSUME LoopInv, Crash PROVE LoopInv'
<1>1. Exit /\ UNCHANGED committed
  BY DEF Crash
<1> QED BY <1>1, ExitInv, LoopNumbers DEF LoopInv, CheckpointInv, CheckpointDelivered

--------------------------------------------------------------------------------
(* What becomes of a boundary. *)

LEMMA DeliverInv == ASSUME LoopInv, Deliver PROVE LoopInv'
<1>n. /\ Len(world) \in Nat /\ Len(topic) \in Nat /\ base \in Nat /\ published \in Nat
      /\ acked \in Nat /\ MaxTick \in Nat /\ base <= Len(topic) /\ published <= Len(world)
      /\ published <= MaxTick
  BY LoopNumbers DEF LoopInv, WorldInv
<1> DEFINE n == Len(topic) + 1
           w == Prefix(world, n)
<1>u. /\ Len(topic) < published /\ topic' = Append(topic, w)
      /\ UNCHANGED <<phase, world, published, pending, committed, acked, lostTick, base, forced,
                     round, copy, left, objects, restarts>>
  BY DEF Deliver, loopVars, roundVars, Prefix, Log!Deliver
<1>a. Alive /\ Alive'
  BY <1>u, <1>n DEF LoopInv, WorldInv, Alive
<1>w. History(world) /\ world \in Seq(TickOf) /\ n \in 0..Len(world) /\ n \in Nat
  BY <1>u, <1>n DEF LoopInv, WorldInv, History
<1>1. /\ History(w) /\ Len(w) = n
      /\ \A i \in 0..n : Prefix(w, i) = Prefix(world, i)
  BY <1>w, HistoryPrefix
<1>2. /\ topic' \in Seq(Seq(TickOf)) /\ Len(topic') = n /\ topic'[n] = w
      /\ \A i \in 1..Len(topic) : topic'[i] = topic[i]
  <2>1. topic \in Seq(Seq(TickOf)) /\ w \in Seq(TickOf)
    BY <1>1 DEF LoopInv, TopicInv, History
  <2> HIDE DEF w
  <2> QED BY <1>u, <2>1
<1>3. Recorded' = w
  BY <1>2, <1>w DEF Recorded
<1> HIDE DEF w, n
<1>i. \A i \in 1..n : i \in 1..Len(topic) \/ i = n
  BY <1>n DEF n
<1>4. TopicInv'
  <2>1. n \in 0..MaxTick
    BY <1>u, <1>n DEF n
  <2>2. ASSUME NEW i \in 1..n PROVE topic'[i] = Prefix(w, i)
    <3>0. i \in 0..n
      BY <1>w
    <3>1. CASE i = n
      <4>1. w \in Seq(TickOf)
        BY <1>1 DEF History
      <4> QED BY <3>1, <4>1, <1>1, <1>2, PrefixWhole
    <3>2. CASE i \in 1..Len(topic)
      <4>1. i \in 0..Len(topic) /\ i > 0
        BY <3>2, <1>n
      <4>2. Prefix(world, i) = topic[i]
        BY <4>1, <1>a, RecordedIsWorld DEF LoopInv
      <4> QED BY <4>2, <3>0, <3>2, <1>1, <1>2
    <3> QED BY <3>1, <3>2, <1>i
  <2> QED BY <2>1, <2>2, <1>1, <1>2, <1>3 DEF TopicInv
<1>5. WorldInv'
  <2>1. n <= Len(world) /\ Len(topic) <= n /\ n \in Nat
    BY <1>w, <1>n DEF n
  <2>2. base \in 0..n /\ acked \in 0..n
    BY <2>1, <1>n DEF LoopInv, WorldInv
  <2> QED BY <2>1, <2>2, <1>u, <1>a, <1>2, <1>3 DEF LoopInv, WorldInv, w
<1>6. CheckpointInv'
  <2>1. CheckpointDelivered'
    <3>1. committed.tick \in Nat /\ committed.tick <= Len(topic)
      BY DEF LoopInv, CheckpointInv, CheckpointDelivered
    <3>2. committed.tick # 0 => topic'[committed.tick] = topic[committed.tick]
      BY <3>1, <1>2, <1>n
    <3>3. committed.tick <= Len(topic')
      BY <3>1, <1>2, <1>n DEF n
    <3> QED BY <3>2, <3>3, <1>u DEF LoopInv, CheckpointInv, CheckpointDelivered
  <2> QED BY <2>1, <1>u, <1>a DEF LoopInv, CheckpointInv
<1>7. RoundInv'
  <2>1. ASSUME NEW o \in objects
        PROVE  Len(o.world) \in 1..n /\ Len(o.world) <= n /\ o.world = topic'[Len(o.world)]
    <3>1. Len(o.world) \in 1..Len(topic) /\ o.world = topic[Len(o.world)]
      BY DEF LoopInv, RoundInv, RoundsVerify
    <3> QED BY <3>1, <1>2, <1>n DEF n
  <2> QED BY <2>1, <1>2, <1>u DEF LoopInv, RoundInv, RoundsVerify
<1>8. Flags'
  BY <1>u DEF LoopInv, Flags
<1> QED BY <1>4, <1>5, <1>6, <1>7, <1>8 DEF LoopInv

(* A tick whose boundary was not reported is one this process published. *)
LEMMA OutstandingRange ==
  ASSUME LoopInv, NEW n \in Outstanding
  PROVE  n \in 1..published /\ n > acked
<1>n. acked \in Nat /\ base \in Nat /\ published \in Nat
  BY LoopNumbers
<1> DEFINE S == {acked, base}
<1>1. Max(S) \in S /\ \A x \in S : x <= Max(S)
  <2>1. CASE acked <= base
    <3>1. {acked, base} \in SUBSET (0..base)
      BY <2>1, <1>n
    <3> QED BY <3>1, <1>n, MaxIsGreatest
  <2>2. CASE base <= acked
    <3>1. {acked, base} \in SUBSET (0..acked)
      BY <2>2, <1>n
    <3> QED BY <3>1, <1>n, MaxIsGreatest
  <2> QED BY <2>1, <2>2, <1>n
<1>2. Max(S) \in Nat /\ acked <= Max(S)
  BY <1>1, <1>n
<1>3. n \in (Max(S) + 1)..published
  BY DEF Outstanding
<1> HIDE DEF S
<1> QED BY <1>2, <1>3, <1>n

LEMMA AckedInv == ASSUME LoopInv, BoundaryAcked PROVE LoopInv'
<1>n. Len(topic) \in Nat /\ acked \in Nat
  BY LoopNumbers
<1>u. /\ UNCHANGED <<phase, world, published, pending, committed, lostTick, base, topic, forced,
                     round, copy, left, objects, restarts>>
      /\ acked' \in (acked + 1)..Len(topic)
  BY DEF BoundaryAcked, loopVars, roundVars, Log!Ack
<1>o. PICK n \in Outstanding : acked' = n
  BY DEF BoundaryAcked
<1>1. n \in 1..published
  BY OutstandingRange
<1>2. Alive
  BY <1>1 DEF LoopInv, WorldInv, Alive
<1>3. TopicInv'
  BY <1>u, TopicKept DEF LoopInv
<1>4. WorldInv'
  <2>1. acked' \in 0..Len(topic)
    BY <1>u, <1>n
  <2> QED BY <2>1, <1>2, <1>u DEF LoopInv, WorldInv, Recorded, Alive
<1>5. CheckpointInv'
  BY <1>u, <1>2, CheckpointKept DEF LoopInv, Alive
<1>6. RoundInv'
  <2>1. round = "writing" => Len(copy) <= acked'
    <3> SUFFICES ASSUME round = "writing" PROVE Len(copy) <= acked'
      OBVIOUS
    <3>1. Len(copy) \in Nat /\ Len(copy) <= acked
      BY DEF LoopInv, RoundInv
    <3> QED BY <3>1, <1>u, <1>n
  <2> QED BY <2>1, <1>u DEF LoopInv, RoundInv, RoundsVerify
<1>7. Flags'
  BY <1>u DEF LoopInv, Flags
<1> QED BY <1>3, <1>4, <1>5, <1>6, <1>7 DEF LoopInv

LEMMA LostInv == ASSUME LoopInv, BoundaryLost PROVE LoopInv'
<1>u. UNCHANGED <<phase, world, published, pending, committed, acked, base, topic, forced,
                  round, copy, left, objects, restarts>>
  BY DEF BoundaryLost, loopVars, roundVars, Log!Lose
<1>o. PICK n \in Outstanding : lostTick' = n
  BY DEF BoundaryLost
<1>1. n \in 1..published /\ published \in 0..MaxTick
  BY OutstandingRange DEF LoopInv, WorldInv
<1>2. Alive /\ n \in 0..MaxTick
  BY <1>1, LoopNumbers DEF LoopInv, WorldInv, Alive
<1>3. TopicInv'
  BY <1>u, TopicKept DEF LoopInv
<1>4. WorldInv'
  BY <1>o, <1>2, <1>u DEF LoopInv, WorldInv, Recorded, Alive
<1>5. CheckpointInv'
  BY <1>u, <1>2, CheckpointKept DEF LoopInv, Alive
<1>6. RoundInv'
  BY <1>u, RoundKept DEF LoopInv
<1>7. Flags'
  BY <1>u DEF LoopInv, Flags
<1> QED BY <1>3, <1>4, <1>5, <1>6, <1>7 DEF LoopInv

--------------------------------------------------------------------------------
(* The round's goroutine. *)

LEMMA RoundStepInv ==
  ASSUME LoopInv,
         RoundProceeds \/ RoundAbandoned \/ PutObject \/ PutFails \/ RoundEnds
  PROVE  LoopInv'
<1>u. /\ UNCHANGED <<phase, world, published, pending, committed, acked, lostTick, base, topic,
                     forced, restarts>>
      /\ round # "none"
  BY DEF RoundProceeds, RoundAbandoned, PutObject, PutFails, RoundEnds, roundUnchanged,
         loopVars, boundaryVars
<1>a. Alive
  BY <1>u DEF LoopInv, WorldInv
<1>n. Len(world) \in Nat /\ Len(topic) \in Nat /\ acked \in Nat
  BY LoopNumbers
<1>1. TopicInv'
  BY <1>u, TopicKept DEF LoopInv
<1>2. WorldInv'
  BY <1>u, <1>a, WorldKept DEF LoopInv, Alive
<1>3. CheckpointInv'
  BY <1>u, <1>a, CheckpointKept DEF LoopInv, Alive
<1>4. Flags'
  BY <1>u DEF LoopInv, Flags
<1>5. RoundInv'
  <2>0. /\ Len(copy) \in 1..Len(world) /\ copy = Prefix(world, Len(copy))
        /\ copy \in Seq(TickOf) /\ left \subseteq Partitions /\ round \in Rounds
    BY <1>u DEF LoopInv, RoundInv
  <2>1. CASE RoundProceeds
    <3>1. acked >= Len(copy) /\ round' = "writing" /\ UNCHANGED <<copy, left, objects>>
      BY <2>1 DEF RoundProceeds
    <3>2. Len(copy) <= acked
      BY <3>1, <2>0, <1>n
    <3> QED BY <3>1, <3>2, <2>0, <1>u DEF LoopInv, RoundInv, RoundsVerify, Rounds
  <2>2. CASE RoundAbandoned \/ RoundEnds
    <3>1. round' = "none" /\ copy' = <<>> /\ left' = {} /\ UNCHANGED objects
      BY <2>2 DEF RoundAbandoned, RoundEnds, EndRound
    <3> QED BY <3>1, <1>u DEF LoopInv, RoundInv, RoundsVerify, Rounds
  <2>m. left # {} => Min(left) \in left
    <3>1. left \in SUBSET Nat
      BY <2>0 DEF Partitions
    <3> QED BY <3>1, MinIsLeast
  <2>3. CASE PutFails
    <3>1. round' = "writing" /\ left' \subseteq Partitions /\ UNCHANGED <<copy, objects, round>>
      BY <2>3, <2>0 DEF PutFails
    <3> QED BY <3>1, <2>0, <1>u DEF LoopInv, RoundInv, RoundsVerify
  <2>4. CASE PutObject
    <3> DEFINE o == [zone |-> Min(left), world |-> copy]
    <3>1. /\ round = "writing" /\ left # {} /\ left' = left \ {Min(left)} /\ UNCHANGED <<round, copy>>
          /\ objects' = {x \in objects : Key(x) # Key(o)} \cup {o}
      BY <2>4 DEF PutObject
    <3>2. o.zone \in Partitions /\ o.world = copy
      BY <3>1, <2>m, <2>0
    <3>3. Len(copy) \in 1..Len(topic)
      <4>1. Len(copy) <= acked /\ acked <= Len(topic)
        BY <3>1 DEF LoopInv, RoundInv, WorldInv
      <4> QED BY <4>1, <2>0, <1>n
    <3>4. copy = topic[Len(copy)]
      <4>1. Len(copy) \in 0..Len(topic) /\ Len(copy) > 0
        BY <3>3, <1>n
      <4> QED BY <4>1, <2>0, <1>a, RecordedIsWorld DEF LoopInv
    <3> HIDE DEF o
    <3>5. ASSUME NEW x \in objects'
          PROVE  /\ x.zone \in Partitions /\ Len(x.world) \in 1..Len(topic)
                 /\ x.world = topic[Len(x.world)]
      <4>1. CASE x \in objects
        BY <4>1 DEF LoopInv, RoundInv, RoundsVerify
      <4>2. CASE x = o
        BY <4>2, <3>2, <3>3, <3>4
      <4> QED BY <4>1, <4>2, <3>1
    <3>6. \A x \in objects' : Len(x.world) <= Len(topic)
      BY <3>5, <1>n
    <3>7. left' \subseteq Partitions
      BY <3>1, <2>0
    <3>8. round' = "writing" /\ Len(copy) <= acked
      BY <3>1 DEF LoopInv, RoundInv
    <3> QED BY <3>1, <3>5, <3>6, <3>7, <3>8, <2>0, <1>u DEF RoundInv, RoundsVerify
  <2> QED BY <2>1, <2>2, <2>3, <2>4
<1> QED BY <1>1, <1>2, <1>3, <1>4, <1>5 DEF LoopInv

(* Force and CancelForce touch only the flag. *)
LEMMA ForceFrame ==
  ForceRound \/ CancelForce =>
    /\ phase = "up" \/ phase = "ticked" \/ phase = "draining"
    /\ UNCHANGED <<phase, loopVars, boundaryVars, roundVars, restarts>>
    /\ forced' = TRUE \/ forced' = FALSE
<1>1. ForceRound => forced' = TRUE /\ phase \in {"up", "ticked"}
               /\ UNCHANGED <<phase, loopVars, boundaryVars, roundVars, restarts>>
  BY Zenon DEF ForceRound
<1>2. CancelForce => forced' = FALSE /\ phase \in {"up", "ticked", "draining"}
               /\ UNCHANGED <<phase, loopVars, boundaryVars, roundVars, restarts>>
  BY Zenon DEF CancelForce
<1> QED BY <1>1, <1>2, Zenon

(* Stop, Force and CancelForce touch a flag. *)
LEMMA FlagStepInv ==
  ASSUME LoopInv, Stop \/ ForceRound \/ CancelForce
  PROVE  LoopInv'
<1>u. /\ UNCHANGED <<world, published, pending, committed, acked, lostTick, base, topic,
                     round, copy, left, objects, restarts>>
      /\ Alive /\ Alive' /\ phase' \in Phases
      /\ phase' = "ticked" => phase = "ticked"
  <2>1. CASE Stop
    BY <2>1 DEF Stop, loopVars, boundaryVars, roundVars, Alive, Phases
  <2>2. CASE ForceRound \/ CancelForce
    BY <2>2, ForceFrame DEF loopVars, boundaryVars, roundVars, Alive, Phases
  <2> QED BY <2>1, <2>2
<1>f. forced' \in BOOLEAN
  <2>1. CASE Stop
    BY <2>1, Zenon DEF Stop, LoopInv, Flags
  <2>2. CASE ForceRound \/ CancelForce
    BY <2>2, ForceFrame, Zenon
  <2> QED BY <2>1, <2>2
<1>1. TopicInv'
  BY <1>u, TopicKept DEF LoopInv
<1>2. WorldInv'
  BY <1>u, WorldKept DEF LoopInv
<1>3. CheckpointInv'
  BY <1>u, CheckpointKept DEF LoopInv
<1>4. RoundInv'
  BY <1>u, RoundKept DEF LoopInv
<1> QED BY <1>1, <1>2, <1>3, <1>4, <1>u, <1>f DEF LoopInv, Flags

--------------------------------------------------------------------------------
(* Recovery. *)

LEMMA RecoverInv == ASSUME LoopInv, Recover PROVE LoopInv'
<1>n. Len(topic) \in Nat /\ MaxTick \in Nat /\ MaxRestarts \in Nat /\ Len(topic) \in 0..MaxTick
  BY LoopNumbers DEF LoopInv, TopicInv
<1>u. /\ phase = "down" /\ phase' = "up" /\ ~Alive /\ Alive'
      /\ restarts' = restarts + 1 /\ restarts < MaxRestarts
      /\ world' = Recorded /\ base' = Len(Recorded)
      /\ UNCHANGED <<published, pending, committed, acked, lostTick, topic, forced, round, copy, left,
                     objects>>
  BY DEF Recover, RecoverTo, Recorded, roundVars, Alive
<1>d. published = 0 /\ pending = <<>> /\ round = "none" /\ acked = 0 /\ lostTick = 0
  BY <1>u DEF LoopInv, WorldInv
<1>r. History(Recorded) /\ Len(Recorded) = Len(topic) /\ Recorded \in Seq(TickOf)
  BY DEF LoopInv, TopicInv, History
<1>1. TopicInv'
  BY <1>u, TopicKept DEF LoopInv
<1>2. WorldInv'
  <2>1. Recorded' = Recorded
    BY <1>u DEF Recorded
  <2>2. Prefix(Recorded, Len(topic)) = Recorded
    BY <1>r, PrefixWhole
  <2> QED BY <2>1, <2>2, <1>u, <1>d, <1>r, <1>n DEF WorldInv
<1>3. CheckpointInv'
  <2>1. committed.tick \in Nat /\ committed.tick <= base'
    BY <1>u, <1>r DEF LoopInv, CheckpointInv, CheckpointDelivered
  <2> QED BY <2>1, <1>u, <1>d DEF LoopInv, CheckpointInv, CheckpointDelivered
<1>4. RoundInv'
  BY <1>u, <1>d DEF LoopInv, RoundInv, RoundsVerify
<1>5. Flags'
  BY <1>u, <1>n DEF LoopInv, Flags, Phases
<1> QED BY <1>1, <1>2, <1>3, <1>4, <1>5 DEF LoopInv

LEMMA RefusesInv == ASSUME LoopInv, RecoverRefuses PROVE LoopInv'
<1>u. /\ ~Alive /\ ~Alive' /\ phase' = "refused" /\ restarts' = restarts + 1 /\ restarts < MaxRestarts
      /\ UNCHANGED <<world, published, pending, committed, acked, lostTick, base, topic, forced,
                     round, copy, left, objects>>
  BY DEF RecoverRefuses, Alive, loopVars, boundaryVars, roundVars
<1>1. TopicInv'
  BY <1>u, TopicKept DEF LoopInv
<1>2. WorldInv'
  BY <1>u, WorldKept DEF LoopInv
<1>3. CheckpointInv'
  BY <1>u, CheckpointKept DEF LoopInv
<1>4. RoundInv'
  BY <1>u, RoundKept DEF LoopInv
<1>5. Flags'
  BY <1>u, LoopNumbers DEF LoopInv, Flags, Phases
<1> QED BY <1>1, <1>2, <1>3, <1>4, <1>5 DEF LoopInv

(* Every step keeps the invariant, and no step takes the checkpoint back. *)
LEMMA LoopStep ==
  ASSUME LoopInv, [Next]_vars
  PROVE  /\ LoopInv'
         /\ committed'.tick >= committed.tick
         /\ \A p \in Partitions : committed'.offsets[p] >= committed.offsets[p]
<1>0. ASSUME UNCHANGED committed
      PROVE  /\ committed'.tick >= committed.tick
             /\ \A p \in Partitions : committed'.offsets[p] >= committed.offsets[p]
  <2>1. committed.tick \in Nat /\ committed.tick <= Len(topic) /\ Len(topic) \in Nat
    BY LoopNumbers DEF LoopInv, CheckpointInv, CheckpointDelivered
  <2>2. \A p \in Partitions : committed.offsets[p] \in Nat
    <3>1. CASE committed.tick = 0
      BY <3>1 DEF LoopInv, CheckpointInv, CheckpointDelivered, Start
    <3>2. CASE committed.tick # 0
      <4>1. committed.tick \in 1..Len(topic) /\ committed.offsets = Offsets(topic[committed.tick])
        BY <3>2, <2>1 DEF LoopInv, CheckpointInv, CheckpointDelivered
      <4>2. committed.offsets \in [Partitions -> 0..MaxRecords]
        BY <4>1, RecordedOffsets DEF LoopInv
      <4> QED BY <4>2
    <3> QED BY <3>1, <3>2
  <2> QED BY <2>1, <2>2, <1>0
<1>1. CASE TickStep
  BY <1>1, <1>0, TickStepInv DEF TickStep
<1>2. CASE TickFinish
  BY <1>2, TickFinishInv
<1>3. CASE Stop \/ ForceRound \/ CancelForce
  <2>1. UNCHANGED committed
    BY <1>3, ForceFrame DEF Stop, loopVars
  <2> QED BY <2>1, <1>3, <1>0, FlagStepInv
<1>4. CASE Drained
  BY <1>4, DrainedInv
<1>5. CASE Crash
  BY <1>5, <1>0, CrashInv DEF Crash
<1>6. CASE Deliver
  BY <1>6, <1>0, DeliverInv DEF Deliver, loopVars
<1>7. CASE BoundaryAcked
  BY <1>7, <1>0, AckedInv DEF BoundaryAcked, loopVars
<1>8. CASE BoundaryLost
  BY <1>8, <1>0, LostInv DEF BoundaryLost, loopVars
<1>9. CASE RoundProceeds \/ RoundAbandoned \/ PutObject \/ PutFails \/ RoundEnds
  BY <1>9, <1>0, RoundStepInv
     DEF RoundProceeds, RoundAbandoned, PutObject, PutFails, RoundEnds, roundUnchanged, loopVars
<1>10. CASE Recover
  BY <1>10, <1>0, RecoverInv DEF Recover, RecoverTo
<1>11. CASE RecoverRefuses
  BY <1>11, <1>0, RefusesInv DEF RecoverRefuses, loopVars
<1>12. CASE UNCHANGED vars
  <2>1. UNCHANGED <<phase, world, published, pending, committed, acked, lostTick, base, topic, forced,
                    round, copy, left, objects, restarts>>
    BY <1>12 DEF vars, loopVars, boundaryVars, roundVars
  <2>2. TopicInv' /\ RoundInv'
    BY <2>1, TopicKept, RoundKept DEF LoopInv
  <2>3. WorldInv' /\ CheckpointInv'
    BY <2>1, WorldKept, CheckpointKept DEF LoopInv, Alive
  <2> QED BY <2>1, <2>2, <2>3, <1>0 DEF LoopInv, Flags
<1> QED BY <1>1, <1>2, <1>3, <1>4, <1>5, <1>6, <1>7, <1>8, <1>9, <1>10, <1>11, <1>12 DEF Next

(* The invariant of the loop, the topic, the checkpoints and the rounds, for  *)
(* every behaviour of the loop, its drains, crashes and restarts.             *)
THEOREM LoopInvariant == Spec => []LoopInv
<1>1. LoopInv /\ [Next]_vars => LoopInv'
  BY LoopStep
<1> QED BY <1>1, LoopInit, PTL DEF Spec

(* The fields of Loop and Snapshotter, the topic, the store and the committed *)
(* checkpoint stay in their ranges.                                           *)
THEOREM LoopTypes == Spec => []TypeOK
<1>1. ASSUME LoopInv PROVE TypeOK
  <2>n. /\ Len(topic) \in Nat /\ MaxTick \in Nat /\ base \in 0..MaxTick /\ acked \in 0..MaxTick
        /\ published \in 0..MaxTick /\ lostTick \in 0..MaxTick
    BY <1>1, LoopNumbers DEF LoopInv, TopicInv, WorldInv
  <2>1. \A i \in 1..Len(topic) : topic[i] \in Seq(TickOf) /\ Len(topic[i]) = i
    <3> TAKE i \in 1..Len(topic)
    <3>1. Recorded \in Seq(TickOf) /\ i \in 0..Len(Recorded) /\ topic[i] = Prefix(Recorded, i)
      BY <1>1, <2>n DEF LoopInv, TopicInv, History
    <3> QED BY <3>1, PrefixType
  <2>2. \A o \in objects : o.zone \in Partitions /\ o.world \in Seq(TickOf)
    <3> TAKE o \in objects
    <3>1. Len(o.world) \in 1..Len(topic) /\ o.world = topic[Len(o.world)] /\ o.zone \in Partitions
      BY <1>1 DEF LoopInv, RoundInv, RoundsVerify
    <3> QED BY <3>1, <2>1
  <2>3. world \in Seq(TickOf) /\ copy \in Seq(TickOf) /\ left \subseteq Partitions /\ round \in Rounds
    BY <1>1 DEF LoopInv, WorldInv, History, RoundInv
  <2>4. \A i \in 1..Len(pending) : pending[i] \in (base + 1)..published
    BY <1>1 DEF LoopInv, CheckpointInv
  <2>5. phase \in Phases /\ forced \in BOOLEAN /\ restarts \in 0..MaxRestarts
    BY <1>1 DEF LoopInv, Flags
  <2> QED BY <2>n, <2>1, <2>2, <2>3, <2>4, <2>5 DEF TypeOK
<1> QED BY <1>1, LoopInvariant, PTL

(* commitAcked and drainAs commit only offsets of a boundary that is recorded. *)
THEOREM CheckpointsDelivered == Spec => []CheckpointDelivered
<1>1. LoopInv => CheckpointDelivered
  BY DEF LoopInv, CheckpointInv
<1> QED BY <1>1, LoopInvariant, PTL

(* No commit, by this process or a later one, goes back to an earlier tick or *)
(* offset.                                                                    *)
THEOREM CheckpointsAdvance == Spec => CheckpointNeverBack
<1> DEFINE Forward == /\ committed'.tick >= committed.tick
                      /\ \A p \in Partitions : committed'.offsets[p] >= committed.offsets[p]
<1>1. LoopInv /\ [Next]_vars => [Forward]_vars
  BY LoopStep
<1> QED BY <1>1, LoopInvariant, PTL DEF Spec, CheckpointNeverBack

--------------------------------------------------------------------------------
(* What recovery can rely on. *)

(* The boundaries are one history. *)
LEMMA TimelineHolds == LoopInv => OneTimeline
<1> SUFFICES ASSUME LoopInv, NEW i \in 1..Len(topic) PROVE SubSeq(topic[i], 1, i - 1) = Before(i)
  BY DEF OneTimeline
<1>1. /\ Len(topic) \in Nat /\ Recorded \in Seq(TickOf) /\ Len(Recorded) = Len(topic)
      /\ topic[i] = Prefix(Recorded, i)
  BY LoopNumbers DEF LoopInv, TopicInv, History
<1>2. i \in 0..Len(Recorded) /\ i - 1 \in 0..i
  BY <1>1
<1>3. Prefix(topic[i], i - 1) = Prefix(Recorded, i - 1)
  BY <1>1, <1>2, PrefixPrefix
<1>4. Before(i) = Prefix(Recorded, i - 1)
  <2>1. CASE i = 1
    BY <2>1 DEF Before, Prefix
  <2>2. CASE i # 1
    <3>1. i - 1 \in 1..Len(topic)
      BY <2>2, <1>1
    <3> QED BY <3>1, <2>2 DEF Before, LoopInv, TopicInv
  <2> QED BY <2>1, <2>2
<1> QED BY <1>3, <1>4 DEF Prefix

(* A boundary that is not reproduced is of a tick that faulted a Zone. *)
LEMMA NotReproducedFaulted ==
  ASSUME LoopInv, NEW i \in 1..Len(topic), ~Reproduces(i)
  PROVE  Faulted(topic[i]) # Faulted(Before(i))
<1> SUFFICES ASSUME Faulted(topic[i]) = Faulted(Before(i)) PROVE Reproduces(i)
  OBVIOUS
<1>1. /\ Len(topic) \in Nat /\ History(Recorded) /\ Recorded \in Seq(TickOf) /\ Chain(Recorded)
      /\ Len(Recorded) = Len(topic) /\ topic[i] = Prefix(Recorded, i)
  BY LoopNumbers DEF LoopInv, TopicInv, History
<1>2. i - 1 \in 0..Len(Recorded) /\ i \in 1..Len(Recorded)
  BY <1>1
<1>3. Before(i) = Prefix(Recorded, i - 1)
  <2>1. CASE i = 1
    BY <2>1 DEF Before, Prefix
  <2>2. CASE i # 1
    <3>1. i - 1 \in 1..Len(topic)
      BY <2>2, <1>1
    <3> QED BY <3>1, <2>2 DEF Before, LoopInv, TopicInv
  <2> QED BY <2>1, <2>2
<1>4. PICK to \in Batches(Before(i)) : topic[i] = Step(Before(i), to)
  BY <1>1, <1>2, <1>3 DEF Chain
<1>5. Before(i) \in Seq(TickOf)
  BY <1>1, <1>2, <1>3, PrefixType
<1>6. Step(Before(i), Offsets(topic[i])) = topic[i]
  BY <1>4, <1>5, NoFaultReproduces
<1> QED BY <1>6 DEF Reproduces

(* The newest complete round, and that a complete round can be restored. *)
LEMMA SelectedRestores ==
  ASSUME LoopInv
  PROVE  SelectRound \in Nat /\ (SelectRound > 0 => Restores(SelectRound))
<1> DEFINE S == {0} \cup {t \in 1..MaxTick : Complete(t)}
<1>n. MaxTick \in Nat /\ Len(topic) \in Nat
  BY LoopNumbers
<1>1. S \in SUBSET (0..MaxTick) /\ S # {}
  BY <1>n
<1>2. Max(S) \in S
  BY <1>n, <1>1, MaxIsGreatest
<1>3. SelectRound \in 0..MaxTick /\ (SelectRound > 0 => Complete(SelectRound))
  BY <1>1, <1>2 DEF SelectRound
<1>4. ASSUME SelectRound > 0 PROVE Restores(SelectRound)
  <2> DEFINE t == SelectRound
             Z == {o \in At(t) : o.zone = 1}
  <2>1. 1 \in Partitions
    BY TickLoopAssumption DEF Partitions
  <2>2. Cardinality(Z) = 1
    BY <1>3, <1>4, <2>1 DEF Complete
  <2>3. Z # {}
    BY <2>2, FS_EmptySet
  <2>4. PICK o : o \in At(t)
    BY <2>3
  <2>5. \A x \in At(t) : Len(x.world) = t /\ t <= Len(topic) /\ x.world = topic[t]
    BY DEF At, LoopInv, RoundInv, RoundsVerify
  <2> QED BY <2>4, <2>5 DEF Restores
<1> QED BY <1>3, <1>4

(* A refusal has its fault. *)
LEMMA RefusalStep ==
  ASSUME LoopInv, RefusedOnlyAfterFault, [Next]_vars
  PROVE  RefusedOnlyAfterFault'
<1> SUFFICES ASSUME phase' = "refused"
             PROVE  (\E i \in (SelectRound + 1)..Len(topic) : Faulted(topic[i]) # Faulted(Before(i)))'
  BY DEF RefusedOnlyAfterFault
<1>1. CASE phase = "refused"
  <2>1. /\ published = 0 /\ round = "none"
    BY <1>1 DEF LoopInv, WorldInv, Alive
  <2>2. UNCHANGED <<topic, objects>>
    <3>1. published \in Nat /\ Len(topic) \in Nat
      BY LoopNumbers
    <3>2. CASE Stop \/ ForceRound \/ CancelForce
      BY <3>2, <1>1, ForceFrame DEF Stop
    <3>3. CASE UNCHANGED vars
      BY <3>3 DEF vars, boundaryVars, roundVars
    <3>4. ~(TickStep \/ TickFinish \/ Drained \/ Crash \/ Recover \/ RecoverRefuses)
      BY <1>1 DEF TickStep, TickFinish, Drained, Crash, Recover, RecoverRefuses
    <3>5. ~(Deliver \/ RoundProceeds \/ RoundAbandoned \/ PutObject \/ PutFails \/ RoundEnds)
      BY <2>1, <3>1 DEF Deliver, RoundProceeds, RoundAbandoned, PutObject, PutFails, RoundEnds
    <3>6. CASE BoundaryAcked \/ BoundaryLost
      BY <3>6 DEF BoundaryAcked, BoundaryLost, roundVars
    <3> QED BY <3>2, <3>3, <3>4, <3>5, <3>6 DEF Next
  <2> QED BY <1>1, <2>2 DEF RefusedOnlyAfterFault, SelectRound, Complete, At, Before
<1>2. CASE phase # "refused"
  <2>1. RecoverRefuses
    <3>1. ~(TickStep \/ TickFinish \/ Stop \/ Drained \/ Crash \/ Recover)
      BY DEF TickStep, TickFinish, Stop, Drained, Crash, Exit, Recover, RecoverTo
    <3>2. ~(Deliver \/ BoundaryAcked \/ BoundaryLost)
      BY <1>2 DEF Deliver, BoundaryAcked, BoundaryLost
    <3>3. ~(RoundProceeds \/ RoundAbandoned \/ PutObject \/ PutFails \/ RoundEnds)
      BY <1>2 DEF RoundProceeds, RoundAbandoned, PutObject, PutFails, RoundEnds, roundUnchanged
    <3>4. ~(ForceRound \/ CancelForce) /\ ~(UNCHANGED vars)
      BY <1>2, ForceFrame DEF vars
    <3> QED BY <3>1, <3>2, <3>3, <3>4 DEF Next
  <2>2. ~RecoversFrom(SelectRound) /\ UNCHANGED <<topic, objects>>
    BY <2>1 DEF RecoverRefuses, boundaryVars, roundVars
  <2>3. SelectRound \in Nat /\ (SelectRound > 0 => Restores(SelectRound))
    BY SelectedRestores
  <2>4. PICK i \in (SelectRound + 1)..Len(topic) : ~Reproduces(i)
    BY <2>2, <2>3 DEF RecoversFrom
  <2>5. i \in 1..Len(topic)
    BY <2>3, <2>4, LoopNumbers
  <2>6. Faulted(topic[i]) # Faulted(Before(i))
    BY <2>4, <2>5, NotReproducedFaulted
  <2> QED BY <2>2, <2>4, <2>6 DEF SelectRound, Complete, At, Before
<1> QED BY <1>1, <1>2

(* Every stored round is of a recorded tick, the recorded ticks are one       *)
(* history, and only a tick that faulted a Zone keeps recovery from starting.  *)
THEOREM RecoveryStarts == Spec => []Recovers
<1>1. Init => RefusedOnlyAfterFault
  BY DEF Init, RefusedOnlyAfterFault
<1>2. LoopInv /\ RefusedOnlyAfterFault /\ [Next]_vars => RefusedOnlyAfterFault'
  BY RefusalStep
<1>3. LoopInv => RoundsVerify /\ OneTimeline
  BY TimelineHolds DEF LoopInv, RoundInv
<1>4. LoopInv /\ RefusedOnlyAfterFault => Recovers
  BY <1>3 DEF Recovers
<1> QED BY <1>1, <1>2, <1>4, LoopInvariant, PTL DEF Spec
================================================================================
