--------------------------- MODULE BoundarySeqProofs ---------------------------
(* Proofs about BoundarySeq, for every tick bound and every buffer size. *)
EXTENDS BoundarySeq, FiniteSetTheorems, TLAPS

--------------------------------------------------------------------------------
(* Facts about runs of consecutive ticks, the shape of the topic, the buffer, *)
(* a batch and the held boundaries.                                           *)

(* The empty sequence is a run after any tick. *)
LEMMA RunEmpty == \A n \in Int : Run(<<>>, n)
BY DEF Run

(* A run is extended by its next tick. *)
LEMMA RunAppend ==
  ASSUME NEW s \in Seq(Nat), NEW n \in Int, NEW x \in Nat, Run(s, n), x = n + Len(s) + 1
  PROVE  /\ Append(s, x) \in Seq(Nat)
         /\ Len(Append(s, x)) = Len(s) + 1
         /\ Run(Append(s, x), n)
BY DEF Run

(* A run without its first tick is a run after that tick. *)
LEMMA RunTail ==
  ASSUME NEW s \in Seq(Nat), NEW n \in Int, Run(s, n), s # <<>>
  PROVE  /\ Head(s) = n + 1
         /\ Head(s) \in Nat
         /\ Tail(s) \in Seq(Nat)
         /\ Len(Tail(s)) = Len(s) - 1
         /\ Len(s) > 0
         /\ Run(Tail(s), n + 1)
BY DEF Run

(* The ticks of a run are an interval. *)
LEMMA RunTicks ==
  ASSUME NEW s \in Seq(Nat), NEW n \in Nat, Run(s, n)
  PROVE  {s[i] : i \in 1..Len(s)} = (n + 1)..(n + Len(s))
<1>1. \A x \in {s[i] : i \in 1..Len(s)} : x \in (n + 1)..(n + Len(s))
  BY DEF Run
<1>2. ASSUME NEW x \in (n + 1)..(n + Len(s)) PROVE x \in {s[i] : i \in 1..Len(s)}
  <2>1. x - n \in 1..Len(s) /\ s[x - n] = x
    BY DEF Run
  <2> QED BY <2>1
<1> QED BY <1>1, <1>2

(* The elements after the first. *)
LEMMA TailElements ==
  ASSUME NEW s \in Seq(Nat), s # <<>>
  PROVE  \A i \in 1..Len(Tail(s)) : Tail(s)[i] = s[i + 1] /\ i + 1 \in 1..Len(s)
OBVIOUS

(* What a non-empty sequence's ends are. *)
LEMMA HeadTail ==
  ASSUME NEW s \in Seq(Nat), s # <<>>
  PROVE  Head(s) \in Nat /\ Tail(s) \in Seq(Nat) /\ Len(Tail(s)) = Len(s) - 1 /\ Head(s) = s[1] /\ Len(s) > 0
OBVIOUS

--------------------------------------------------------------------------------
(* Type correctness of one step: every variable keeps its type.  HandOverInv *)
(* is needed because a goroutine takes the head of a batch.                  *)
LEMMA TypeStep == TypeOK /\ HandOverInv /\ [Next]_vars => TypeOK'
<1> SUFFICES ASSUME TypeOK, HandOverInv, [Next]_vars PROVE TypeOK'
  OBVIOUS
<1> USE DEF TypeOK, seqVars, threadVars, producerVars, lost
<1>p. ASSUME NEW t \in Threads, NEW p \in Phases PROVE [phase EXCEPT ![t] = p] \in [Threads -> Phases]
  OBVIOUS
<1>b. ASSUME NEW t \in Threads, NEW b \in Seq(Nat) PROVE [batch EXCEPT ![t] = b] \in [Threads -> Seq(Nat)]
  OBVIOUS
<1>e. <<>> \in Seq(Nat)
  OBVIOUS
<1>h. held \in Seq(Nat)
  OBVIOUS
<1>c. "idle" \in Phases /\ "room" \in Phases /\ "check" \in Phases /\ "produce" \in Phases
      /\ "loop" \in Threads /\ "promise" \in Threads
  BY DEF Phases, Threads
<1>l. ASSUME NEW n \in Nat, ResolveLate(n) \/ ResolveLost(n)
      PROVE  outstanding' \in SUBSET Nat /\ held' \in Seq(Nat) /\ acked' \in Nat /\ lostTick' \in Nat
  BY <1>l, <1>e DEF ResolveLate, ResolveLost, LoseLocked
<1>1. CASE Publish
  <2>1. CASE PublishTimedOut
    BY <1>1, <1>e, <2>1 DEF Publish, PublishTimedOut, LoseLocked
  <2>2. CASE PublishHeld(tick + 1)
    BY <1>1, <2>2 DEF Publish, PublishHeld
  <2>3. CASE PublishNow(tick + 1)
    <3>1. <<tick + 1>> \in Seq(Nat)
      OBVIOUS
    <3>2. phase' \in [Threads -> Phases] /\ batch' \in [Threads -> Seq(Nat)]
      BY <1>p, <1>b, <1>c, <2>3, <3>1 DEF PublishNow, StartHandOver
    <3> QED
      BY <1>1, <2>3, <3>2 DEF Publish, PublishNow
  <2>4. CASE UNCHANGED <<seqVars, phase, batch>>
    BY <1>1, <2>4 DEF Publish
  <2> QED
    BY <1>1, <2>1, <2>2, <2>3, <2>4 DEF Publish, PublishRefused
<1>2. CASE PromiseAcked
  <2>1. Head(sent) \in Nat /\ Tail(sent) \in Seq(Nat)
    BY <1>2, HeadTail DEF PromiseAcked
  <2>2. {held[i] : i \in 1..Len(held)} \in SUBSET Nat
    OBVIOUS
  <2>3. CASE ResolveLate(Head(sent)) /\ UNCHANGED <<phase, batch>>
    BY <1>2, <1>l, <2>1, <2>3 DEF PromiseAcked
  <2>4. CASE ResolveAcked(Head(sent)) /\ UNCHANGED <<phase, batch>>
    BY <1>2, <2>1, <2>4 DEF PromiseAcked, ResolveAcked
  <2>5. CASE ResolveAckedLast("promise", Head(sent))
    <3>1. phase' \in [Threads -> Phases] /\ batch' \in [Threads -> Seq(Nat)]
      BY <1>p, <1>b, <1>c, <1>h, <2>5 DEF ResolveAckedLast, StartHandOver
    <3> QED
      BY <1>2, <1>e, <2>1, <2>2, <2>5, <3>1 DEF PromiseAcked, ResolveAckedLast
  <2> QED
    BY <1>2, <2>3, <2>4, <2>5 DEF PromiseAcked
<1>3. ASSUME NEW n \in 1..MaxTick, PromiseFailed(n) \/ PromiseRefused(n) PROVE TypeOK'
  <2>1. n \in Nat
    BY BoundaryAssumption
  <2> QED
    BY <1>3, <1>l, <2>1 DEF PromiseFailed, PromiseRefused
<1>4. ASSUME NEW t \in Threads, HandOver(t) PROVE TypeOK'
  <2>0. ASSUME EndHandOver(t) PROVE phase' \in [Threads -> Phases] /\ batch' \in [Threads -> Seq(Nat)]
    BY <1>p, <1>b, <1>c, <1>e, <2>0 DEF EndHandOver
  <2>1. CASE HandOverRoom(t)
    BY <1>p, <1>c, <2>1 DEF HandOverRoom
  <2>2. CASE HandOverNoRoom(t)
    <3>1. batch[t] # <<>> /\ batch[t] \in Seq(Nat)
      BY <2>2 DEF HandOverNoRoom, HandOverInv
    <3>2. Head(batch[t]) \in Nat
      BY <3>1, HeadTail
    <3> QED
      BY <1>l, <2>0, <2>2, <3>2 DEF HandOverNoRoom
  <2>3. CASE HandOverDone(t)
    BY <2>0, <2>3 DEF HandOverDone
  <2>4. CASE HandOverCheck(t)
    BY <1>p, <1>c, <2>4 DEF HandOverCheck
  <2>5. CASE HandOverProduce(t)
    <3>1. batch[t] # <<>> /\ batch[t] \in Seq(Nat)
      BY <2>5 DEF HandOverProduce, HandOverInv
    <3>2. Head(batch[t]) \in Nat /\ Tail(batch[t]) \in Seq(Nat)
      BY <3>1, HeadTail
    <3>3. phase' \in [Threads -> Phases] /\ batch' \in [Threads -> Seq(Nat)]
      BY <1>p, <1>b, <1>c, <2>5, <3>2 DEF HandOverProduce
    <3>4. Append(buffer, Head(batch[t])) \in Seq(Nat)
      BY <3>2
    <3>5. \/ buffer' = Append(buffer, Head(batch[t])) /\ used' = used + 1 /\ UNCHANGED refused
          \/ UNCHANGED <<buffer, used>> /\ refused' = refused \cup {Head(batch[t])}
      BY <2>5 DEF HandOverProduce
    <3>6. buffer' \in Seq(Nat)
      BY <3>4, <3>5, Zenon
    <3>7. used \in Int /\ used + 1 \in Int /\ refused \in SUBSET Nat
          /\ \A x \in Nat : refused \cup {x} \in SUBSET Nat
      OBVIOUS
    <3>8. used' \in Int /\ refused' \in SUBSET Nat
      BY <3>2, <3>5, <3>7, Zenon
    <3> QED
      BY <2>5, <3>3, <3>6, <3>8 DEF HandOverProduce
  <2> QED
    BY <1>4, <2>1, <2>2, <2>3, <2>4, <2>5 DEF HandOver
<1>5. CASE PromiseReturns
  BY <1>5 DEF PromiseReturns
<1>6. CASE BrokerWrites
  <2>1. Head(buffer) \in Nat /\ Tail(buffer) \in Seq(Nat)
    BY <1>6, HeadTail DEF BrokerWrites
  <2>2. Append(topic, Head(buffer)) \in Seq(Nat) /\ Append(sent, Head(buffer)) \in Seq(Nat)
    BY <2>1
  <2>3. buffer' \in Seq(Nat) /\ topic' \in Seq(Nat) /\ sent' \in Seq(Nat)
    BY <1>6, <2>1, <2>2, Zenon DEF BrokerWrites
  <2> QED
    BY <1>6, <2>3 DEF BrokerWrites
<1>7. CASE DeliveryTimesOut
  <2>1. {buffer[i] : i \in 1..Len(buffer)} \in SUBSET Nat
    OBVIOUS
  <2>2. failed' \in SUBSET Nat
    BY <1>7, <2>1 DEF DeliveryTimesOut
  <2> QED
    BY <1>7, <1>e, <2>2 DEF DeliveryTimesOut
<1>8. CASE OthersTake \/ OthersFree
  <2>1. others' \in Nat /\ used' \in Int
    BY <1>8, SMTT(30) DEF OthersTake, OthersFree
  <2> QED
    BY <1>8, <2>1 DEF OthersTake, OthersFree
<1>9. CASE Restart
  BY <1>9, <1>c, <1>e DEF Restart
<1>10. CASE UNCHANGED vars
  BY <1>10 DEF vars
<1> QED
  BY <1>1, <1>2, <1>3, <1>4, <1>5, <1>6, <1>7, <1>8, <1>9, <1>10 DEF Next

--------------------------------------------------------------------------------
(* The boundary invariant is preserved by every step of the sequencer, the    *)
(* producer and the broker.                                                   *)
LEMMA BoundaryStep ==
  ASSUME TypeOK, BoundaryInv, [Next]_vars
  PROVE  BoundaryInv'
<1> DEFINE L == LoopBatch  P == PromiseBatch
<1>t. /\ topic \in Seq(Nat) /\ buffer \in Seq(Nat) /\ sent \in Seq(Nat) /\ held \in Seq(Nat)
      /\ L \in Seq(Nat) /\ P \in Seq(Nat)
      /\ Len(topic) \in Nat /\ Len(buffer) \in Nat /\ Len(sent) \in Nat /\ Len(held) \in Nat
      /\ Len(L) \in Nat /\ Len(P) \in Nat
      /\ outstanding \in SUBSET Nat /\ acked \in Nat /\ lostTick \in Nat /\ used \in Int /\ tick \in Nat
      /\ failed \in SUBSET Nat /\ refused \in SUBSET Nat
  <2>1. L \in Seq(Nat) /\ P \in Seq(Nat)
    BY DEF TypeOK, Threads, LoopBatch, PromiseBatch
  <2> QED BY <2>1 DEF TypeOK
<1>tb. phase \in [Threads -> Phases] /\ batch \in [Threads -> Seq(Nat)]
  BY DEF TypeOK
<1>m. MaxBuffered \in Nat /\ MaxTick \in Nat
  BY BoundaryAssumption
<1>e. Len(<<>>) = 0 /\ (\A n \in Int : Run(<<>>, n)) /\ \A s \in Seq(Nat) : (s = <<>> <=> Len(s) = 0)
  BY RunEmpty
<1>h. /\ phase["loop"] = "idle" => L = <<>>
      /\ phase["promise"] = "idle" => P = <<>>
      /\ phase["loop"] \in {"room", "produce"} => L # <<>>
      /\ phase["promise"] \in {"room", "produce"} => P # <<>>
      /\ Len(L) <= 1
      /\ L = <<>> \/ P = <<>>
      /\ Run(L, Free)
      /\ Run(P, Free) \/ Full
  BY DEF BoundaryInv, HandOverInv, Idle, Threads, LoopBatch, PromiseBatch
<1>i. /\ \A i \in 1..Len(L) : acked < L[i]
      /\ \A i \in 1..Len(P) : acked < P[i]
  BY DEF BoundaryInv, HandOverInv
<1>g. /\ Run(topic, 0) /\ Run(buffer, Len(topic))
      /\ Len(sent) <= Len(topic) /\ Run(sent, Len(topic) - Len(sent)) /\ acked < Len(topic) - Len(sent) + 1
      /\ lostTick # 0 => acked < lostTick
  BY <1>t DEF BoundaryInv, Gapless, AckOrder, Oldest, LossNotAcked, lost
<1>n. CASE UNCHANGED vars
  BY <1>n DEF vars, seqVars, threadVars, producerVars, BoundaryInv, Gapless, Run, HandOverInv, Idle, LoopBatch, PromiseBatch,
     Free, Full, AckOrder, Oldest, LossNotAcked, lost, Healthy, Handed, Doomed
<1>q. ASSUME HandOverInv', Run(topic', 0), Run(buffer', Len(topic')),
             Len(sent') <= Len(topic'), Run(sent', Len(topic') - Len(sent')), acked' < Len(topic') - Len(sent') + 1,
             lostTick' # 0 => acked' < lostTick',
             lostTick' # 0 \/ Healthy' \/ Doomed',
             Len(topic') \in Nat, Len(sent') \in Nat
      PROVE  BoundaryInv'
  BY <1>q DEF BoundaryInv, Gapless, AckOrder, Oldest, LossNotAcked, lost
<1>f. /\ Free = Len(topic) + Len(buffer) /\ Free \in Nat
      /\ Handed = Free + Len(L) + Len(P) /\ Handed \in Nat
      /\ Oldest = Len(topic) - Len(sent) + 1 /\ Oldest \in Int
  BY <1>t DEF Free, Handed, Oldest
<1>o. lostTick # 0 \/ Healthy \/ Doomed
  BY DEF BoundaryInv, lost
<1>k. ASSUME UNCHANGED <<phase, batch, topic, buffer>>, acked' = acked, used' >= used \/ P = <<>>, used' \in Int
      PROVE  HandOverInv'
  <2>1. UNCHANGED <<LoopBatch, PromiseBatch, Free>>
    BY <1>k DEF LoopBatch, PromiseBatch, Free
  <2>2. Full' \/ Run(P, Free)
    BY <1>k, <1>t, <1>m, <1>e, <1>f, <1>h DEF Full
  <2>3. HandOverInv
    BY DEF BoundaryInv
  <2> QED BY <1>k, <2>1, <2>2, <2>3 DEF HandOverInv, Idle
<1>c. ASSUME phase'["loop"] = "idle" => LoopBatch' = <<>>,
             phase'["promise"] = "idle" => PromiseBatch' = <<>>,
             phase'["loop"] \in {"room", "produce"} => LoopBatch' # <<>>,
             phase'["promise"] \in {"room", "produce"} => PromiseBatch' # <<>>,
             Len(LoopBatch') <= 1,
             LoopBatch' = <<>> \/ PromiseBatch' = <<>>,
             Run(LoopBatch', Free'),
             Run(PromiseBatch', Free') \/ Full',
             \A i \in 1..Len(LoopBatch') : acked' < LoopBatch'[i],
             \A i \in 1..Len(PromiseBatch') : acked' < PromiseBatch'[i]
      PROVE  HandOverInv'
  BY <1>c DEF HandOverInv, Idle, Threads, LoopBatch, PromiseBatch
<1>a. ASSUME lostTick = 0 PROVE \A n \in outstanding : Oldest <= n /\ acked < n
  <2>1. CASE Healthy
    <3>1. outstanding = Oldest..Handed
      BY <2>1 DEF Healthy
    <3> QED BY <1>t, <1>f, <1>g, <3>1, SMTT(30)
  <2>2. CASE Doomed
    <3>1. \A n \in outstanding : Oldest <= n
      BY <2>2 DEF Doomed
    <3> QED BY <1>t, <1>f, <1>g, <3>1
  <2> QED BY <1>a, <1>o, <2>1, <2>2
<1>b. ASSUME UNCHANGED <<batch, topic, buffer, sent>>
      PROVE  UNCHANGED <<LoopBatch, PromiseBatch, Free, Handed, Oldest>>
  BY <1>b DEF LoopBatch, PromiseBatch, Free, Handed, Oldest
<1>hh. ASSUME Healthy, UNCHANGED <<LoopBatch, PromiseBatch, Free, Handed, Oldest, outstanding, held, tick, failed, refused>>
       PROVE  Healthy'
  BY <1>hh DEF Healthy
<1>dd. ASSUME Doomed, UNCHANGED <<LoopBatch, PromiseBatch, Free, Oldest, outstanding, failed, refused, topic>>,
              used' \in Int, used' >= used \/ P = <<>>
       PROVE  Doomed'
  <2>1. P = <<>> \/ Full'
    BY <1>dd, <1>t, <1>m DEF Doomed, Full
  <2> QED BY <1>dd, <2>1 DEF Doomed
<1> USE DEF seqVars, threadVars, producerVars, lost
<1>1. CASE Publish
  <2>1. UNCHANGED <<running, producerVars, topic, restarts>> /\ tick' = tick + 1 /\ phase["loop"] = "idle"
    BY <1>1 DEF Publish, Idle
  <2>2. CASE PublishTimedOut
    <3>1. PICK n \in outstanding : (\A m \in outstanding : n <= m) /\ lostTick' = n /\ held' = <<>>
      BY <2>2 DEF PublishTimedOut, LoseLocked
    <3>2. UNCHANGED <<outstanding, acked, phase, batch>> /\ lostTick = 0
      BY <2>2 DEF PublishTimedOut
    <3>3. acked < n
      BY <1>a, <3>2
    <3> QED
      BY <1>q, <1>k, <1>t, <1>g, <2>1, <3>1, <3>2, <3>3
  <2>3. CASE UNCHANGED <<seqVars, phase, batch>> /\ lostTick # 0
    BY <1>q, <1>k, <1>t, <1>g, <2>1, <2>3
  <2>4. CASE PublishHeld(tick + 1)
    <3>1. UNCHANGED <<outstanding, lostTick, acked, phase, batch>> /\ lostTick = 0 /\ held' = Append(held, tick + 1)
      BY <2>4 DEF PublishHeld
    <3>2. CASE Doomed
      <4>1. Doomed'
        BY <1>b, <1>dd, <1>t, <2>1, <3>1, <3>2
      <4> QED
        BY <1>q, <1>k, <1>t, <1>g, <2>1, <3>1, <4>1
    <3>3. CASE Healthy
      <4>1. /\ Len(held') = Len(held) + 1
            /\ Run(held', Handed)
        <5>0. Run(held, Handed) /\ tick = Handed + Len(held)
          BY <3>3 DEF Healthy
        <5>1. tick + 1 = Handed + Len(held) + 1 /\ tick + 1 \in Nat /\ Handed \in Int
          BY <1>t, <1>f, <5>0
        <5> QED BY <1>t, <3>1, <5>0, <5>1, RunAppend
      <4>2. Healthy'
        <5>1. UNCHANGED <<LoopBatch, PromiseBatch, Free, Handed, Oldest>>
          BY <1>b, <2>1, <3>1
        <5>2. tick' = Handed + Len(held')
          BY <1>t, <1>f, <2>1, <3>3, <4>1 DEF Healthy
        <5> QED BY <2>1, <3>1, <3>3, <4>1, <5>1, <5>2 DEF Healthy
      <4> QED
        BY <1>q, <1>k, <1>t, <1>g, <2>1, <3>1, <4>2
    <3> QED
      BY <1>o, <3>1, <3>2, <3>3
  <2>5. CASE PublishNow(tick + 1)
    <3>1. /\ lostTick = 0 /\ outstanding = {} /\ held = <<>> /\ outstanding' = {tick + 1}
          /\ phase' = [phase EXCEPT !["loop"] = "room"] /\ batch' = [batch EXCEPT !["loop"] = <<tick + 1>>]
          /\ UNCHANGED <<held, lostTick, acked>>
      BY <2>5 DEF PublishNow, StartHandOver
    <3>2. Healthy
      BY <1>o, <3>1 DEF Doomed
    <3>3. L = <<>>
      BY <1>h, <2>1 DEF Threads
    <3>4. Oldest > Handed
      BY <1>f, <3>1, <3>2 DEF Healthy
    <3>5. P = <<>> /\ buffer = <<>> /\ sent = <<>> /\ tick = Len(topic)
      BY <1>e, <1>t, <1>f, <3>1, <3>2, <3>4 DEF Healthy
    <3>6. /\ LoopBatch' = <<tick + 1>> /\ PromiseBatch' = <<>>
          /\ phase'["loop"] = "room" /\ phase'["promise"] = phase["promise"]
      BY <1>tb, <3>1, <3>5 DEF Threads, LoopBatch, PromiseBatch
    <3>7. Run(<<tick + 1>>, tick) /\ Len(<<tick + 1>>) = 1 /\ <<tick + 1>> # <<>> /\ <<tick + 1>>[1] = tick + 1
      BY <1>t DEF Run
    <3>8. Free' = tick /\ Oldest' = tick + 1 /\ Handed' = tick + 1 /\ acked < tick + 1
      BY <1>e, <1>t, <1>g, <2>1, <3>5, <3>6, <3>7 DEF Free, Oldest, Handed
    <3>9. HandOverInv'
      <4>1. \A i \in 1..Len(LoopBatch') : acked' < LoopBatch'[i]
        BY <3>1, <3>6, <3>7, <3>8
      <4>2. \A i \in 1..Len(PromiseBatch') : acked' < PromiseBatch'[i]
        BY <1>e, <3>6
      <4>3. phase'["promise"] \in {"room", "produce"} => PromiseBatch' # <<>>
        BY <1>h, <3>5, <3>6
      <4>4. Run(LoopBatch', Free') /\ Run(PromiseBatch', Free') /\ Len(LoopBatch') <= 1 /\ LoopBatch' # <<>>
        BY <1>e, <1>t, <3>6, <3>7, <3>8
      <4> QED BY <1>c, <3>6, <4>1, <4>2, <4>3, <4>4
    <3>10. Healthy'
      <4>1. outstanding' = Oldest'..Handed'
        BY <1>t, <3>1, <3>8
      <4>2. failed' = {} /\ refused' = {}
        BY <2>1, <3>2 DEF Healthy
      <4>3. Run(held', Handed') /\ tick' = Handed' + Len(held')
        BY <1>e, <1>t, <2>1, <3>1, <3>8
      <4> QED BY <1>e, <1>t, <3>6, <3>7, <3>8, <4>1, <4>2, <4>3 DEF Healthy
    <3> QED
      BY <1>q, <1>t, <1>g, <2>1, <3>1, <3>9, <3>10
  <2> QED
    BY <1>1, <2>2, <2>3, <2>4, <2>5 DEF Publish, PublishRefused
<1>2. CASE PromiseAcked
  <2> DEFINE n == Head(sent)
  <2>1. /\ sent # <<>> /\ sent' = Tail(sent) /\ phase["promise"] = "idle"
        /\ UNCHANGED <<tick, buffer, failed, refused, others, used, topic, restarts>>
    BY <1>2 DEF PromiseAcked, Idle
  <2>2. /\ n = Oldest /\ Len(sent') = Len(sent) - 1 /\ Len(sent) > 0 /\ Run(sent', Oldest)
    <3>1. Run(sent, Oldest - 1) /\ Oldest - 1 \in Int /\ Oldest - 1 + 1 = Oldest
      BY <1>t, <1>f, <1>g
    <3> QED BY <1>t, <2>1, <3>1, RunTail
  <2> HIDE DEF n
  <2>3. /\ Oldest' = Oldest + 1 /\ Oldest <= Len(topic) /\ Len(sent') \in Nat
        /\ Len(sent') <= Len(topic) /\ Len(topic) - Len(sent') = Oldest
    <3>1. Oldest' = Len(topic') - Len(sent') + 1 /\ Oldest = Len(topic) - Len(sent) + 1 /\ Len(topic') = Len(topic)
      BY <2>1 DEF Oldest
    <3>2. Len(topic) \in Nat /\ Len(sent) \in Nat /\ Len(sent) <= Len(topic)
      BY <1>t, <1>g
    <3>3. Len(sent') = Len(sent) - 1 /\ Len(sent) > 0
      BY <2>2
    <3> QED BY <3>1, <3>2, <3>3
  <2>4. P = <<>> /\ Free' = Free /\ Oldest <= Free
    BY <1>t, <1>f, <1>h, <2>1, <2>3 DEF Free
  <2>5. Run(topic', 0) /\ Run(buffer', Len(topic')) /\ Len(sent') <= Len(topic') /\ Len(topic') \in Nat
        /\ Run(sent', Len(topic') - Len(sent'))
    BY <1>t, <1>g, <2>1, <2>2, <2>3
  <2>6. CASE ResolveLate(n) /\ UNCHANGED <<phase, batch>>
    <3>1. lostTick # 0 /\ UNCHANGED <<lostTick, acked, phase, batch>>
      BY <2>6 DEF ResolveLate
    <3>2. HandOverInv'
      BY <1>k, <1>t, <2>1, <3>1
    <3>3. acked' < Len(topic') - Len(sent') + 1
      BY <1>t, <1>f, <1>g, <2>1, <2>3, <3>1
    <3> QED BY <1>q, <1>g, <2>3, <2>5, <3>1, <3>2, <3>3
  <2>7. CASE ResolveAcked(n) /\ UNCHANGED <<phase, batch>>
    <3>1. lostTick = 0 /\ acked' = n /\ outstanding' = outstanding \ {n} /\ UNCHANGED <<held, lostTick, phase, batch>>
      BY <2>7 DEF ResolveAcked
    <3>2. LoopBatch' = L /\ PromiseBatch' = P
      BY <3>1 DEF LoopBatch, PromiseBatch
    <3>3. Handed' = Handed
      BY <2>4, <3>2 DEF Handed
    <3>4. acked' < Len(topic') - Len(sent') + 1
      BY <1>t, <1>f, <2>1, <2>2, <2>3, <3>1
    <3>5. CASE Healthy
      <4>1. HandOverInv'
        <5>1. \A i \in 1..Len(L) : acked' < L[i]
          BY <1>t, <1>f, <1>h, <2>2, <2>4, <3>1, SMTT(30) DEF Run
        <5>2. \A i \in 1..Len(PromiseBatch') : acked' < PromiseBatch'[i]
          BY <1>e, <2>4, <3>2
        <5>3. Run(LoopBatch', Free') /\ Run(PromiseBatch', Free') /\ Len(LoopBatch') <= 1 /\ PromiseBatch' = <<>>
          <6>1. Run(<<>>, Free)
            BY <1>e, <1>f
          <6> QED BY <1>h, <2>4, <3>2, <6>1, Zenon
        <5>4. /\ phase'["loop"] = "idle" => LoopBatch' = <<>>
              /\ phase'["loop"] \in {"room", "produce"} => LoopBatch' # <<>>
              /\ phase'["promise"] = "idle"
          BY <1>h, <2>1, <3>1, <3>2, Zenon
        <5>5. phase'["promise"] \notin {"room", "produce"} /\ \A i \in 1..Len(LoopBatch') : acked' < LoopBatch'[i]
          BY <3>2, <5>1, <5>4
        <5> QED BY <1>c, <5>2, <5>3, <5>4, <5>5
      <4>2. outstanding' = Oldest'..Handed'
        <5>1. outstanding = Oldest..Handed
          BY <3>5 DEF Healthy
        <5> QED BY <1>f, <2>2, <2>3, <3>1, <3>3, <5>1
      <4>3. Healthy'
        BY <2>1, <2>4, <3>1, <3>2, <3>3, <3>5, <4>2 DEF Healthy
      <4> QED BY <1>q, <1>g, <2>3, <2>5, <3>1, <3>4, <4>1, <4>3
    <3>6. CASE Doomed
      <4>1. L = <<>>
        BY <3>6 DEF Doomed
      <4>2. HandOverInv'
        <5>1. \A i \in 1..Len(<<>>) : FALSE
          BY <1>e
        <5> QED BY <1>c, <1>e, <1>h, <2>4, <3>1, <3>2, <4>1, <5>1
      <4>3. \A m \in failed' \cup refused' : m \in outstanding' /\ m > Free'
        BY <1>t, <1>f, <2>1, <2>2, <2>4, <3>1, <3>6, SMTT(30) DEF Doomed
      <4>4. \A m \in outstanding' : Oldest' <= m
        <5>1. \A m \in outstanding : Oldest <= m /\ m \in Nat
          BY <1>a, <1>t, <3>1
        <5> QED BY <1>f, <2>2, <2>3, <3>1, <5>1
      <4>5. \A m \in (Len(topic') + 1)..Free' : m \in outstanding'
        BY <1>t, <1>f, <2>1, <2>2, <2>3, <2>4, <3>1, <3>6, SMTT(30) DEF Doomed
      <4>6. Doomed'
        BY <1>e, <2>1, <2>4, <3>2, <3>6, <4>1, <4>3, <4>4, <4>5 DEF Doomed
      <4> QED BY <1>q, <1>g, <2>3, <2>5, <3>1, <3>4, <4>2, <4>6
    <3> QED BY <1>o, <3>1, <3>5, <3>6
  <2>8. CASE ResolveAckedLast("promise", n)
    <3>1. /\ lostTick = 0 /\ outstanding \ {n} = {} /\ held # <<>> /\ acked' = n
          /\ outstanding' = {held[i] : i \in 1..Len(held)} /\ held' = <<>> /\ lostTick' = lostTick
          /\ phase' = [phase EXCEPT !["promise"] = "room"] /\ batch' = [batch EXCEPT !["promise"] = held]
      BY <2>8 DEF ResolveAckedLast, StartHandOver
    <3>2. ~Doomed
      <4> SUFFICES ASSUME Doomed PROVE FALSE
        OBVIOUS
      <4>1. PICK m \in failed \cup refused : m \in outstanding /\ m > Free
        BY DEF Doomed
      <4>2. m # n
        BY <1>t, <1>f, <2>2, <2>4, <4>1, SMTT(30)
      <4> QED BY <3>1, <4>1, <4>2
    <3>3. Healthy
      BY <1>o, <3>1, <3>2
    <3>4. Handed <= Oldest
      <4>1. outstanding = Oldest..Handed
        BY <3>3 DEF Healthy
      <4>2. Handed \in outstanding \/ Handed < Oldest
        BY <1>f, <4>1
      <4>3. Handed \in outstanding => Handed = Oldest
        BY <2>2, <3>1
      <4> QED BY <1>f, <4>2, <4>3
    <3>5. L = <<>> /\ Handed = Free /\ Oldest = Free /\ Free = Len(topic)
      <4>0. Len(P) = 0
        BY <1>e, <2>4
      <4>1. Len(L) = 0 /\ Handed = Free /\ Oldest = Free /\ Free = Len(topic)
        <5>1. /\ Free = Len(topic) + Len(buffer) /\ Handed = Free + Len(L) + Len(P) /\ Oldest <= Len(topic)
              /\ Handed <= Oldest
          BY <1>f, <2>3, <3>4
        <5>2. Len(topic) \in Nat /\ Len(buffer) \in Nat /\ Len(L) \in Nat /\ Oldest \in Int
          BY <1>t, <1>f
        <5> HIDE DEF L, P
        <5> QED BY <4>0, <5>1, <5>2
      <4> QED BY <1>e, <1>t, <4>1
    <3>6. LoopBatch' = <<>> /\ PromiseBatch' = held /\ phase'["loop"] = phase["loop"] /\ phase'["promise"] = "room"
      BY <1>tb, <3>1, <3>5 DEF Threads, LoopBatch, PromiseBatch
    <3>7. Run(held, Free) /\ tick = Free + Len(held) /\ failed = {} /\ refused = {}
      BY <3>3, <3>5 DEF Healthy
    <3>8. Handed' = Free + Len(held) /\ Oldest' = Free + 1
      BY <1>e, <1>t, <1>f, <2>3, <2>4, <3>5, <3>6 DEF Handed
    <3>9. outstanding' = Oldest'..Handed'
      BY <1>t, <1>f, <3>1, <3>7, <3>8, RunTicks
    <3>10. Healthy'
      <4>1. Run(held', Handed') /\ tick' = Handed' + Len(held')
        BY <1>e, <1>t, <1>f, <2>1, <3>1, <3>7, <3>8
      <4>2. Run(LoopBatch', Free') /\ Run(PromiseBatch', Free') /\ failed' = {} /\ refused' = {}
        BY <1>e, <1>f, <2>1, <2>4, <3>6, <3>7
      <4> QED BY <3>9, <4>1, <4>2 DEF Healthy
    <3>11. \A i \in 1..Len(held) : acked' < held[i]
      <4>1. \A i \in 1..Len(held) : held[i] = Free + i
        BY <3>7 DEF Run
      <4>2. acked' <= Free /\ Free \in Nat /\ acked' \in Nat
        BY <1>t, <1>f, <2>2, <3>1, <3>5
      <4> QED BY <4>1, <4>2
    <3>12. HandOverInv'
      <4>1. \A i \in 1..Len(<<>>) : FALSE
        BY <1>e
      <4>2. Run(LoopBatch', Free') /\ Run(PromiseBatch', Free') /\ Len(LoopBatch') <= 1
        BY <1>e, <1>f, <2>4, <3>6, <3>7
      <4> QED BY <1>c, <1>h, <3>1, <3>5, <3>6, <3>11, <4>1, <4>2
    <3>13. acked' < Len(topic') - Len(sent') + 1
      BY <1>t, <1>f, <2>1, <2>2, <2>3, <3>1
    <3> QED BY <1>q, <1>g, <2>3, <2>5, <3>1, <3>10, <3>12, <3>13
  <2> QED BY <1>2, <2>6, <2>7, <2>8 DEF PromiseAcked, n
<1>3. ASSUME NEW n \in 1..MaxTick, PromiseFailed(n) \/ PromiseRefused(n) PROVE BoundaryInv'
  <2>1. /\ n \in failed \/ n \in refused
        /\ ResolveLate(n) \/ ResolveLost(n)
        /\ UNCHANGED <<tick, phase, batch, buffer, sent, others, used, topic, restarts>>
    BY <1>3 DEF PromiseFailed, PromiseRefused
  <2>2. UNCHANGED acked
    BY <2>1 DEF ResolveLate, ResolveLost
  <2>3. HandOverInv'
    BY <1>k, <1>t, <2>1, <2>2
  <2>4. lostTick' # 0 /\ acked' < lostTick'
    <3>1. CASE ResolveLate(n)
      BY <1>g, <2>2, <3>1 DEF ResolveLate
    <3>2. CASE ResolveLost(n)
      <4>1. lostTick = 0 /\ lostTick' = n
        BY <3>2 DEF ResolveLost, LoseLocked
      <4>2. Doomed
        BY <1>o, <2>1, <4>1 DEF Healthy
      <4>3. n \in outstanding
        BY <2>1, <4>2 DEF Doomed
      <4> QED BY <1>a, <1>t, <2>2, <4>1, <4>3
    <3> QED BY <2>1, <3>1, <3>2
  <2> QED BY <1>q, <1>g, <1>t, <2>1, <2>2, <2>3, <2>4
<1>u. ASSUME UNCHANGED <<topic, buffer, sent, acked, lostTick>>, HandOverInv', lostTick # 0 \/ Healthy' \/ Doomed'
      PROVE  BoundaryInv'
  BY <1>u, <1>q, <1>g, <1>t
<1>4. ASSUME NEW t \in Threads, HandOver(t) PROVE BoundaryInv'
  <2>t. t = "loop" \/ t = "promise"
    BY DEF Threads
  <2>1. CASE HandOverRoom(t) \/ HandOverCheck(t)
    <3>1. /\ UNCHANGED <<tick, seqVars, batch, running, producerVars, topic, restarts>>
          /\ \/ phase[t] = "room" /\ phase' = [phase EXCEPT ![t] = "check"]
             \/ phase[t] = "check" /\ phase' = [phase EXCEPT ![t] = "produce"] /\ batch[t] # <<>>
      BY <2>1 DEF HandOverRoom, HandOverCheck
    <3>2. UNCHANGED <<LoopBatch, PromiseBatch, Free, Handed, Oldest>>
      BY <1>b, <3>1
    <3>3. /\ phase'["loop"] = "idle" => LoopBatch' = <<>>
          /\ phase'["promise"] = "idle" => PromiseBatch' = <<>>
          /\ phase'["loop"] \in {"room", "produce"} => LoopBatch' # <<>>
          /\ phase'["promise"] \in {"room", "produce"} => PromiseBatch' # <<>>
      BY <1>tb, <1>h, <2>t, <3>1, <3>2 DEF Threads, LoopBatch, PromiseBatch
    <3>4. Full' = Full
      BY <3>1 DEF Full
    <3>5. HandOverInv'
      BY <1>c, <1>h, <1>i, <3>1, <3>2, <3>3, <3>4
    <3>6. Healthy => Healthy'
      BY <1>hh, <3>1, <3>2
    <3>7. Doomed => Doomed'
      BY <1>dd, <1>t, <3>1, <3>2
    <3> QED BY <1>u, <1>o, <3>1, <3>5, <3>6, <3>7
  <2>e. ASSUME EndHandOver(t), UNCHANGED <<acked, topic, buffer, used>>
        PROVE  /\ HandOverInv'
               /\ t = "loop" => LoopBatch' = <<>> /\ PromiseBatch' = P
               /\ t = "promise" => LoopBatch' = L /\ PromiseBatch' = <<>>
    <3>1. phase' = [phase EXCEPT ![t] = "idle"] /\ batch' = [batch EXCEPT ![t] = <<>>]
      BY <2>e DEF EndHandOver
    <3>2. /\ t = "loop" => LoopBatch' = <<>> /\ PromiseBatch' = P /\ phase'["loop"] = "idle" /\ phase'["promise"] = phase["promise"]
          /\ t = "promise" => LoopBatch' = L /\ PromiseBatch' = <<>> /\ phase'["promise"] = "idle" /\ phase'["loop"] = phase["loop"]
      BY <1>tb, <3>1 DEF Threads, LoopBatch, PromiseBatch
    <3>3. Free' = Free /\ Full' = Full
      BY <2>e DEF Free, Full
    <3>4. \A i \in 1..Len(<<>>) : FALSE
      BY <1>e
    <3>5. Run(<<>>, Free) /\ Len(<<>>) <= 1
      BY <1>e, <1>f
    <3>6. CASE t = "loop"
      BY <1>c, <1>h, <1>i, <2>e, <3>2, <3>3, <3>4, <3>5, <3>6
    <3>7. CASE t = "promise"
      BY <1>c, <1>h, <1>i, <2>e, <3>2, <3>3, <3>4, <3>5, <3>7
    <3> QED BY <2>t, <3>2, <3>6, <3>7
  <2>2. CASE HandOverNoRoom(t)
    <3>1. /\ phase[t] = "room"
          /\ ResolveLate(Head(batch[t])) \/ ResolveLost(Head(batch[t]))
          /\ EndHandOver(t) /\ UNCHANGED <<tick, running, producerVars, topic, restarts>>
      BY <2>2 DEF HandOverNoRoom
    <3>2. UNCHANGED acked
      BY <3>1 DEF ResolveLate, ResolveLost
    <3>3. HandOverInv'
      BY <2>e, <3>1, <3>2
    <3>4. lostTick' # 0 /\ acked' < lostTick'
      <4>1. CASE ResolveLate(Head(batch[t]))
        BY <1>g, <3>2, <4>1 DEF ResolveLate
      <4>2. CASE ResolveLost(Head(batch[t]))
        <5>1. lostTick' = Head(batch[t])
          BY <4>2 DEF ResolveLost, LoseLocked
        <5>2. ASSUME NEW b \in Seq(Nat), b # <<>>, \A i \in 1..Len(b) : acked < b[i]
              PROVE  acked < Head(b) /\ Head(b) # 0
          BY <1>t, <5>2, HeadTail
        <5>3. batch[t] \in Seq(Nat) /\ batch[t] # <<>> /\ \A i \in 1..Len(batch[t]) : acked < batch[t][i]
          <6>1. CASE t = "loop"
            <7>1. phase["loop"] = "room" /\ batch[t] = LoopBatch
              BY <3>1, <6>1 DEF LoopBatch
            <7>2. LoopBatch \in Seq(Nat) /\ LoopBatch # <<>> /\ \A i \in 1..Len(LoopBatch) : acked < LoopBatch[i]
              BY <1>t, <1>h, <1>i, <7>1
            <7> QED BY <7>1, <7>2, Zenon
          <6>2. CASE t = "promise"
            <7>1. phase["promise"] = "room" /\ batch[t] = PromiseBatch
              BY <3>1, <6>2 DEF PromiseBatch
            <7>2. PromiseBatch \in Seq(Nat) /\ PromiseBatch # <<>> /\ \A i \in 1..Len(PromiseBatch) : acked < PromiseBatch[i]
              BY <1>t, <1>h, <1>i, <7>1
            <7> QED BY <7>1, <7>2, Zenon
          <6> QED BY <2>t, <6>1, <6>2
        <5>4. acked < Head(batch[t]) /\ Head(batch[t]) # 0
          BY <5>2, <5>3
        <5> QED BY <3>2, <5>1, <5>4
      <4> QED BY <3>1, <4>1, <4>2
    <3> QED BY <1>q, <1>g, <1>t, <3>1, <3>2, <3>3, <3>4
  <2>3. CASE HandOverDone(t)
    <3>1. /\ phase[t] = "check"
          /\ lostTick # 0 \/ batch[t] = <<>>
          /\ EndHandOver(t) /\ UNCHANGED <<tick, seqVars, running, producerVars, topic, restarts>>
      BY <2>3 DEF HandOverDone
    <3>2. HandOverInv'
      BY <2>e, <3>1
    <3>3. CASE batch[t] = <<>>
      <4>1. LoopBatch' = L /\ PromiseBatch' = P
        BY <2>e, <2>t, <3>1, <3>3 DEF LoopBatch, PromiseBatch
      <4>2. UNCHANGED <<Free, Handed, Oldest>>
        BY <3>1, <4>1 DEF Free, Handed, Oldest
      <4>3. Healthy => Healthy'
        BY <1>hh, <3>1, <4>1, <4>2
      <4>4. Doomed => Doomed'
        BY <1>dd, <1>t, <3>1, <4>1, <4>2
      <4> QED BY <1>u, <1>o, <3>1, <3>2, <4>3, <4>4
    <3> QED BY <1>u, <3>1, <3>2, <3>3
  <2>4. CASE HandOverProduce(t)
    <3> DEFINE b == batch[t]
    <3>1. /\ phase[t] = "produce" /\ phase' = [phase EXCEPT ![t] = "check"]
          /\ batch' = [batch EXCEPT ![t] = Tail(b)]
          /\ UNCHANGED <<tick, seqVars, running, sent, failed, others, topic, restarts>>
          /\ \/ used < MaxBuffered /\ buffer' = Append(buffer, Head(b)) /\ used' = used + 1 /\ refused' = refused
             \/ used >= MaxBuffered /\ refused' = refused \cup {Head(b)} /\ UNCHANGED <<buffer, used>>
      BY <2>4 DEF HandOverProduce
    <3>2. /\ b # <<>> /\ b \in Seq(Nat)
          /\ Run(b, Free) \/ Full
          /\ \A i \in 1..Len(b) : acked < b[i]
          /\ \/ t = "loop" /\ b = L /\ P = <<>> /\ Run(b, Free) /\ Len(b) <= 1
             \/ t = "promise" /\ b = P /\ L = <<>>
      <4>1. CASE t = "loop"
        BY <1>t, <1>h, <1>i, <3>1, <4>1, Zenon DEF LoopBatch
      <4>2. CASE t = "promise"
        BY <1>t, <1>h, <1>i, <3>1, <4>2, Zenon DEF PromiseBatch
      <4> QED BY <2>t, <4>1, <4>2
    <3>3. /\ t = "loop" => LoopBatch' = Tail(b) /\ PromiseBatch' = P /\ phase'["promise"] = phase["promise"] /\ phase'["loop"] = "check"
          /\ t = "promise" => LoopBatch' = L /\ PromiseBatch' = Tail(b) /\ phase'["loop"] = phase["loop"] /\ phase'["promise"] = "check"
      BY <1>tb, <3>1 DEF Threads, LoopBatch, PromiseBatch
    <3> HIDE DEF b
    <3>4. /\ Head(b) \in Nat /\ Tail(b) \in Seq(Nat) /\ Len(Tail(b)) = Len(b) - 1 /\ Head(b) = b[1]
          /\ Len(b) > 0 /\ Len(b) \in Nat /\ 1 \in 1..Len(b)
      <4>1. b \in Seq(Nat) /\ b # <<>>
        BY <3>2
      <4>2. Head(b) \in Nat /\ Tail(b) \in Seq(Nat) /\ Len(Tail(b)) = Len(b) - 1 /\ Head(b) = b[1] /\ Len(b) > 0
        BY <4>1, HeadTail
      <4>3. Len(b) \in Nat
        BY <4>1
      <4> QED BY <4>2, <4>3
    <3>5. \A i \in 1..Len(Tail(b)) : Tail(b)[i] = b[i + 1] /\ i + 1 \in 1..Len(b)
      BY <3>2, TailElements
    <3>6. ASSUME Run(Tail(b), Free') \/ (Full' /\ Tail(b) = <<>>) \/ (Full' /\ t = "promise"), Free' \in Nat
          PROVE  HandOverInv'
      <4>1. \A i \in 1..Len(Tail(b)) : acked' < Tail(b)[i]
        BY <3>1, <3>2, <3>5
      <4>2. (\A i \in 1..Len(<<>>) : FALSE) /\ Run(<<>>, Free') /\ Len(<<>>) <= 1
        BY <1>e, <3>6
      <4>3. CASE t = "loop"
        <5>1. b = L /\ P = <<>> /\ Len(b) <= 1
          BY <3>2, <4>3
        <5>2. Tail(b) = <<>>
          BY <1>e, <3>4, <5>1
        <5> QED BY <1>c, <1>h, <3>3, <4>2, <4>3, <5>1, <5>2
      <4>4. CASE t = "promise"
        <5>1. b = P /\ L = <<>>
          BY <3>2, <4>4
        <5>2. LoopBatch' = <<>> /\ PromiseBatch' = Tail(b) /\ phase'["loop"] = phase["loop"] /\ phase'["promise"] = "check"
          BY <3>3, <4>4, <5>1
        <5>3. Run(PromiseBatch', Free') \/ Full'
          BY <3>6, <5>2
        <5> QED BY <1>c, <1>h, <4>1, <4>2, <5>1, <5>2, <5>3
      <4> QED BY <2>t, <4>3, <4>4
    <3>7. CASE used < MaxBuffered
      <4>1. ~Full /\ buffer' = Append(buffer, Head(b)) /\ refused' = refused
        BY <1>t, <1>m, <3>1, <3>7 DEF Full
      <4>2. Run(b, Free)
        BY <3>2, <4>1
      <4>3. Head(b) = Free + 1 /\ Run(Tail(b), Free + 1)
        <5>1. b \in Seq(Nat) /\ b # <<>> /\ Free \in Int
          BY <1>f, <3>2
        <5> QED BY <4>2, <5>1, RunTail
      <4>4. Len(buffer') = Len(buffer) + 1 /\ Run(buffer', Len(topic))
        <5>1. Head(b) = Len(topic) + Len(buffer) + 1 /\ Len(topic) \in Int
          BY <1>f, <1>t, <4>3
        <5> QED BY <1>t, <1>g, <3>4, <4>1, <5>1, RunAppend
      <4>5. Free' = Free + 1 /\ Free' \in Nat /\ Oldest' = Oldest
        <5>1. Len(topic') = Len(topic) /\ Free' = Len(topic') + Len(buffer') /\ Oldest' = Oldest
          BY <3>1 DEF Free, Oldest
        <5> QED BY <1>t, <1>f, <4>4, <5>1, SMTT(30)
      <4>6. HandOverInv'
        BY <3>6, <4>3, <4>5
      <4>7. ~Doomed
        BY <3>2, <4>1 DEF Doomed
      <4>8. Healthy => Healthy'
        <5> SUFFICES ASSUME Healthy PROVE Healthy'
          OBVIOUS
        <5>1. /\ failed = {} /\ refused = {} /\ outstanding = Oldest..Handed
              /\ Run(held, Handed) /\ tick = Handed + Len(held)
          BY DEF Healthy
        <5>2. Handed' = Handed /\ Run(LoopBatch', Free') /\ Run(PromiseBatch', Free')
          <6>0. Handed = Free + Len(L) + Len(P) /\ Handed' = Free' + Len(LoopBatch') + Len(PromiseBatch')
            BY DEF Handed
          <6>1. Len(<<>>) = 0 /\ Run(<<>>, Free + 1)
            BY <1>e, <1>f
          <6>2. CASE t = "loop"
            <7>1. b = L /\ P = <<>> /\ LoopBatch' = Tail(b) /\ PromiseBatch' = <<>>
              BY <3>2, <3>3, <6>2
            <7> HIDE DEF L, P
            <7> QED BY <1>f, <3>4, <4>3, <4>5, <6>0, <6>1, <7>1
          <6>3. CASE t = "promise"
            <7>1. b = P /\ L = <<>> /\ LoopBatch' = <<>> /\ PromiseBatch' = Tail(b)
              BY <3>2, <3>3, <6>3
            <7> HIDE DEF L, P
            <7> QED BY <1>f, <3>4, <4>3, <4>5, <6>0, <6>1, <7>1
          <6> QED BY <2>t, <6>2, <6>3
        <5> QED BY <3>1, <4>1, <4>5, <5>1, <5>2 DEF Healthy
      <4> QED BY <1>q, <1>o, <1>g, <1>t, <3>1, <4>4, <4>6, <4>7, <4>8
    <3>8. CASE used >= MaxBuffered
      <4>1. Full /\ Full' /\ refused' = refused \cup {Head(b)} /\ UNCHANGED <<buffer, used>>
        BY <1>t, <1>m, <3>1, <3>8 DEF Full
      <4>2. Free' = Free /\ Oldest' = Oldest /\ Free' \in Nat
        BY <1>f, <3>1, <4>1 DEF Free, Oldest
      <4>3. t = "loop" => Tail(b) = <<>>
        BY <1>e, <3>2, <3>4
      <4>4. HandOverInv'
        BY <2>t, <3>6, <4>1, <4>2, <4>3
      <4>5. LoopBatch' = <<>> /\ (PromiseBatch' = <<>> \/ PromiseBatch' = Tail(b))
        BY <2>t, <3>2, <3>3, <4>3
      <4>6. ASSUME \A i \in 1..Len(b) : b[i] \in outstanding /\ b[i] > Free,
                   \A n \in failed \cup refused : n \in outstanding /\ n > Free,
                   \A n \in outstanding : Oldest <= n,
                   \A n \in (Len(topic) + 1)..Free : n \in outstanding
            PROVE  Doomed'
        <5>1. failed' \cup refused' # {} /\ \A n \in failed' \cup refused' : n \in outstanding' /\ n > Free'
          BY <3>1, <3>4, <4>1, <4>2, <4>6
        <5>2. \A n \in outstanding' : Oldest' <= n
          BY <3>1, <4>2, <4>6
        <5>3. \A n \in (Len(topic') + 1)..Free' : n \in outstanding'
          BY <3>1, <4>2, <4>6
        <5>4. \A i \in 1..Len(Tail(b)) : Tail(b)[i] \in outstanding' /\ Tail(b)[i] > Free'
          BY <3>1, <3>5, <4>2, <4>6
        <5>5. \A i \in 1..Len(PromiseBatch') : PromiseBatch'[i] \in outstanding' /\ PromiseBatch'[i] > Free'
          <6>1. CASE PromiseBatch' = <<>>
            BY <1>e, <6>1
          <6>2. CASE PromiseBatch' = Tail(b)
            BY <5>4, <6>2, Zenon
          <6> QED BY <4>5, <6>1, <6>2
        <5> QED BY <4>1, <4>5, <5>1, <5>2, <5>3, <5>5 DEF Doomed
      <4>7. Healthy => Doomed'
        <5> SUFFICES ASSUME Healthy PROVE Doomed'
          OBVIOUS
        <5>1. failed = {} /\ refused = {} /\ outstanding = Oldest..Handed /\ Run(L, Free) /\ Run(P, Free)
          BY DEF Healthy
        <5>2. Run(b, Free) /\ Handed = Free + Len(b)
          <6>1. CASE b = L /\ P = <<>>
            <7>1. Handed = Free + Len(L) + Len(P) /\ Len(P) = 0
              BY <1>e, <1>f, <6>1
            <7> HIDE DEF L, P
            <7> QED BY <1>f, <3>4, <5>1, <6>1, <7>1
          <6>2. CASE b = P /\ L = <<>>
            <7>1. Handed = Free + Len(L) + Len(P) /\ Len(L) = 0
              BY <1>e, <1>f, <6>2
            <7> HIDE DEF L, P
            <7> QED BY <1>f, <3>4, <5>1, <6>2, <7>1
          <6> QED BY <3>2, <6>1, <6>2
        <5>3. Oldest <= Len(topic) + 1 /\ Len(topic) <= Free
          BY <1>t, <1>f, <1>g
        <5>4. \A i \in 1..Len(b) : b[i] \in outstanding /\ b[i] > Free
          <6>1. \A i \in 1..Len(b) : b[i] = Free + i
            BY <5>2 DEF Run
          <6>2. outstanding = Oldest..Handed /\ Handed = Free + Len(b) /\ Oldest <= Free + 1
            BY <1>f, <1>t, <5>1, <5>2, <5>3
          <6>3. Free \in Nat /\ Oldest \in Int /\ Len(b) \in Nat
            BY <1>f, <3>4
          <6> HIDE DEF L, P
          <6> QED BY <6>1, <6>2, <6>3
        <5>5. \A n \in outstanding : Oldest <= n
          BY <1>f, <5>1
        <5>6. \A n \in (Len(topic) + 1)..Free : n \in outstanding
          <6>1. outstanding = Oldest..Handed /\ Handed = Free + Len(b)
            BY <5>1, <5>2
          <6>2. Free \in Nat /\ Oldest \in Int /\ Len(b) \in Nat /\ Len(topic) \in Nat
            BY <1>f, <1>t, <3>4
          <6> HIDE DEF L, P
          <6> QED BY <5>3, <6>1, <6>2
        <5>7. \A n \in failed \cup refused : n \in outstanding /\ n > Free
          BY <5>1
        <5> QED BY <4>6, <5>4, <5>5, <5>6, <5>7
      <4>8. Doomed => Doomed'
        <5> SUFFICES ASSUME Doomed PROVE Doomed'
          OBVIOUS
        <5>1. b = P
          BY <3>2 DEF Doomed
        <5> QED BY <4>6, <5>1 DEF Doomed
      <4> QED BY <1>q, <1>o, <1>g, <1>t, <3>1, <4>1, <4>4, <4>7, <4>8
    <3> QED BY <1>t, <1>m, <3>7, <3>8
  <2> QED BY <1>4, <2>1, <2>2, <2>3, <2>4 DEF HandOver
<1>5. CASE PromiseReturns
  <2>1. /\ UNCHANGED <<tick, seqVars, phase, batch, buffer, sent, failed, refused, topic, restarts>>
        /\ used' = used - 1 /\ phase["promise"] = "idle"
    BY <1>5 DEF PromiseReturns, Idle
  <2>2. P = <<>>
    BY <1>h, <2>1 DEF Threads
  <2>3. HandOverInv'
    BY <1>k, <1>t, <2>1, <2>2
  <2>4. Healthy => Healthy'
    BY <1>b, <1>hh, <2>1
  <2>5. Doomed => Doomed'
    BY <1>b, <1>dd, <1>t, <2>1, <2>2
  <2> QED
    BY <1>q, <1>o, <1>t, <1>g, <2>1, <2>3, <2>4, <2>5
<1>6. CASE BrokerWrites
  <2> DEFINE n == Head(buffer)
  <2>1. /\ buffer # <<>> /\ topic' = Append(topic, n) /\ sent' = Append(sent, n) /\ buffer' = Tail(buffer)
        /\ UNCHANGED <<tick, seqVars, phase, batch, failed, refused, others, used, restarts>>
    BY <1>6 DEF BrokerWrites
  <2>2. /\ n = Len(topic) + 1 /\ n \in Nat /\ Len(buffer') = Len(buffer) - 1 /\ Len(buffer) > 0
        /\ Run(buffer', Len(topic) + 1)
    BY <1>t, <1>g, <2>1, RunTail
  <2> HIDE DEF n
  <2>3. Len(topic') = Len(topic) + 1 /\ Run(topic', 0)
    BY <1>t, <1>g, <2>1, <2>2, RunAppend
  <2>4. Len(sent') = Len(sent) + 1 /\ Run(sent', Len(topic) - Len(sent))
    <3>1. Len(topic) - Len(sent) \in Int /\ n = (Len(topic) - Len(sent)) + Len(sent) + 1
      BY <1>t, <2>2
    <3> QED BY <1>t, <1>g, <2>1, <2>2, <3>1, RunAppend
  <2>5. LoopBatch' = L /\ PromiseBatch' = P
    BY <2>1 DEF LoopBatch, PromiseBatch
  <2>6. Free' = Free /\ Oldest' = Oldest
    <3>1. /\ Free' = Len(topic') + Len(buffer') /\ Oldest' = Len(topic') - Len(sent') + 1
          /\ Free = Len(topic) + Len(buffer) /\ Oldest = Len(topic) - Len(sent) + 1
      BY DEF Free, Oldest
    <3>2. Len(topic) \in Nat /\ Len(buffer) \in Nat /\ Len(sent) \in Nat
      BY <1>t
    <3> QED BY <2>2, <2>3, <2>4, <3>1, <3>2
  <2>7. Handed' = Handed /\ Full' = Full
    BY <2>1, <2>5, <2>6 DEF Handed, Full
  <2>8. HandOverInv'
    BY <1>c, <1>h, <1>i, <2>1, <2>5, <2>6, <2>7
  <2>9. Healthy => Healthy'
    BY <1>hh, <2>1, <2>5, <2>6, <2>7
  <2>10. Doomed => Doomed'
    <3> SUFFICES ASSUME Doomed PROVE Doomed'
      OBVIOUS
    <3>1. \A m \in (Len(topic) + 1)..Free : m \in outstanding
      BY DEF Doomed
    <3>2. \A m \in (Len(topic') + 1)..Free' : m \in outstanding'
      BY <1>t, <1>f, <2>1, <2>3, <2>6, <3>1, SMTT(30)
    <3> QED BY <2>1, <2>5, <2>6, <2>7, <3>2 DEF Doomed
  <2>11. Run(buffer', Len(topic'))
    BY <2>2, <2>3
  <2>12. Len(topic') - Len(sent') = Len(topic) - Len(sent) /\ Len(sent') <= Len(topic') /\ Len(topic') \in Nat /\ Len(sent') \in Nat
    BY <1>t, <1>g, <2>3, <2>4
  <2> QED BY <1>q, <1>o, <1>g, <2>1, <2>3, <2>4, <2>8, <2>9, <2>10, <2>11, <2>12
<1>7. CASE DeliveryTimesOut
  <2>1. /\ buffer # <<>> /\ phase["loop"] = "idle" /\ phase["promise"] = "idle"
        /\ failed' = failed \cup {buffer[i] : i \in 1..Len(buffer)} /\ buffer' = <<>>
        /\ UNCHANGED <<tick, seqVars, phase, batch, sent, refused, others, used, topic, restarts>>
    BY <1>7 DEF DeliveryTimesOut, Idle, Threads
  <2>2. L = <<>> /\ P = <<>> /\ LoopBatch' = <<>> /\ PromiseBatch' = <<>>
    <3>1. L = <<>> /\ P = <<>>
      BY <1>h, <2>1
    <3> QED BY <2>1, <3>1 DEF LoopBatch, PromiseBatch
  <2>3. {buffer[i] : i \in 1..Len(buffer)} = (Len(topic) + 1)..Free /\ Len(buffer) > 0
    <3>1. Len(buffer) > 0
      BY <1>t, <1>e, <2>1
    <3>2. buffer \in Seq(Nat) /\ Len(topic) \in Nat /\ Run(buffer, Len(topic))
      BY <1>t, <1>g
    <3>3. {buffer[i] : i \in 1..Len(buffer)} = (Len(topic) + 1)..(Len(topic) + Len(buffer))
      BY <3>2, RunTicks
    <3> QED BY <3>1, <3>3 DEF Free
  <2>4. Free' = Len(topic) /\ Free' \in Nat /\ Oldest' = Oldest
    <3>1. Free' = Len(topic) + Len(<<>>)
      BY <2>1 DEF Free
    <3>2. Oldest' = Oldest
      BY <2>1 DEF Oldest
    <3> QED BY <1>e, <1>t, <3>1, <3>2
  <2>5. (\A i \in 1..Len(<<>>) : FALSE) /\ Run(<<>>, Free') /\ Len(<<>>) <= 1
    BY <1>e, <2>4
  <2>6. HandOverInv'
    BY <1>c, <1>h, <2>1, <2>2, <2>5
  <2>7. ASSUME \A n \in failed \cup refused : n \in outstanding /\ n > Free,
               \A n \in outstanding : Oldest <= n,
               \A n \in (Len(topic) + 1)..Free : n \in outstanding
        PROVE  Doomed'
    <3>1. failed' = failed \cup ((Len(topic) + 1)..Free)
      BY <2>1, <2>3
    <3>2. Len(topic) + 1 \in failed'
      BY <1>f, <1>t, <2>3, <3>1
    <3>3. \A n \in failed' \cup refused' : n \in outstanding' /\ n > Free'
      <4>1. \A n \in failed \cup refused : n > Len(topic)
        <5>1. \A n \in failed \cup refused : n \in Nat /\ n > Free
          BY <1>t, <2>7
        <5>2. Free >= Len(topic) /\ Free \in Nat /\ Len(topic) \in Nat
          BY <1>t, <1>f
        <5> QED BY <5>1, <5>2
      <4>2. \A n \in (Len(topic) + 1)..Free : n > Len(topic)
        BY <1>f, <1>t
      <4>3. UNCHANGED <<outstanding, refused>>
        BY <2>1
      <4> QED BY <2>4, <2>7, <3>1, <4>1, <4>2, <4>3
    <3>4. \A n \in (Len(topic') + 1)..Free' : n \in outstanding'
      BY <1>t, <2>1, <2>4
    <3>5. \A n \in outstanding' : Oldest' <= n
      BY <2>1, <2>4, <2>7
    <3> QED BY <2>2, <2>5, <3>2, <3>3, <3>4, <3>5 DEF Doomed
  <2>8. Healthy => Doomed'
    <3> SUFFICES ASSUME Healthy PROVE Doomed'
      OBVIOUS
    <3>1. failed = {} /\ refused = {} /\ outstanding = Oldest..Handed
      BY DEF Healthy
    <3>2. Handed = Free /\ Oldest <= Len(topic) + 1
      <4>1. Len(L) = 0 /\ Len(P) = 0
        BY <1>e, <2>2
      <4> HIDE DEF L, P
      <4> QED BY <1>f, <1>t, <1>g, <4>1
    <3> QED BY <1>f, <1>t, <2>7, <3>1, <3>2
  <2>9. Doomed => Doomed'
    BY <2>7 DEF Doomed
  <2>10. Run(buffer', Len(topic'))
    BY <1>e, <1>t, <2>1
  <2> QED BY <1>q, <1>o, <1>g, <1>t, <2>1, <2>6, <2>8, <2>9, <2>10
<1>8. CASE OthersTake \/ OthersFree
  <2>1. /\ UNCHANGED <<tick, seqVars, threadVars, buffer, sent, failed, refused, topic, restarts>>
        /\ used' = used + 1 \/ (used' = used - 1 /\ phase["promise"] = "idle")
    BY <1>8 DEF OthersTake, OthersFree, Idle
  <2>2. used' >= used \/ P = <<>>
    BY <1>t, <1>h, <2>1 DEF Threads
  <2>3. HandOverInv'
    BY <1>k, <1>t, <2>1, <2>2
  <2>4. Healthy => Healthy'
    BY <1>b, <1>hh, <2>1
  <2>5. Doomed => Doomed'
    BY <1>b, <1>dd, <1>t, <2>1, <2>2
  <2> QED
    BY <1>q, <1>o, <1>t, <1>g, <2>1, <2>3, <2>4, <2>5
<1>9. CASE Restart
  <2>1. phase' = [t \in Threads |-> "idle"] /\ batch' = [t \in Threads |-> <<>>]
    BY <1>9 DEF Restart
  <2>2. LoopBatch' = <<>> /\ PromiseBatch' = <<>>
    BY <2>1 DEF LoopBatch, PromiseBatch, Threads
  <2>3. /\ topic' = topic /\ buffer' = <<>> /\ sent' = <<>> /\ held' = <<>> /\ outstanding' = {}
        /\ tick' = Len(topic) /\ failed' = {} /\ refused' = {} /\ lostTick' = 0 /\ acked' = 0
    BY <1>9 DEF Restart
  <2>4. Free' = Len(topic) /\ Oldest' = Len(topic) + 1 /\ Handed' = Len(topic)
    BY <1>e, <1>t, <2>2, <2>3 DEF Free, Oldest, Handed
  <2>5. HandOverInv'
    <3>1. phase'["loop"] = "idle" /\ phase'["promise"] = "idle"
      BY <2>1 DEF Threads
    <3> QED BY <1>c, <1>e, <1>t, <2>2, <2>4, <3>1
  <2>6. Healthy'
    <3>1. outstanding' = Oldest'..Handed'
      BY <1>t, <2>3, <2>4
    <3>2. Run(held', Handed') /\ tick' = Handed' + Len(held')
      BY <1>e, <1>t, <2>3, <2>4
    <3> QED BY <1>e, <1>t, <2>2, <2>3, <2>4, <3>1, <3>2 DEF Healthy
  <2> QED
    BY <1>q, <1>e, <1>t, <1>g, <2>3, <2>5, <2>6
<1> QED
  BY <1>1, <1>2, <1>3, <1>4, <1>5, <1>6, <1>7, <1>8, <1>9, <1>n DEF Next

(* The initial state satisfies the types and the boundary invariant. *)
LEMMA BoundaryInit == Init => TypeOK /\ BoundaryInv
<1> SUFFICES ASSUME Init PROVE TypeOK /\ BoundaryInv
  OBVIOUS
<1>1. /\ tick = 0 /\ topic = <<>> /\ outstanding = {} /\ held = <<>> /\ lostTick = 0 /\ acked = 0
      /\ buffer = <<>> /\ sent = <<>> /\ failed = {} /\ refused = {} /\ used = 0
  BY DEF Init
<1>2. LoopBatch = <<>> /\ PromiseBatch = <<>>
  BY DEF Init, LoopBatch, PromiseBatch, Threads
<1>3. Len(<<>>) = 0 /\ Run(<<>>, 0) /\ \A i \in 1..Len(<<>>) : FALSE
  BY RunEmpty
<1>4. Free = 0 /\ Oldest = 1 /\ Handed = 0
  BY <1>1, <1>2, <1>3 DEF Free, Oldest, Handed
<1>5. TypeOK
  BY DEF Init, TypeOK, Threads, Phases
<1>6. HandOverInv
  <2>1. \A t \in Threads : phase[t] = "idle" /\ batch[t] = <<>>
    BY DEF Init
  <2> QED BY <1>2, <1>3, <1>4, <2>1 DEF HandOverInv, Idle
<1>7. Healthy
  BY <1>1, <1>2, <1>3, <1>4 DEF Healthy
<1> QED BY <1>1, <1>3, <1>4, <1>5, <1>6, <1>7 DEF BoundaryInv, Gapless, AckOrder, LossNotAcked, lost

(* The types and the boundary invariant hold in every reachable state. *)
THEOREM BoundaryInvariant == Spec => [](TypeOK /\ BoundaryInv)
<1>1. TypeOK /\ BoundaryInv /\ [Next]_vars => TypeOK' /\ BoundaryInv'
  BY BoundaryStep, TypeStep DEF BoundaryInv
<1> QED BY <1>1, BoundaryInit, PTL DEF Spec

(* The events topic holds every boundary once, in tick order, with no gap,  *)
(* for every buffer size and however boundaries are held, lost or retried.  *)
THEOREM TopicGapless == Spec => []Gapless
<1>1. BoundaryInv => Gapless
  BY DEF BoundaryInv
<1> QED BY <1>1, BoundaryInvariant, PTL

(* What onAcked reported is on the topic. *)
THEOREM AckedIsDelivered == Spec => []AckedDelivered
<1>1. TypeOK /\ BoundaryInv => AckedDelivered
  <2> SUFFICES ASSUME TypeOK, BoundaryInv PROVE AckedDelivered
    OBVIOUS
  <2>1. Len(topic) \in Nat /\ Len(sent) \in Nat /\ acked \in Nat
    BY DEF TypeOK
  <2>2. acked < Len(topic) - Len(sent) + 1
    BY DEF BoundaryInv, AckOrder, Oldest
  <2> QED BY <2>1, <2>2 DEF AckedDelivered
<1> QED BY <1>1, BoundaryInvariant, PTL

(* The boundary reported lost is later than every acknowledged one. *)
THEOREM LossIsNotAcked == Spec => []LossNotAcked
<1>1. BoundaryInv => LossNotAcked
  BY DEF BoundaryInv
<1> QED BY <1>1, BoundaryInvariant, PTL

--------------------------------------------------------------------------------
(* Every step of the sequencer, its producer and the broker is a step of the *)
(* abstract boundary log, or changes nothing of it.                          *)
LEMMA LogStep ==
  ASSUME TypeOK, BoundaryInv, [Next]_vars
  PROVE  [Log!Next]_(Log!vars)
<1>t. /\ topic \in Seq(Nat) /\ Len(topic) \in Nat /\ Len(sent) \in Nat /\ acked \in Nat /\ lostTick \in Nat
      /\ outstanding \in SUBSET Nat /\ sent \in Seq(Nat)
  BY DEF TypeOK
<1>g. /\ Len(sent) <= Len(topic) /\ Run(sent, Len(topic) - Len(sent)) /\ acked < Len(topic) - Len(sent) + 1
      /\ lostTick # 0 \/ Healthy \/ Doomed
  BY <1>t DEF BoundaryInv, AckOrder, Oldest, lost
<1>s. ASSUME UNCHANGED <<topic, acked, lostTick>> PROVE UNCHANGED Log!vars
  BY <1>s, Zenon DEF Log!vars, lost
<1>l. ASSUME UNCHANGED <<topic, acked>>, lostTick' # 0 PROVE Log!Lose
  <2>1. lost' = TRUE
    BY <1>l, Zenon DEF lost
  <2> QED BY <1>l, <2>1, Zenon DEF Log!Lose
<1>a. ASSUME lostTick = 0, lostTick' = 0, topic' = topic, sent # <<>>, acked' = Head(sent) PROVE Log!Ack
  <2>1. Len(topic) - Len(sent) \in Int
    BY <1>t
  <2>2. Head(sent) = Len(topic) - Len(sent) + 1 /\ Len(sent) > 0
    BY <1>a, <1>t, <1>g, <2>1, RunTail
  <2>3. acked' \in (acked + 1)..Len(topic)
    BY <1>a, <1>t, <1>g, <2>2
  <2>4. lost = FALSE /\ lost' = lost /\ Len(topic)' = Len(topic)
    BY <1>a, Zenon DEF lost
  <2> QED BY <2>3, <2>4, Zenon DEF Log!Ack
<1>r. ASSUME NEW n \in Nat, ResolveLate(n) \/ ResolveLost(n), topic' = topic, n # 0
      PROVE  [Log!Next]_(Log!vars)
  <2>1. CASE ResolveLate(n)
    BY <1>s, <1>r, <2>1 DEF ResolveLate
  <2>2. CASE ResolveLost(n)
    BY <1>l, <1>r, <2>2 DEF ResolveLost, LoseLocked, Log!Next
  <2> QED BY <1>r, <2>1, <2>2
<1> USE DEF seqVars, threadVars, producerVars
<1>1. CASE Publish
  <2>1. CASE PublishTimedOut
    <3>1. PICK n \in outstanding : lostTick' = n
      BY <2>1 DEF PublishTimedOut, LoseLocked
    <3>2. acked' = acked /\ topic' = topic /\ lostTick = 0
      BY <1>1, <2>1 DEF Publish, PublishTimedOut, lost
    <3>3. Oldest <= n
      <4>1. CASE Healthy
        <5>1. outstanding = Oldest..Handed
          BY <4>1 DEF Healthy
        <5> QED BY <5>1
      <4>2. CASE Doomed
        BY <4>2 DEF Doomed
      <4> QED BY <1>g, <3>2, <4>1, <4>2
    <3>4. Oldest > 0
      BY <1>t, <1>g DEF Oldest
    <3>5. n # 0
      BY <1>t, <3>3, <3>4 DEF Oldest
    <3> QED BY <1>l, <3>1, <3>2, <3>5 DEF Log!Next
  <2>2. CASE UNCHANGED <<lostTick, acked>>
    BY <1>1, <1>s, <2>2 DEF Publish
  <2> QED BY <1>1, <2>1, <2>2 DEF Publish, PublishRefused, PublishHeld, PublishNow
<1>2. CASE PromiseAcked
  <2>1. topic' = topic /\ sent # <<>>
    BY <1>2 DEF PromiseAcked
  <2>2. CASE ResolveLate(Head(sent))
    BY <1>s, <2>1, <2>2 DEF ResolveLate
  <2>3. CASE ResolveAcked(Head(sent)) \/ ResolveAckedLast("promise", Head(sent))
    <3>1. lostTick = 0 /\ lostTick' = lostTick /\ acked' = Head(sent)
      BY <2>3 DEF ResolveAcked, ResolveAckedLast, lost
    <3> QED BY <1>a, <2>1, <3>1 DEF Log!Next
  <2> QED BY <1>2, <2>2, <2>3 DEF PromiseAcked
<1>3. ASSUME NEW n \in 1..MaxTick, PromiseFailed(n) \/ PromiseRefused(n) PROVE [Log!Next]_(Log!vars)
  <2>1. n \in Nat /\ n # 0
    BY BoundaryAssumption
  <2> QED BY <1>3, <1>r, <2>1 DEF PromiseFailed, PromiseRefused
<1>4. ASSUME NEW t \in Threads, HandOver(t) PROVE [Log!Next]_(Log!vars)
  <2>1. CASE HandOverNoRoom(t)
    <3>1. /\ topic' = topic /\ phase[t] = "room"
          /\ ResolveLate(Head(batch[t])) \/ ResolveLost(Head(batch[t]))
      BY <2>1 DEF HandOverNoRoom
    <3>2. ASSUME NEW b \in Seq(Nat), b # <<>>, \A i \in 1..Len(b) : acked < b[i]
          PROVE  Head(b) \in Nat /\ Head(b) # 0
      BY <1>t, <3>2, HeadTail
    <3>3. batch[t] # <<>> /\ batch[t] \in Seq(Nat)
      BY <3>1 DEF BoundaryInv, HandOverInv, TypeOK
    <3>4. \A i \in 1..Len(batch[t]) : acked < batch[t][i]
      <4>1. CASE t = "loop"
        BY <4>1, Zenon DEF BoundaryInv, HandOverInv, LoopBatch
      <4>2. CASE t = "promise"
        BY <4>2, Zenon DEF BoundaryInv, HandOverInv, PromiseBatch
      <4> QED BY <4>1, <4>2 DEF Threads
    <3>5. Head(batch[t]) \in Nat /\ Head(batch[t]) # 0
      BY <3>2, <3>3, <3>4
    <3> QED BY <1>r, <3>1, <3>5
  <2>2. CASE HandOverRoom(t) \/ HandOverCheck(t) \/ HandOverDone(t) \/ HandOverProduce(t)
    <3>1. UNCHANGED <<topic, acked, lostTick>>
      BY <2>2 DEF HandOverRoom, HandOverCheck, HandOverDone, HandOverProduce
    <3> QED BY <1>s, <3>1
  <2> QED BY <1>4, <2>1, <2>2 DEF HandOver
<1>5. CASE PromiseReturns \/ DeliveryTimesOut \/ OthersTake \/ OthersFree \/ UNCHANGED vars
  <2>1. UNCHANGED <<topic, acked, lostTick>>
    BY <1>5 DEF PromiseReturns, DeliveryTimesOut, OthersTake, OthersFree, vars
  <2> QED BY <1>s, <2>1
<1>6. CASE BrokerWrites
  <2>1. topic' = Append(topic, Head(buffer)) /\ UNCHANGED <<acked, lostTick>> /\ buffer # <<>> /\ buffer \in Seq(Nat)
    BY <1>6 DEF BrokerWrites, TypeOK
  <2>2. ASSUME NEW x \in Nat PROVE Len(Append(topic, x)) = Len(topic) + 1
    BY <1>t
  <2>3. Len(topic)' = Len(topic) + 1
    BY <2>1, <2>2, HeadTail
  <2>4. lost' = lost
    BY <2>1, Zenon DEF lost
  <2> QED BY <2>1, <2>3, <2>4, Zenon DEF Log!Next, Log!Deliver
<1>7. CASE Restart
  <2>1. topic' = topic /\ acked' = 0 /\ lostTick' = 0
    BY <1>7 DEF Restart
  <2>2. lost' = FALSE /\ Len(topic)' = Len(topic)
    BY <2>1, Zenon DEF lost
  <2> QED BY <2>1, <2>2, Zenon DEF Log!Next, Log!Restart
<1> QED BY <1>1, <1>2, <1>3, <1>4, <1>5, <1>6, <1>7 DEF Next

(* The sequencer implements the abstract boundary log, which is all the tick *)
(* loop, the snapshotter and recovery rely on.                               *)
THEOREM BoundaryLogRefinement == Spec => ImplementsBoundaryLog
<1>1. Init => Log!Init
  <2> SUFFICES ASSUME Init PROVE Log!Init
    OBVIOUS
  <2>1. topic = <<>> /\ acked = 0 /\ lostTick = 0 /\ Len(<<>>) = 0
    BY DEF Init
  <2>2. lost = FALSE /\ Len(topic) = 0
    BY <2>1, Zenon DEF lost
  <2> QED BY <2>1, <2>2, Zenon DEF Log!Init
<1>2. TypeOK /\ BoundaryInv /\ [Next]_vars => [Log!Next]_(Log!vars)
  BY LogStep
<1> QED BY <1>1, <1>2, BoundaryInvariant, PTL DEF Spec, ImplementsBoundaryLog, Log!Spec

--------------------------------------------------------------------------------
(* The producer's slots.  A timeout moves everything buffered to what failed,  *)
(* so the count needs that nothing buffered has failed already: what failed is *)
(* past everything produced, and nothing more is produced.                     *)
SlotInv ==
  /\ SlotsExact
  /\ IsFiniteSet(failed)
  /\ failed # {} => /\ LoopBatch = <<>>
                    /\ PromiseBatch = <<>> \/ Full
                    /\ \A n \in failed : n > Free

(* What failed and its count, as an interval is added to it. *)
LEMMA IntervalAdded ==
  ASSUME NEW S \in SUBSET Nat, IsFiniteSet(S), NEW a \in Nat, NEW n \in Nat, \A x \in S : x > a + n
  PROVE  /\ IsFiniteSet(S \cup ((a + 1)..(a + n)))
         /\ Cardinality(S \cup ((a + 1)..(a + n))) = Cardinality(S) + n
<1> DEFINE I == (a + 1)..(a + n)
<1>1. IsFiniteSet(I) /\ Cardinality(I) = n
  <2>1. a + 1 \in Int /\ a + n \in Int
    OBVIOUS
  <2>2. IsFiniteSet(I) /\ Cardinality(I) = IF a + 1 > a + n THEN 0 ELSE (a + n) - (a + 1) + 1
    BY <2>1, FS_Interval
  <2> HIDE DEF I
  <2> QED BY <2>2
<1>2. S \cap I = {}
  OBVIOUS
<1> HIDE DEF I
<1>3. /\ IsFiniteSet(S \cup I)
      /\ Cardinality(S \cup I) = Cardinality(S) + Cardinality(I) - Cardinality(S \cap I)
  BY <1>1, FS_Union
<1>4. Cardinality(S \cap I) = 0 /\ Cardinality(S) \in Nat
  BY <1>2, FS_EmptySet, FS_CardinalityType
<1>5. Cardinality(S \cup I) = Cardinality(S) + n
  BY <1>1, <1>3, <1>4
<1> QED BY <1>3, <1>5 DEF I

(* Every step keeps the slots counted. *)
LEMMA SlotStep ==
  ASSUME TypeOK, BoundaryInv, SlotInv, [Next]_vars
  PROVE  SlotInv'
<1> DEFINE L == LoopBatch  P == PromiseBatch  K == Cardinality(failed)
<1>t. /\ buffer \in Seq(Nat) /\ sent \in Seq(Nat) /\ topic \in Seq(Nat) /\ held \in Seq(Nat)
      /\ Len(topic) \in Nat /\ Len(buffer) \in Nat /\ Len(sent) \in Nat
      /\ phase \in [Threads -> Phases] /\ batch \in [Threads -> Seq(Nat)]
      /\ failed \in SUBSET Nat /\ others \in Nat /\ used \in Int /\ running \in {0, 1}
      /\ outstanding \in SUBSET Nat
  BY DEF TypeOK
<1>m. MaxBuffered \in Nat
  BY BoundaryAssumption
<1>k. IsFiniteSet(failed) /\ K \in Nat
  BY FS_CardinalityType DEF SlotInv
<1>e. used = others + Len(buffer) + Len(sent) + running + K /\ used <= MaxBuffered
  BY DEF SlotInv, SlotsExact
<1>f. failed # {} => L = <<>> /\ (P = <<>> \/ Full) /\ \A n \in failed : n > Free
  BY DEF SlotInv
<1>h. /\ phase["loop"] = "idle" => L = <<>>
      /\ phase["promise"] = "idle" => P = <<>>
  BY DEF BoundaryInv, HandOverInv, Idle, Threads, LoopBatch, PromiseBatch
<1>g. Run(buffer, Len(topic)) /\ Run(sent, Len(topic) - Len(sent)) /\ Len(sent) <= Len(topic)
  BY <1>t DEF BoundaryInv, AckOrder, Oldest
<1>o. ASSUME lostTick = 0, failed # {} PROVE \E n \in failed : n \in outstanding /\ n > Len(topic)
  <2>1. Doomed
    BY <1>o DEF BoundaryInv, lost, Healthy
  <2>2. PICK n : n \in failed
    BY <1>o
  <2>3. n \in outstanding /\ n > Free /\ n \in Nat
    BY <2>1, <2>2, <1>t DEF Doomed
  <2> QED BY <2>2, <2>3, <1>t DEF Free
<1>q. ASSUME used' = others' + Len(buffer') + Len(sent') + running' + Cardinality(failed'), used' <= MaxBuffered,
             IsFiniteSet(failed'),
             failed' # {} => /\ LoopBatch' = <<>> /\ (PromiseBatch' = <<>> \/ used' >= MaxBuffered)
                             /\ \A n \in failed' : n > Len(topic') + Len(buffer')
      PROVE  SlotInv'
  BY <1>q DEF SlotInv, SlotsExact, Full, Free
<1>u. ASSUME UNCHANGED <<buffer, sent, failed, others, used, topic, running>>,
             failed # {} => /\ LoopBatch' = <<>> \/ LoopBatch' = L
                            /\ PromiseBatch' = <<>> \/ PromiseBatch' = P
      PROVE  SlotInv'
  BY <1>u, <1>e, <1>k, <1>f, <1>q DEF Full, Free
<1>b. ASSUME batch' = batch PROVE LoopBatch' = L /\ PromiseBatch' = P
  BY <1>b DEF LoopBatch, PromiseBatch
<1> USE DEF seqVars, threadVars, producerVars
<1>1. CASE Publish
  <2>1. UNCHANGED <<buffer, sent, failed, others, used, topic, running>>
    BY <1>1 DEF Publish
  <2>2. CASE PublishNow(tick + 1)
    <3>1. lostTick = 0 /\ outstanding = {}
      BY <2>2 DEF PublishNow, lost
    <3>2. failed = {}
      BY <1>o, <3>1
    <3> QED BY <1>u, <2>1, <3>2
  <2>3. CASE batch' = batch
    BY <1>u, <1>b, <2>1, <2>3
  <2> QED BY <1>1, <2>2, <2>3 DEF Publish, PublishTimedOut, PublishRefused, PublishHeld
<1>2. CASE PromiseAcked
  <2>1. /\ sent # <<>> /\ sent' = Tail(sent) /\ running = 0 /\ running' = 1
        /\ UNCHANGED <<buffer, failed, others, used, topic>>
    BY <1>2 DEF PromiseAcked
  <2>2. Len(sent') = Len(sent) - 1
    BY <1>t, <2>1, HeadTail
  <2>3. used' = others' + Len(buffer') + Len(sent') + running' + Cardinality(failed') /\ used' <= MaxBuffered
    BY <1>e, <1>t, <1>k, <1>m, <2>1, <2>2
  <2>4. CASE batch' = batch
    <3>1. LoopBatch' = L /\ PromiseBatch' = P
      BY <1>b, <2>4
    <3> QED BY <1>q, <1>f, <1>k, <2>1, <2>3, <3>1 DEF Full, Free
  <2>5. CASE ResolveAckedLast("promise", Head(sent))
    <3>1. lostTick = 0 /\ outstanding \ {Head(sent)} = {}
      BY <2>5 DEF ResolveAckedLast, lost
    <3>2. Head(sent) = Len(topic) - Len(sent) + 1 /\ Len(sent) > 0
      BY <1>t, <1>g, <2>1, RunTail
    <3>3. failed = {}
      <4> SUFFICES ASSUME failed # {} PROVE FALSE
        OBVIOUS
      <4>1. PICK n \in failed : n \in outstanding /\ n > Len(topic)
        BY <1>o, <3>1
      <4>2. n \in Nat /\ n = Head(sent)
        BY <4>1, <3>1, <1>t
      <4> QED BY <4>1, <4>2, <3>2, <1>t
    <3> QED BY <1>q, <1>k, <2>1, <2>3, <3>3
  <2> QED BY <1>2, <2>4, <2>5 DEF PromiseAcked
<1>3. ASSUME NEW n \in 1..MaxTick, PromiseFailed(n) \/ PromiseRefused(n) PROVE SlotInv'
  <2>1. CASE PromiseRefused(n)
    <3>1. UNCHANGED <<buffer, sent, failed, others, used, topic, running, batch>>
      BY <2>1 DEF PromiseRefused
    <3> QED BY <1>u, <1>b, <3>1
  <2>2. CASE PromiseFailed(n)
    <3>1. /\ n \in failed /\ failed' = failed \ {n} /\ running = 0 /\ running' = 1
          /\ UNCHANGED <<buffer, sent, others, used, topic, batch>>
      BY <2>2 DEF PromiseFailed
    <3>2. IsFiniteSet(failed') /\ Cardinality(failed') = K - 1
      BY <1>k, <3>1, FS_RemoveElement
    <3>3. used' = others' + Len(buffer') + Len(sent') + running' + Cardinality(failed') /\ used' <= MaxBuffered
      BY <1>e, <1>t, <1>k, <1>m, <3>1, <3>2
    <3>4. LoopBatch' = L /\ PromiseBatch' = P
      BY <1>b, <3>1
    <3> QED BY <1>q, <1>f, <3>1, <3>2, <3>3, <3>4 DEF Full, Free
  <2> QED BY <1>3, <2>1, <2>2
<1>4. ASSUME NEW t \in Threads, HandOver(t) PROVE SlotInv'
  <2>b. ASSUME NEW b, batch' = [batch EXCEPT ![t] = b]
        PROVE  /\ t = "loop" => LoopBatch' = b /\ PromiseBatch' = P
               /\ t = "promise" => LoopBatch' = L /\ PromiseBatch' = b
    BY <2>b, <1>t DEF LoopBatch, PromiseBatch, Threads
  <2>1. CASE HandOverRoom(t) \/ HandOverCheck(t)
    <3>1. UNCHANGED <<buffer, sent, failed, others, used, topic, running, batch>>
      BY <2>1 DEF HandOverRoom, HandOverCheck
    <3> QED BY <1>u, <1>b, <3>1
  <2>2. CASE HandOverNoRoom(t) \/ HandOverDone(t)
    <3>1. /\ UNCHANGED <<buffer, sent, failed, others, used, topic, running>>
          /\ batch' = [batch EXCEPT ![t] = <<>>]
      BY <2>2 DEF HandOverNoRoom, HandOverDone, EndHandOver
    <3>2. (LoopBatch' = <<>> \/ LoopBatch' = L) /\ (PromiseBatch' = <<>> \/ PromiseBatch' = P)
      BY <2>b, <3>1 DEF Threads
    <3> QED BY <1>u, <3>1, <3>2
  <2>3. CASE HandOverProduce(t)
    <3>1. /\ phase[t] = "produce" /\ batch' = [batch EXCEPT ![t] = Tail(batch[t])]
          /\ UNCHANGED <<running, sent, failed, others, topic>>
      BY <2>3 DEF HandOverProduce
    <3>2. batch[t] # <<>> /\ batch[t] \in Seq(Nat)
      BY <3>1, <1>t DEF BoundaryInv, HandOverInv
    <3>3. Head(batch[t]) \in Nat
      BY <3>2, HeadTail
    <3>4. CASE UNCHANGED <<buffer, used>>
      <4>1. failed # {} => t = "promise" /\ LoopBatch' = L /\ Full
        <5>1. failed # {} => t # "loop"
          BY <1>f, <3>2 DEF LoopBatch
        <5>2. t = "promise" => P = batch[t]
          BY DEF PromiseBatch
        <5> QED BY <5>1, <5>2, <2>b, <3>1, <3>2, <1>f DEF Threads
      <4>2. failed # {} => LoopBatch' = <<>> /\ used' >= MaxBuffered
        BY <4>1, <1>f, <3>4 DEF Full
      <4> QED BY <1>q, <1>e, <1>k, <1>f, <3>1, <3>4, <4>2 DEF Free
    <3>5. CASE used < MaxBuffered /\ buffer' = Append(buffer, Head(batch[t])) /\ used' = used + 1
      <4>1. failed = {}
        <5>1. failed # {} => t # "loop"
          BY <1>f, <3>2 DEF LoopBatch
        <5>2. failed # {} => t # "promise"
          BY <1>f, <1>t, <1>m, <3>2, <3>5 DEF PromiseBatch, Full
        <5> QED BY <5>1, <5>2 DEF Threads
      <4>2. Len(buffer') = Len(buffer) + 1
        BY <1>t, <3>3, <3>5
      <4>3. used' = others' + Len(buffer') + Len(sent') + running' + Cardinality(failed') /\ used' <= MaxBuffered
        BY <1>e, <1>t, <1>k, <1>m, <3>1, <3>5, <4>2, SMTT(30)
      <4> QED BY <1>q, <1>k, <3>1, <4>1, <4>3
    <3> QED BY <2>3, <3>4, <3>5 DEF HandOverProduce
  <2> QED BY <1>4, <2>1, <2>2, <2>3 DEF HandOver
<1>5. CASE PromiseReturns
  <2>1. /\ phase["promise"] = "idle" /\ running = 1 /\ running' = 0 /\ used' = used - 1
        /\ UNCHANGED <<buffer, sent, failed, others, topic, batch>>
    BY <1>5 DEF PromiseReturns, Idle
  <2>2. used' = others' + Len(buffer') + Len(sent') + running' + Cardinality(failed') /\ used' <= MaxBuffered
    BY <1>e, <1>t, <1>k, <1>m, <2>1
  <2>3. LoopBatch' = L /\ PromiseBatch' = <<>>
    BY <1>b, <1>h, <2>1
  <2> QED BY <1>q, <1>f, <1>k, <2>1, <2>2, <2>3 DEF Free
<1>6. CASE BrokerWrites
  <2>1. /\ buffer # <<>> /\ topic' = Append(topic, Head(buffer)) /\ sent' = Append(sent, Head(buffer))
        /\ buffer' = Tail(buffer) /\ UNCHANGED <<running, failed, others, used, batch>>
    BY <1>6 DEF BrokerWrites
  <2>2. /\ Head(buffer) \in Nat /\ Len(buffer') = Len(buffer) - 1
    BY <1>t, <2>1, HeadTail
  <2>3. Len(topic') = Len(topic) + 1 /\ Len(sent') = Len(sent) + 1
    BY <1>t, <2>1, <2>2
  <2>4. used' = others' + Len(buffer') + Len(sent') + running' + Cardinality(failed') /\ used' <= MaxBuffered
    BY <1>e, <1>t, <1>k, <1>m, <2>1, <2>2, <2>3
  <2>5. LoopBatch' = L /\ PromiseBatch' = P
    BY <1>b, <2>1
  <2>6. Len(topic') + Len(buffer') = Free
    BY <1>t, <2>2, <2>3 DEF Free
  <2> QED BY <1>q, <1>f, <1>k, <2>1, <2>4, <2>5, <2>6 DEF Full
<1>7. CASE DeliveryTimesOut
  <2>1. /\ phase["loop"] = "idle" /\ phase["promise"] = "idle"
        /\ failed' = failed \cup {buffer[i] : i \in 1..Len(buffer)} /\ buffer' = <<>>
        /\ UNCHANGED <<sent, running, others, used, topic, batch>>
    BY <1>7 DEF DeliveryTimesOut, Idle, Threads
  <2>2. failed' = failed \cup ((Len(topic) + 1)..(Len(topic) + Len(buffer)))
    BY <2>1, <1>t, <1>g, RunTicks
  <2>3. \A x \in failed : x > Len(topic) + Len(buffer)
    BY <1>f DEF Free
  <2>4. IsFiniteSet(failed') /\ Cardinality(failed') = K + Len(buffer)
    BY <1>t, <1>k, <2>2, <2>3, IntervalAdded
  <2>5. used' = others' + Len(buffer') + Len(sent') + running' + Cardinality(failed') /\ used' <= MaxBuffered
    <3>1. Len(buffer') = 0
      BY <2>1
    <3> QED BY <1>e, <1>t, <1>k, <1>m, <2>1, <2>4, <3>1
  <2>6. LoopBatch' = <<>> /\ PromiseBatch' = <<>>
    BY <1>b, <1>h, <2>1
  <2>7. \A n \in failed' : n > Len(topic') + Len(buffer')
    <3>1. Len(buffer') = 0 /\ topic' = topic
      BY <2>1
    <3>2. \A x \in failed : x \in Nat
      BY <1>t
    <3> QED BY <1>t, <2>2, <2>3, <3>1, <3>2
  <2> QED BY <1>q, <2>4, <2>5, <2>6, <2>7
<1>8. CASE OthersTake \/ OthersFree
  <2>1. /\ \/ used < MaxBuffered /\ others' = others + 1 /\ used' = used + 1
           \/ phase["promise"] = "idle" /\ others' = others - 1 /\ used' = used - 1
        /\ UNCHANGED <<buffer, sent, failed, running, topic, batch>>
    BY <1>8 DEF OthersTake, OthersFree, Idle
  <2>2. used' = others' + Len(buffer') + Len(sent') + running' + Cardinality(failed') /\ used' <= MaxBuffered
    <3> DEFINE rest == Len(buffer) + Len(sent) + running + K
    <3>1. rest \in Nat /\ used = others + rest
      BY <1>e, <1>t, <1>k
    <3>2. rest = Len(buffer') + Len(sent') + running' + Cardinality(failed') /\ Cardinality(failed') \in Nat
          /\ Len(buffer') \in Nat /\ Len(sent') \in Nat /\ running' \in Nat
      BY <2>1, <1>k, <1>t
    <3> HIDE DEF rest
    <3>t. used \in Int /\ others \in Nat /\ MaxBuffered \in Nat /\ used <= MaxBuffered
      BY <1>e, <1>t, <1>m
    <3>3. used' = others' + rest /\ used' <= MaxBuffered /\ others' \in Int
      <4>1. CASE used < MaxBuffered /\ others' = others + 1 /\ used' = used + 1
        BY <3>1, <3>t, <4>1
      <4>2. CASE others' = others - 1 /\ used' = used - 1
        BY <3>1, <3>t, <4>2
      <4> QED BY <2>1, <4>1, <4>2
    <3>4. others' + rest = others' + Len(buffer') + Len(sent') + running' + Cardinality(failed')
      BY <3>2, <3>3, SMTT(30)
    <3> QED BY <3>3, <3>4
  <2>3. LoopBatch' = L /\ PromiseBatch' = P
    BY <1>b, <2>1
  <2>4. failed # {} => P = <<>> \/ used' >= MaxBuffered
    BY <1>f, <1>h, <1>t, <1>m, <2>1 DEF Full
  <2> QED BY <1>q, <1>f, <1>k, <2>1, <2>2, <2>3, <2>4 DEF Free
<1>9. CASE Restart
  <2>1. /\ failed' = {} /\ buffer' = <<>> /\ sent' = <<>> /\ running' = 0 /\ others' = 0 /\ used' = 0
    BY <1>9 DEF Restart
  <2>2. IsFiniteSet(failed') /\ Cardinality(failed') = 0
    BY <2>1, FS_EmptySet
  <2>3. Len(buffer') = 0 /\ Len(sent') = 0
    BY <2>1
  <2>4. used' = others' + Len(buffer') + Len(sent') + running' + Cardinality(failed') /\ used' <= MaxBuffered
    BY <1>m, <2>1, <2>2, <2>3
  <2> QED BY <1>q, <2>1, <2>2, <2>4
<1>10. CASE UNCHANGED vars
  <2>1. UNCHANGED <<buffer, sent, failed, others, used, topic, running, batch>>
    BY <1>10 DEF vars
  <2> QED BY <1>u, <1>b, <2>1
<1> QED
  BY <1>1, <1>2, <1>3, <1>4, <1>5, <1>6, <1>7, <1>8, <1>9, <1>10 DEF Next

(* The producer's slots are counted exactly and its buffer never overflows,    *)
(* so handOver's room check speaks of the room there is.                       *)
THEOREM SlotsAreExact == Spec => []SlotsExact
<1>1. Init => SlotInv
  <2> SUFFICES ASSUME Init PROVE SlotInv
    OBVIOUS
  <2>1. /\ failed = {} /\ buffer = <<>> /\ sent = <<>> /\ running = 0 /\ others = 0 /\ used = 0
    BY DEF Init
  <2>2. IsFiniteSet(failed) /\ Cardinality(failed) = 0
    BY <2>1, FS_EmptySet
  <2>3. Len(buffer) = 0 /\ Len(sent) = 0 /\ MaxBuffered \in Nat
    BY <2>1, BoundaryAssumption
  <2> QED BY <2>1, <2>2, <2>3 DEF SlotInv, SlotsExact
<1>2. TypeOK /\ BoundaryInv /\ SlotInv /\ [Next]_vars => SlotInv'
  BY SlotStep
<1>3. SlotInv => SlotsExact
  BY DEF SlotInv
<1> QED BY <1>1, <1>2, <1>3, BoundaryInvariant, PTL DEF Spec

================================================================================
