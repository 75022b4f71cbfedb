----------------------------- MODULE IngressProofs -----------------------------
(******************************************************************************)
(* Proofs about Ingress, for any number of Submits, any limit and any number  *)
(* of dropped clients: the invariant IngressInv and what follows from it, the *)
(* Session's properties Ingress states.                                       *)
(******************************************************************************)
EXTENDS Ingress, FiniteSetTheorems, TLAPS

Pcs == {"idle", "await", "enter", "queued", "wait", "done"}
RecStates == {"none", "buffered", "sent", "acked", "failed", "lost", "refused"}

CallTypes == [pc : Pcs, ref : 0..MaxCalls, raw : Raws, waits : 0..MaxCalls, answer : Codes]

SubmitTypes ==
  /\ call \in [Calls -> CallTypes]
  /\ entry \in [Calls -> Entries]
  /\ keys \subseteq Calls /\ released \subseteq Calls

QueueTypes ==
  /\ prev \in [Calls -> 0..MaxCalls] /\ tail \in 0..MaxCalls
  /\ passed \subseteq Calls /\ leaving \subseteq Calls
  /\ pending \in Nat /\ turns \in Seq(Calls)

RecordTypes ==
  /\ gen \in Nat
  /\ rec \in [Calls -> [st : RecStates, att : 0..2, gen : Nat]]
  /\ enq \in Seq(Calls) /\ log \in Seq(Calls)

--------------------------------------------------------------------------------
(* The Submit's record is not in the log and will never be. *)
Unwritten(c) == rec[c].st \in {"none", "failed"} \/ RefusedOnce(c)

(* A Submit's place in the code fixes what its entry and its record may be. *)
SubmitInv(c) ==
  /\ At(c, "idle") => ~HasKey(c)
  /\ At(c, "done") <=> call[c].answer # "none"
  /\ call[c].pc \in {"idle", "await"} => entry[c] = "none"
  /\ call[c].pc \in {"idle", "await", "enter", "queued"} => rec[c].st = "none"
  /\ call[c].pc \in {"enter", "queued", "wait"} => (HasKey(c) => entry[c] = "open")
  /\ At(c, "wait") => rec[c].st # "none"
  /\ At(c, "await") => HasKey(c)

(* What the entry says of the record. *)
EntryInv(c) ==
  /\ entry[c] # "none" => HasKey(c)
  /\ entry[c] = "open" /\ At(c, "done") => call[c].answer = "produce_deadline" /\ rec[c].st # "none"
  /\ entry[c] = "accepted" => rec[c].st = "acked"
  /\ entry[c] = "rejected" => rec[c].st = "none"
  /\ entry[c] = "transient" => Unwritten(c)
  /\ entry[c] \in Kept \cup {"transient"} => At(c, "done")
  /\ HasKey(c) /\ rec[c].st # "none" => entry[c] # "none"

(* What the answer says of the record, of this Submit or of the one it waited for. *)
AnswerInv(c) ==
  /\ At(c, "done") /\ rec[c].st # "none" =>
       call[c].answer = "produce_deadline" \/ rec[c].st = "acked" \/ RefusedOnce(c)
  /\ call[c].answer = "refused" => rec[c].st = "none" \/ RefusedOnce(c)
  /\ call[c].answer = "rejected" => rec[c].st = "none"
  /\ At(c, "await") => call[c].waits \in Calls /\ entry[call[c].waits] # "none"
  /\ call[c].answer = "accepted" => call[c].waits \in Calls /\ rec[call[c].waits].st = "acked"
  /\ call[c].answer = "rejected" /\ call[c].waits # 0 =>
       call[c].waits \in Calls /\ entry[call[c].waits] = "rejected"

(* A ref has one held entry, and an entry leaves the table by its transient   *)
(* outcome or is counted as released.                                         *)
KeyInv ==
  /\ Cardinality(keys) <= MaxPending
  /\ \A c \in keys : entry[c] \in Kept \cup {"open"}
  /\ \A c, d \in keys : call[c].ref = call[d].ref => c = d
  /\ \A c \in Calls : entry[c] \in Kept \cup {"open"} => c \in keys \/ c \in released

--------------------------------------------------------------------------------
(* The turn queue is one line, and it is passed from the front. *)
HasPlace(c) == \E n \in 1..Len(turns) : turns[n] = c
InQueue == {c \in Calls : call[c].pc \in {"queued", "wait"}}

LineInv ==
  /\ \A m, n \in 1..Len(turns) : turns[m] = turns[n] => m = n
  /\ tail = IF Len(turns) = 0 THEN 0 ELSE turns[Len(turns)]
  /\ \A n \in 1..Len(turns) : prev[turns[n]] = IF n = 1 THEN 0 ELSE turns[n - 1]
  /\ \A n \in 1..Len(turns) : turns[n] \in passed => \A m \in 1..(n - 1) : turns[m] \in passed
  /\ \A n \in 1..Len(turns) : call[turns[n]].pc \in {"queued", "wait", "done"}
  /\ \A c \in Calls : call[c].pc \in {"queued", "wait"} => HasPlace(c)
  /\ \A c \in Calls : rec[c].st # "none" => HasPlace(c) /\ TurnPassed(c)
  /\ \A c \in passed \cup leaving : HasPlace(c) /\ At(c, "done")

PendingInv == pending = Cardinality(InQueue) /\ pending <= MaxPending

--------------------------------------------------------------------------------
(* The records were enqueued in the order of the line, in clients that only   *)
(* grow younger.                                                              *)
EnqueuedInv ==
  /\ \A i, j \in 1..Len(enq) : enq[i] = enq[j] => i = j
  /\ \A i \in 1..Len(enq) : rec[enq[i]].st # "none"
  /\ \A c \in Calls : rec[c].st # "none" => \E i \in 1..Len(enq) : enq[i] = c
  /\ \A i, j \in 1..Len(enq) : i < j => rec[enq[i]].gen <= rec[enq[j]].gen
  /\ \A i \in 1..Len(enq) : rec[enq[i]].gen <= gen
  /\ \A i, j \in 1..Len(enq), m, n \in 1..Len(turns) :
       i < j /\ turns[m] = enq[i] /\ turns[n] = enq[j] => m < n

(* What a record's state says of the requests that left the process. *)
RecordInv(c) ==
  /\ rec[c].st \in {"none", "buffered", "failed"} <=> rec[c].att = 0
  /\ InLog(c) => rec[c].st \in {"sent", "acked", "lost", "refused"}
  /\ rec[c].st = "acked" => InLog(c)
  /\ RefusedOnce(c) => ~InLog(c)
  /\ rec[c].st \in {"sent", "acked", "lost", "refused"} => \A e \in Ahead(c) : rec[e].st # "buffered"

(* The log holds a record once, and one client's records in their order. *)
LogInv ==
  /\ \A i, j \in 1..Len(log) : log[i] = log[j] => i = j
  /\ \A i, j \in 1..Len(log) : i < j => log[j] \notin Ahead(log[i])
  /\ \A c, e \in Calls : InLog(c) /\ e \in Ahead(c) /\ ~InLog(e) => rec[e].st \in {"failed", "refused"}

(* A record that came after one of a later place was left by its Submit. *)
LateInv ==
  \A i, j \in 1..Len(log), m, n \in 1..Len(turns) :
    i < j /\ turns[m] = log[i] /\ turns[n] = log[j] /\ m > n =>
      call[log[j]].answer = "produce_deadline"

DrainInv == drained => restarting /\ Admitted = {}

IngressInv ==
  /\ SubmitTypes /\ QueueTypes /\ RecordTypes
  /\ \A c \in Calls : SubmitInv(c) /\ EntryInv(c) /\ AnswerInv(c) /\ RecordInv(c)
  /\ KeyInv /\ LineInv /\ PendingInv /\ EnqueuedInv /\ LogInv /\ LateInv /\ DrainInv

--------------------------------------------------------------------------------
(* Finite sets of Submits, and the ref of a new Intent. *)

LEMMA CallsFinite == IsFiniteSet(Calls) /\ Cardinality(Calls) = MaxCalls
<1>1. MaxCalls \in Nat
  BY IngressAssumption
<1>2. 1 \in Int /\ MaxCalls \in Int
  BY <1>1
<1>3. IsFiniteSet(1..MaxCalls) /\ Cardinality(1..MaxCalls) = IF 1 > MaxCalls THEN 0 ELSE MaxCalls - 1 + 1
  BY <1>2, FS_Interval, Zenon
<1> QED BY <1>1, <1>3 DEF Calls

LEMMA CallSetsFinite ==
  ASSUME NEW S \in SUBSET Calls
  PROVE  IsFiniteSet(S) /\ Cardinality(S) \in Nat
<1>1. IsFiniteSet(S)
  BY CallsFinite, FS_Subset, Zenon
<1> QED BY <1>1, FS_CardinalityType, Zenon

(* While a Submit is idle there is a ref nobody used. *)
LEMMA IntentTypes ==
  ASSUME SubmitTypes, NEW c \in Calls, call[c].ref = NoRef, NEW i \in Intents
  PROVE  i[1] \in 1..MaxCalls /\ i[2] \in Raws
<1> DEFINE Rest == Calls \ {c}
<1>1. \A d \in Calls : call[d].ref \in 0..MaxCalls
  BY DEF SubmitTypes, CallTypes
<1>2. Used \subseteq 1..MaxCalls
  BY <1>1, IngressAssumption DEF Used, NoRef
<1>3. CASE i \in Used \X Raws
  BY <1>2, <1>3
<1>4. CASE i = <<Cardinality(Used) + 1, 1>>
  <2>1. \A r \in Used : \E d \in Rest : call[d].ref = r
    BY DEF Used
  <2> DEFINE f == [r \in Used |-> CHOOSE d \in Rest : call[d].ref = r]
  <2>2. \A r \in Used : f[r] \in Rest /\ call[f[r]].ref = r
    BY <2>1
  <2>3. f \in [Used -> Rest]
    BY <2>2
  <2>4. f \in Injection(Used, Rest)
    <3> HIDE DEF f, Rest
    <3> QED BY <2>2, <2>3 DEF Injection, IsInjective
  <2>5. IsFiniteSet(Rest) /\ Cardinality(Rest) = MaxCalls - 1
    BY CallsFinite, FS_RemoveElement
  <2>6. IsFiniteSet(Used) /\ Cardinality(Used) <= Cardinality(Rest)
    <3> HIDE DEF f, Rest
    <3> QED BY <2>4, <2>5, FS_Injection, Zenon
  <2>7. Cardinality(Used) \in Nat
    BY <2>6, FS_CardinalityType, Zenon
  <2> QED BY <1>4, <2>5, <2>6, <2>7, IngressAssumption DEF Raws
<1> QED BY <1>3, <1>4 DEF Intents

--------------------------------------------------------------------------------
(* What a step does to the Submits, one at a time. *)
SubmitsInv == \A c \in Calls : SubmitInv(c) /\ EntryInv(c) /\ AnswerInv(c)

(* A step of c that keeps the records: only what c is itself is to be shown. *)
LEMMA OneSubmit ==
  ASSUME SubmitTypes, RecordTypes, SubmitsInv,
         NEW c \in Calls, NEW r \in CallTypes, NEW x \in Entries,
         call' = [call EXCEPT ![c] = r], entry' = [entry EXCEPT ![c] = x], rec' = rec,
         entry[c] # "none" => x # "none", entry[c] \in Kept => x = entry[c],
         keys' \subseteq Calls, released' \subseteq Calls,
         SubmitInv(c)', EntryInv(c)', AnswerInv(c)'
  PROVE  SubmitTypes' /\ SubmitsInv'
<1>1. SubmitTypes'
  BY DEF SubmitTypes
<1>2. ASSUME NEW d \in Calls, d # c
      PROVE  SubmitInv(d)' /\ EntryInv(d)' /\ AnswerInv(d)'
  <2>1. call'[d] = call[d] /\ entry'[d] = entry[d]
    BY <1>2 DEF SubmitTypes
  <2>2. SubmitInv(d)' /\ EntryInv(d)'
    <3>1. SubmitInv(d) /\ EntryInv(d) /\ rec'[d] = rec[d]
      BY DEF SubmitsInv
    <3>2. SubmitInv(d)'
      BY <2>1, <3>1 DEF SubmitInv, At, HasKey
    <3>3. EntryInv(d)'
      BY <2>1, <3>1 DEF EntryInv, At, HasKey, Unwritten, RefusedOnce
    <3> QED BY <3>2, <3>3
  <2>3. \A e \in Calls : /\ entry[e] # "none" => entry'[e] # "none"
                         /\ entry[e] = "rejected" => entry'[e] = "rejected"
    BY DEF SubmitTypes, Kept
  <2>4. AnswerInv(d)'
    BY <2>1, <2>3 DEF SubmitsInv, AnswerInv, At, RefusedOnce
  <2> QED BY <2>2, <2>4
<1> QED BY <1>1, <1>2 DEF SubmitsInv

LEMMA AnswersEffect ==
  ASSUME SubmitTypes, NEW c \in Calls, NEW code \in Codes, NEW w \in 0..MaxCalls, Answers(c, code, w)
  PROVE  \E r \in CallTypes :
           /\ call' = [call EXCEPT ![c] = r]
           /\ r.pc = "done" /\ r.answer = code /\ r.waits = w /\ r.ref = call[c].ref
<1> DEFINE r == [call[c] EXCEPT !.pc = "done", !.answer = code, !.waits = w]
<1>1. r \in CallTypes /\ call' = [call EXCEPT ![c] = r]
  BY DEF SubmitTypes, CallTypes, Pcs, Answers
<1>2. r.pc = "done" /\ r.answer = code /\ r.waits = w /\ r.ref = call[c].ref
  BY DEF SubmitTypes, CallTypes
<1> HIDE DEF r
<1> QED BY <1>1, <1>2

LEMMA GoesEffect ==
  ASSUME SubmitTypes, NEW c \in Calls, NEW pc \in Pcs, Goes(c, pc)
  PROVE  \E r \in CallTypes :
           /\ call' = [call EXCEPT ![c] = r]
           /\ r.pc = pc /\ r.answer = call[c].answer /\ r.waits = call[c].waits /\ r.ref = call[c].ref
<1> DEFINE r == [call[c] EXCEPT !.pc = pc]
<1>1. r \in CallTypes /\ call' = [call EXCEPT ![c] = r]
  BY DEF SubmitTypes, CallTypes, Goes
<1>2. r.pc = pc /\ r.answer = call[c].answer /\ r.waits = call[c].waits /\ r.ref = call[c].ref
  BY DEF SubmitTypes, CallTypes
<1> HIDE DEF r
<1> QED BY <1>1, <1>2

LEMMA GoesWithEffect ==
  ASSUME SubmitTypes, NEW c \in Calls, NEW i, i[1] \in 0..MaxCalls, i[2] \in Raws,
         NEW pc \in Pcs, NEW waits \in 0..MaxCalls, GoesWith(c, i, pc, waits)
  PROVE  \E r \in CallTypes :
           /\ call' = [call EXCEPT ![c] = r]
           /\ r.pc = pc /\ r.answer = call[c].answer /\ r.waits = waits /\ r.ref = i[1]
<1> DEFINE r == [call[c] EXCEPT !.pc = pc, !.ref = i[1], !.raw = i[2], !.waits = waits]
<1>1. r \in CallTypes /\ call' = [call EXCEPT ![c] = r]
  BY DEF SubmitTypes, CallTypes, GoesWith
<1>2. r.pc = pc /\ r.answer = call[c].answer /\ r.waits = waits /\ r.ref = i[1]
  BY DEF SubmitTypes, CallTypes
<1> HIDE DEF r
<1> QED BY <1>1, <1>2

(* The Submit c returns code, with the outcome of w, and its entry becomes x:  *)
(* both are true of the records there are.                                     *)
Truthful(c, code, w, x) ==
  /\ code # "none" /\ x # "open"
  /\ entry[c] \in {"none", "open"} /\ (x = "none" <=> entry[c] = "none")
  /\ x = "accepted" => rec[c].st = "acked"
  /\ x = "rejected" => rec[c].st = "none"
  /\ x = "transient" => Unwritten(c)
  /\ code = "refused" => rec[c].st = "none" \/ RefusedOnce(c)
  /\ code = "accepted" => w \in Calls /\ rec[w].st = "acked" /\ rec[c].st \in {"none", "acked"}
  /\ code = "rejected" => rec[c].st = "none" /\ (w = 0 \/ (w \in Calls /\ entry[w] = "rejected"))
  /\ code = "outcome_unknown" => rec[c].st = "none"

LEMMA AnswersSubmits ==
  ASSUME SubmitTypes, RecordTypes, SubmitsInv, NEW c \in Calls, NEW code \in Codes, NEW w \in 0..MaxCalls,
         Answers(c, code, w), NEW x \in Entries, entry' = [entry EXCEPT ![c] = x], rec' = rec,
         keys' \subseteq Calls, released' \subseteq Calls, Truthful(c, code, w, x)
  PROVE  SubmitTypes' /\ SubmitsInv'
<1>1. PICK r \in CallTypes :
           /\ call' = [call EXCEPT ![c] = r]
           /\ r.pc = "done" /\ r.answer = code /\ r.waits = w /\ r.ref = call[c].ref
  BY AnswersEffect
<1>2. call'[c] = r /\ entry'[c] = x
  BY <1>1 DEF SubmitTypes
<1>3. SubmitInv(c)'
  BY <1>1, <1>2 DEF SubmitInv, At, HasKey, Truthful
<1>4. EntryInv(c)'
  <2>1. EntryInv(c)
    BY DEF SubmitsInv
  <2> QED BY <1>1, <1>2, <2>1 DEF Truthful, EntryInv, At, HasKey, Kept, Entries, Unwritten, RefusedOnce
<1>5. AnswerInv(c)'
  <2>1. code = "rejected" /\ w # 0 => entry'[w] = "rejected"
    BY DEF SubmitTypes, Truthful
  <2> QED BY <1>1, <1>2, <2>1 DEF Truthful, AnswerInv, At, RefusedOnce, Codes
<1>6. entry[c] # "none" => x # "none" /\ (entry[c] \in Kept => x = entry[c])
  BY DEF Kept, Truthful
<1> QED BY <1>1, <1>3, <1>4, <1>5, <1>6, OneSubmit DEF Kept

(* lookup: the Submit is refused, waits for the entry of its ref, or makes one. *)
LEMMA LookupSubmits ==
  ASSUME SubmitTypes, RecordTypes, SubmitsInv, KeyInv, NEW c \in Calls, call[c].pc \in {"idle", "await"},
         NEW i, i[1] \in 1..MaxCalls, i[2] \in Raws, Lookup(c, i), rec' = rec
  PROVE  SubmitTypes' /\ SubmitsInv'
<1>1. entry[c] = "none" /\ rec[c].st = "none" /\ call[c].answer = "none"
  BY DEF SubmitsInv, SubmitInv, At
<1>2. c \notin keys
  BY <1>1 DEF KeyInv, Kept
<1>3. PICK held \in SUBSET keys : LookupHit(c, i, held) \/ LookupMiss(c, i, held)
  BY DEF Lookup
<1>4. keys' \subseteq Calls /\ released' \subseteq Calls
  BY <1>3 DEF Lookup, LookupHit, LookupMiss, MakesEntry, SubmitTypes
<1>5. CASE Answers(c, "refused", 0) /\ UNCHANGED entry
  <2>1. entry' = [entry EXCEPT ![c] = "none"]
    BY <1>5, <1>1 DEF SubmitTypes
  <2>2. 0 \in 0..MaxCalls /\ "refused" \in Codes /\ "none" \in Entries
    BY IngressAssumption DEF Codes, Entries
  <2>3. Truthful(c, "refused", 0, "none")
    BY <1>1 DEF Truthful
  <2> QED BY <1>1, <1>4, <1>5, <2>1, <2>2, <2>3, AnswersSubmits
<1>6. ASSUME NEW e \in held, GoesWith(c, i, "await", e), UNCHANGED entry
      PROVE  SubmitTypes' /\ SubmitsInv'
  <2>1. e \in Calls /\ entry[e] # "none" /\ e # c
    BY <1>2 DEF SubmitTypes, KeyInv, Kept
  <2>2. e \in 0..MaxCalls /\ i[1] \in 0..MaxCalls
    BY <2>1, IngressAssumption DEF Calls
  <2>3. PICK r \in CallTypes :
           /\ call' = [call EXCEPT ![c] = r]
           /\ r.pc = "await" /\ r.answer = call[c].answer /\ r.waits = e /\ r.ref = i[1]
    BY <1>6, <2>2, GoesWithEffect DEF Pcs
  <2>4. call'[c] = r /\ entry' = [entry EXCEPT ![c] = "none"] /\ entry'[c] = "none" /\ entry'[e] # "none"
    BY <1>1, <1>6, <2>1, <2>3 DEF SubmitTypes
  <2>5. SubmitInv(c)' /\ EntryInv(c)' /\ AnswerInv(c)'
    <3>1. SubmitInv(c)'
      BY <1>1, <2>1, <2>3, <2>4 DEF SubmitInv, At, HasKey, NoRef
    <3>2. EntryInv(c)'
      BY <1>1, <2>1, <2>3, <2>4 DEF EntryInv, At, HasKey, Kept, NoRef
    <3>3. AnswerInv(c)'
      BY <1>1, <2>1, <2>3, <2>4 DEF AnswerInv, At
    <3> QED BY <3>1, <3>2, <3>3
  <2>6. "none" \in Entries
    BY DEF Entries
  <2> QED BY <1>1, <1>4, <2>3, <2>4, <2>5, <2>6, OneSubmit DEF Kept
<1>7. ASSUME GoesWith(c, i, "enter", 0), entry' = [entry EXCEPT ![c] = "open"]
      PROVE  SubmitTypes' /\ SubmitsInv'
  <2>2. 0 \in 0..MaxCalls /\ i[1] \in 0..MaxCalls
    BY IngressAssumption
  <2>3. PICK r \in CallTypes :
           /\ call' = [call EXCEPT ![c] = r]
           /\ r.pc = "enter" /\ r.answer = call[c].answer /\ r.waits = 0 /\ r.ref = i[1]
    BY <1>7, <2>2, GoesWithEffect DEF Pcs
  <2>4. call'[c] = r /\ entry'[c] = "open"
    BY <1>7, <2>3 DEF SubmitTypes
  <2>5. SubmitInv(c)' /\ EntryInv(c)' /\ AnswerInv(c)'
    <3>1. SubmitInv(c)'
      BY <1>1, <2>3, <2>4 DEF SubmitInv, At, HasKey, NoRef
    <3>2. EntryInv(c)'
      BY <1>1, <2>3, <2>4 DEF EntryInv, At, HasKey, Kept, NoRef
    <3>3. AnswerInv(c)'
      BY <1>1, <2>3, <2>4 DEF AnswerInv, At
    <3> QED BY <3>1, <3>2, <3>3
  <2>6. "open" \in Entries
    BY DEF Entries
  <2> QED BY <1>1, <1>4, <1>7, <2>3, <2>4, <2>5, <2>6, OneSubmit DEF Kept
<1> QED BY <1>3, <1>5, <1>6, <1>7 DEF LookupHit, LookupMiss, MakesEntry

(* A return that resolves the entry. *)
LEMMA ResolvesSubmits ==
  ASSUME SubmitTypes, RecordTypes, SubmitsInv, NEW c \in Calls, NEW code \in Codes, NEW w \in 0..MaxCalls,
         Answers(c, code, w), NEW outcome \in Entries, Resolve(c, outcome), rec' = rec,
         call[c].pc \in {"enter", "queued", "wait"},
         Truthful(c, code, w, IF HasKey(c) THEN outcome ELSE "none")
  PROVE  SubmitTypes' /\ SubmitsInv'
<1> DEFINE x == IF HasKey(c) THEN outcome ELSE "none"
<1>1. ~HasKey(c) => entry[c] = "none"
  BY DEF SubmitsInv, EntryInv
<1>2. entry' = [entry EXCEPT ![c] = x] /\ x \in Entries
  BY <1>1 DEF Resolve, SubmitTypes, Entries
<1>3. keys' \subseteq Calls /\ released' \subseteq Calls
  BY DEF Resolve, SubmitTypes
<1>4. Truthful(c, code, w, x)
  OBVIOUS
<1> HIDE DEF x
<1> QED BY <1>2, <1>3, <1>4, AnswersSubmits

LEMMA CodeTypes ==
  /\ {"refused", "rejected", "accepted", "outcome_unknown", "produce_deadline"} \subseteq Codes
  /\ {"none", "open", "accepted", "rejected", "unknown", "transient"} = Entries
  /\ {"idle", "await", "enter", "queued", "wait", "done"} = Pcs
  /\ 0 \in 0..MaxCalls /\ Calls \subseteq 0..MaxCalls
BY IngressAssumption DEF Codes, Entries, Pcs, Calls

(* A Submit that returns with neither a record nor an entry. *)
LEMMA ReturnsSubmits ==
  ASSUME SubmitTypes, RecordTypes, SubmitsInv, NEW c \in Calls, NEW code \in Codes, NEW w \in 0..MaxCalls,
         Answers(c, code, w), UNCHANGED <<tableVars, rec>>, call[c].pc \in {"idle", "await"},
         Truthful(c, code, w, "none")
  PROVE  SubmitTypes' /\ SubmitsInv'
<1>1. entry' = [entry EXCEPT ![c] = "none"]
  BY DEF SubmitsInv, SubmitInv, SubmitTypes, tableVars
<1>2. keys' \subseteq Calls /\ released' \subseteq Calls /\ rec' = rec
  BY DEF SubmitTypes, tableVars
<1> QED BY <1>1, <1>2, CodeTypes, AnswersSubmits

(* A Submit that goes on with its entry as it is. *)
LEMMA GoesSubmits ==
  ASSUME SubmitTypes, RecordTypes, SubmitsInv, NEW c \in Calls, NEW pc \in Pcs, Goes(c, pc),
         UNCHANGED tableVars, rec' = rec,
         \/ pc = "enter" /\ At(c, "idle")
         \/ pc = "queued" /\ At(c, "enter")
  PROVE  SubmitTypes' /\ SubmitsInv'
<1>1. PICK r \in CallTypes :
           /\ call' = [call EXCEPT ![c] = r]
           /\ r.pc = pc /\ r.answer = call[c].answer /\ r.waits = call[c].waits /\ r.ref = call[c].ref
  BY GoesEffect
<1>2. call'[c] = r /\ entry' = [entry EXCEPT ![c] = entry[c]] /\ entry'[c] = entry[c] /\ entry[c] \in Entries
  BY <1>1 DEF SubmitTypes, tableVars
<1>3. SubmitInv(c) /\ EntryInv(c) /\ AnswerInv(c)
  BY DEF SubmitsInv
<1>4. SubmitInv(c)'
  BY <1>1, <1>2, <1>3 DEF SubmitInv, At, HasKey
<1>5. EntryInv(c)'
  BY <1>1, <1>2, <1>3 DEF SubmitInv, EntryInv, At, HasKey, Unwritten, RefusedOnce, Kept
<1>6. AnswerInv(c)'
  BY <1>1, <1>2, <1>3 DEF SubmitInv, AnswerInv, At
<1>7. keys' \subseteq Calls /\ released' \subseteq Calls
  BY DEF SubmitTypes, tableVars
<1> QED BY <1>1, <1>2, <1>4, <1>5, <1>6, <1>7, OneSubmit

LEMMA SubmitSubmits ==
  ASSUME SubmitTypes, RecordTypes, SubmitsInv, KeyInv, NEW c \in Calls, Submit(c)
  PROVE  SubmitTypes' /\ SubmitsInv'
<1>1. At(c, "idle") /\ rec' = rec
  BY DEF Submit, Arrives, produceVars
<1>2. entry[c] = "none" /\ rec[c].st = "none" /\ ~HasKey(c)
  BY <1>1 DEF SubmitsInv, SubmitInv, At
<1>3. CASE Answers(c, "refused", 0) /\ UNCHANGED tableVars
  <2>1. Truthful(c, "refused", 0, "none")
    BY <1>2 DEF Truthful
  <2> QED BY <1>1, <1>3, <2>1, CodeTypes, ReturnsSubmits DEF At
<1>4. CASE Goes(c, "enter") /\ UNCHANGED tableVars
  BY <1>1, <1>4, CodeTypes, GoesSubmits
<1>5. CASE \E i \in Intents : Lookup(c, i)
  <2>1. PICK i \in Intents : Lookup(c, i)
    BY <1>5
  <2>2. i[1] \in 1..MaxCalls /\ i[2] \in Raws
    BY <1>2, IntentTypes DEF HasKey
  <2> QED BY <1>1, <2>1, <2>2, LookupSubmits DEF At
<1> QED BY <1>3, <1>4, <1>5 DEF Submit

LEMMA AwaitSubmits ==
  ASSUME SubmitTypes, RecordTypes, SubmitsInv, KeyInv, NEW c \in Calls, Await(c) \/ AwaitGivesUp(c)
  PROVE  SubmitTypes' /\ SubmitsInv'
<1> DEFINE e == call[c].waits
<1>1. At(c, "await") /\ rec' = rec
  BY DEF Await, AwaitGivesUp, produceVars
<1>2. entry[c] = "none" /\ rec[c].st = "none" /\ HasKey(c) /\ e \in Calls
  BY <1>1 DEF SubmitsInv, SubmitInv, AnswerInv, At
<1>3. CASE AwaitGivesUp(c)
  <2>1. Truthful(c, "refused", 0, "none")
    BY <1>2 DEF Truthful
  <2> QED BY <1>1, <1>3, <2>1, CodeTypes, ReturnsSubmits DEF At, AwaitGivesUp
<1>4. CASE entry[e] = "accepted" /\ Answers(c, "accepted", e) /\ UNCHANGED tableVars
  <2>1. Truthful(c, "accepted", e, "none")
    BY <1>2, <1>4 DEF Truthful, SubmitsInv, EntryInv
  <2> QED BY <1>1, <1>2, <1>4, <2>1, CodeTypes, ReturnsSubmits DEF At
<1>5. CASE entry[e] = "rejected" /\ Answers(c, "rejected", e) /\ UNCHANGED tableVars
  <2>1. Truthful(c, "rejected", e, "none")
    BY <1>2, <1>5 DEF Truthful
  <2> QED BY <1>1, <1>2, <1>5, <2>1, CodeTypes, ReturnsSubmits DEF At
<1>6. CASE Answers(c, "outcome_unknown", e) /\ UNCHANGED tableVars
  <2>1. Truthful(c, "outcome_unknown", e, "none")
    BY <1>2, <1>6 DEF Truthful
  <2> QED BY <1>1, <1>2, <1>6, <2>1, CodeTypes, ReturnsSubmits DEF At
<1>7. CASE Lookup(c, <<call[c].ref, call[c].raw>>)
  <2> DEFINE i == <<call[c].ref, call[c].raw>>
  <2>1. call[c].ref \in 0..MaxCalls /\ call[c].ref # 0 /\ call[c].raw \in Raws
    BY <1>2 DEF SubmitTypes, CallTypes, HasKey, NoRef
  <2>2. i[1] \in 1..MaxCalls /\ i[2] \in Raws /\ Lookup(c, i)
    BY <2>1, <1>7, IngressAssumption
  <2> HIDE DEF i
  <2> QED BY <1>1, <2>2, LookupSubmits DEF At
<1> QED BY <1>3, <1>4, <1>5, <1>6, <1>7 DEF Await

LEMMA EnterSubmits ==
  ASSUME SubmitTypes, RecordTypes, SubmitsInv, NEW c \in Calls, Enter(c)
  PROVE  SubmitTypes' /\ SubmitsInv'
<1>1. At(c, "enter") /\ rec' = rec
  BY DEF Enter, produceVars
<1>2. SubmitInv(c) /\ EntryInv(c)
  BY DEF SubmitsInv
<1>3. CASE Resolve(c, "transient") /\ Answers(c, "refused", 0)
  <2>1. Truthful(c, "refused", 0, IF HasKey(c) THEN "transient" ELSE "none")
    BY <1>1, <1>2 DEF Truthful, SubmitInv, EntryInv, Unwritten, At, HasKey
  <2> QED BY <1>1, <1>3, <2>1, CodeTypes, ResolvesSubmits DEF At
<1>4. CASE Goes(c, "queued") /\ UNCHANGED tableVars
  BY <1>1, <1>4, CodeTypes, GoesSubmits
<1> QED BY <1>3, <1>4 DEF Enter, tableVars

LEMMA QueuedSubmits ==
  ASSUME SubmitTypes, RecordTypes, SubmitsInv, NEW c \in Calls, QueuedGivesUp(c) \/ Reject(c) \/ RefuseRun(c)
  PROVE  SubmitTypes' /\ SubmitsInv'
<1>1. At(c, "queued") /\ rec' = rec
  BY DEF QueuedGivesUp, Reject, RefuseRun, Runs, Refused, produceVars
<1>2. SubmitInv(c) /\ EntryInv(c)
  BY DEF SubmitsInv
<1>3. rec[c].st = "none" /\ entry[c] = IF HasKey(c) THEN "open" ELSE "none"
  BY <1>1, <1>2 DEF SubmitInv, EntryInv, At
<1>4. CASE Resolve(c, "transient") /\ Answers(c, "refused", 0)
  <2>1. Truthful(c, "refused", 0, IF HasKey(c) THEN "transient" ELSE "none")
    BY <1>3 DEF Truthful, Unwritten
  <2> QED BY <1>1, <1>4, <2>1, CodeTypes, ResolvesSubmits DEF At
<1>5. CASE Resolve(c, "rejected") /\ Answers(c, "rejected", 0)
  <2>1. Truthful(c, "rejected", 0, IF HasKey(c) THEN "rejected" ELSE "none")
    BY <1>3 DEF Truthful
  <2> QED BY <1>1, <1>5, <2>1, CodeTypes, ResolvesSubmits DEF At
<1> QED BY <1>4, <1>5 DEF QueuedGivesUp, Reject, RefuseRun, Refused

LEMMA ProducedSubmits ==
  ASSUME SubmitTypes, RecordTypes, SubmitsInv, NEW c \in Calls, Produced(c)
  PROVE  SubmitTypes' /\ SubmitsInv'
<1>1. At(c, "wait") /\ rec' = rec
  BY DEF Produced, produceVars
<1>2. SubmitInv(c) /\ EntryInv(c)
  BY DEF SubmitsInv
<1>3. rec[c].st # "none" /\ entry[c] = IF HasKey(c) THEN "open" ELSE "none"
  BY <1>1, <1>2 DEF SubmitInv, EntryInv, At
<1>4. CASE rec[c].st = "acked" /\ Resolve(c, "accepted") /\ Answers(c, "accepted", c)
  <2>1. Truthful(c, "accepted", c, IF HasKey(c) THEN "accepted" ELSE "none")
    BY <1>3, <1>4 DEF Truthful
  <2> QED BY <1>1, <1>4, <2>1, CodeTypes, ResolvesSubmits DEF At
<1>5. CASE RefusedOnce(c) /\ Resolve(c, "transient") /\ Answers(c, "refused", 0)
  <2>1. Truthful(c, "refused", 0, IF HasKey(c) THEN "transient" ELSE "none")
    BY <1>3, <1>5 DEF Truthful, Unwritten
  <2> QED BY <1>1, <1>5, <2>1, CodeTypes, ResolvesSubmits DEF At
<1> QED BY <1>4, <1>5 DEF Produced

LEMMA DeadlineSubmits ==
  ASSUME SubmitTypes, RecordTypes, SubmitsInv, NEW c \in Calls, ProduceDeadline(c)
  PROVE  SubmitTypes' /\ SubmitsInv'
<1>1. At(c, "wait") /\ rec' = rec /\ UNCHANGED tableVars /\ Answers(c, "produce_deadline", 0)
  BY DEF ProduceDeadline, produceVars, tableVars
<1>2. SubmitInv(c) /\ EntryInv(c)
  BY DEF SubmitsInv
<1>3. rec[c].st # "none" /\ entry[c] = IF HasKey(c) THEN "open" ELSE "none"
  BY <1>1, <1>2 DEF SubmitInv, EntryInv, At
<1>4. PICK r \in CallTypes :
           /\ call' = [call EXCEPT ![c] = r]
           /\ r.pc = "done" /\ r.answer = "produce_deadline" /\ r.waits = 0 /\ r.ref = call[c].ref
  BY <1>1, CodeTypes, AnswersEffect
<1>5. call'[c] = r /\ entry' = [entry EXCEPT ![c] = entry[c]] /\ entry'[c] = entry[c] /\ entry[c] \in Entries
  BY <1>1, <1>4 DEF SubmitTypes, tableVars
<1>6. SubmitInv(c)'
  BY <1>1, <1>4, <1>5 DEF SubmitInv, At, HasKey
<1>7. EntryInv(c)'
  BY <1>1, <1>3, <1>4, <1>5 DEF EntryInv, At, HasKey, Kept
<1>8. AnswerInv(c)'
  BY <1>1, <1>4, <1>5 DEF AnswerInv, At
<1>9. keys' \subseteq Calls /\ released' \subseteq Calls
  BY <1>1 DEF SubmitTypes, tableVars
<1> QED BY <1>1, <1>4, <1>5, <1>6, <1>7, <1>8, <1>9, OneSubmit

(* The fate of a record whose promise fired is what settle takes it for. *)
LEMMA SettleSubmits ==
  ASSUME SubmitTypes, RecordTypes, SubmitsInv, \A c \in Calls : RecordInv(c), NEW c \in Calls, Settle(c)
  PROVE  SubmitTypes' /\ SubmitsInv'
<1>1. /\ entry[c] = "open" /\ call[c].answer = "produce_deadline" /\ Fired(c)
      /\ rec' = rec /\ call' = call
  BY DEF Settle, produceVars
<1>2. SubmitInv(c) /\ EntryInv(c) /\ AnswerInv(c) /\ RecordInv(c) /\ HasKey(c) /\ call[c] \in CallTypes
  BY <1>1 DEF SubmitsInv, EntryInv, SubmitTypes
<1>3. At(c, "done")
  BY <1>1, <1>2 DEF SubmitInv
<1>4. PICK fate \in Fates(c) : Resolve(c, fate)
  BY DEF Settle
<1>5. /\ fate \in {"accepted", "transient", "unknown"}
      /\ fate = "accepted" => rec[c].st = "acked"
      /\ fate = "transient" => Unwritten(c)
  BY <1>1, <1>2 DEF Fates, Fired, RecordInv, Unwritten
<1>6. call' = [call EXCEPT ![c] = call[c]] /\ entry' = [entry EXCEPT ![c] = fate] /\ entry'[c] = fate
  BY <1>1, <1>2, <1>4 DEF Resolve, SubmitTypes
<1>7. SubmitInv(c)'
  BY <1>1, <1>2, <1>3, <1>6 DEF SubmitInv, At, HasKey
<1>8. EntryInv(c)'
  BY <1>1, <1>2, <1>3, <1>5, <1>6 DEF EntryInv, At, HasKey, Kept, Unwritten, RefusedOnce
<1>9. AnswerInv(c)'
  BY <1>1, <1>3, <1>6 DEF AnswerInv, At
<1>10. keys' \subseteq Calls /\ released' \subseteq Calls /\ fate \in Entries
  BY <1>4, <1>5 DEF SubmitTypes, Resolve, Entries
<1> QED BY <1>1, <1>2, <1>5, <1>6, <1>7, <1>8, <1>9, <1>10, OneSubmit DEF Kept

(* A record changes with its Submits as they are: it was live and stays one. *)
LEMMA RecordSubmits ==
  ASSUME SubmitTypes, RecordTypes, SubmitsInv, UNCHANGED callVars,
         NEW c \in Calls, NEW q, q.st # "none", rec[c].st \in {"buffered", "sent"},
         rec' = [rec EXCEPT ![c] = q]
  PROVE  SubmitTypes' /\ SubmitsInv'
<1>1. call' = call /\ entry' = entry /\ keys' = keys /\ released' = released
  BY DEF callVars, tableVars
<1>2. ASSUME NEW d \in Calls
      PROVE  SubmitInv(d)' /\ EntryInv(d)' /\ AnswerInv(d)'
  <2>1. SubmitInv(d) /\ EntryInv(d) /\ AnswerInv(d)
    BY DEF SubmitsInv
  <2>2. /\ d = c => rec'[d].st # "none" /\ rec[d].st \in {"buffered", "sent"}
        /\ d # c => rec'[d] = rec[d]
        /\ \A e \in Calls : rec[e].st = "acked" => rec'[e].st = "acked"
    BY DEF RecordTypes
  <2>3. SubmitInv(d)'
    BY <1>1, <2>1, <2>2 DEF SubmitInv, At, HasKey
  <2>4. EntryInv(d)'
    BY <1>1, <2>1, <2>2 DEF EntryInv, At, HasKey, Unwritten, RefusedOnce
  <2>5. AnswerInv(d)'
    BY <1>1, <2>1, <2>2 DEF AnswerInv, At, RefusedOnce
  <2> QED BY <2>3, <2>4, <2>5
<1>3. SubmitTypes'
  BY <1>1 DEF SubmitTypes
<1> QED BY <1>2, <1>3 DEF SubmitsInv

LEMMA ProduceSubmits ==
  ASSUME SubmitTypes, RecordTypes, SubmitsInv, NEW c \in Calls, Produce(c)
  PROVE  SubmitTypes' /\ SubmitsInv'
<1> DEFINE q == [st |-> "buffered", att |-> 0, gen |-> gen]
<1>1. At(c, "queued") /\ Goes(c, "wait") /\ rec' = [rec EXCEPT ![c] = q] /\ UNCHANGED tableVars
  BY DEF Produce, Runs, tableVars
<1>2. SubmitInv(c) /\ EntryInv(c) /\ AnswerInv(c) /\ rec[c].st = "none"
  BY <1>1 DEF SubmitsInv, SubmitInv, At
<1>3. PICK r \in CallTypes :
           /\ call' = [call EXCEPT ![c] = r]
           /\ r.pc = "wait" /\ r.answer = call[c].answer /\ r.waits = call[c].waits /\ r.ref = call[c].ref
  BY <1>1, CodeTypes, GoesEffect
<1>4. call'[c] = r /\ entry' = entry /\ rec'[c].st = "buffered" /\ keys' = keys /\ released' = released
  BY <1>1, <1>3 DEF SubmitTypes, RecordTypes, tableVars
<1>5. SubmitInv(c)'
  BY <1>1, <1>2, <1>3, <1>4 DEF SubmitInv, At, HasKey
<1>6. EntryInv(c)'
  BY <1>1, <1>2, <1>3, <1>4 DEF SubmitInv, EntryInv, At, HasKey, Kept
<1>7. AnswerInv(c)'
  BY <1>1, <1>2, <1>3, <1>4 DEF SubmitInv, AnswerInv, At
<1>8. ASSUME NEW d \in Calls, d # c
      PROVE  SubmitInv(d)' /\ EntryInv(d)' /\ AnswerInv(d)'
  <2>1. SubmitInv(d) /\ EntryInv(d) /\ AnswerInv(d)
    BY DEF SubmitsInv
  <2>2. call'[d] = call[d] /\ rec'[d] = rec[d]
    BY <1>1, <1>3, <1>8 DEF SubmitTypes, RecordTypes
  <2>3. \A e \in Calls : rec[e].st = "acked" => rec'[e].st = "acked"
    BY <1>1, <1>2 DEF RecordTypes
  <2>4. SubmitInv(d)'
    BY <1>4, <2>1, <2>2 DEF SubmitInv, At, HasKey
  <2>5. EntryInv(d)'
    BY <1>4, <2>1, <2>2 DEF EntryInv, At, HasKey, Unwritten, RefusedOnce
  <2>6. AnswerInv(d)'
    BY <1>4, <2>1, <2>2, <2>3 DEF AnswerInv, At, RefusedOnce
  <2> QED BY <2>4, <2>5, <2>6
<1>9. SubmitTypes'
  BY <1>3, <1>4 DEF SubmitTypes
<1> QED BY <1>5, <1>6, <1>7, <1>8, <1>9 DEF SubmitsInv

(* Writing, losing or answering a record. *)
LEMMA BrokerSubmits ==
  ASSUME SubmitTypes, RecordTypes, SubmitsInv, NEW c \in Calls, Write(c) \/ Promise(c)
  PROVE  SubmitTypes' /\ SubmitsInv'
<1>1. rec[c].st \in {"buffered", "sent"} /\ UNCHANGED callVars
  BY DEF Write, Promise, produceUnchanged
<1>2. PICK q : q.st # "none" /\ rec' = [rec EXCEPT ![c] = q]
  <2>1. rec[c] \in [st : RecStates, att : 0..2, gen : Nat]
    BY DEF RecordTypes
  <2>2. CASE Write(c)
    <3> DEFINE q == [rec[c] EXCEPT !.st = "sent", !.att = @ + 1]
    <3>1. rec' = [rec EXCEPT ![c] = q] /\ q.st = "sent"
      BY <2>1, <2>2 DEF Write, RecordTypes
    <3> QED BY <3>1
  <2>3. ASSUME NEW s \in {"acked", "lost"}, rec' = [rec EXCEPT ![c].st = s, ![c].att = 1]
        PROVE  \E q : q.st # "none" /\ rec' = [rec EXCEPT ![c] = q]
    <3> DEFINE q == [rec[c] EXCEPT !.st = s, !.att = 1]
    <3>1. rec' = [rec EXCEPT ![c] = q] /\ q.st = s
      BY <2>1, <2>3 DEF RecordTypes
    <3> QED BY <3>1
  <2>4. ASSUME NEW s \in {"refused", "failed"}, rec' = [rec EXCEPT ![c].st = s]
        PROVE  \E q : q.st # "none" /\ rec' = [rec EXCEPT ![c] = q]
    <3> DEFINE q == [rec[c] EXCEPT !.st = s]
    <3>1. rec' = [rec EXCEPT ![c] = q] /\ q.st = s
      BY <2>1, <2>4 DEF RecordTypes
    <3> QED BY <3>1
  <2> QED BY <2>2, <2>3, <2>4 DEF Promise
<1> QED BY <1>1, <1>2, RecordSubmits

(* All of it. *)
LEMMA SubmitsStep ==
  ASSUME IngressInv, [Next]_vars
  PROVE  SubmitTypes' /\ SubmitsInv'
<1> USE DEF IngressInv
<1>1. SubmitsInv
  BY DEF SubmitsInv
<1>2. CASE UNCHANGED <<callVars, rec>>
  <2>1. call' = call /\ entry' = entry /\ keys' = keys /\ released' = released /\ rec' = rec
    BY <1>2 DEF callVars, tableVars
  <2>2. \A c \in Calls : SubmitInv(c)' /\ EntryInv(c)' /\ AnswerInv(c)'
    BY <1>1, <2>1
    DEF SubmitsInv, SubmitInv, EntryInv, AnswerInv, At, HasKey, Unwritten, RefusedOnce
  <2> QED BY <2>1, <2>2 DEF SubmitsInv, SubmitTypes
<1>3. ASSUME NEW c \in Calls, Submit(c) \/ Await(c) \/ AwaitGivesUp(c)
      PROVE  SubmitTypes' /\ SubmitsInv'
  BY <1>1, <1>3, SubmitSubmits, AwaitSubmits
<1>4. ASSUME NEW c \in Calls,
             Enter(c) \/ QueuedGivesUp(c) \/ Reject(c) \/ RefuseRun(c) \/ Produced(c) \/ ProduceDeadline(c)
      PROVE  SubmitTypes' /\ SubmitsInv'
  BY <1>1, <1>4, EnterSubmits, QueuedSubmits, ProducedSubmits, DeadlineSubmits
<1>5. ASSUME NEW c \in Calls, Settle(c) \/ Produce(c) \/ Write(c) \/ Promise(c)
      PROVE  SubmitTypes' /\ SubmitsInv'
  <2>1. \A d \in Calls : RecordInv(d)
    OBVIOUS
  <2> QED BY <1>1, <1>5, <2>1, SettleSubmits, ProduceSubmits, BrokerSubmits
<1>6. ASSUME NEW c \in Calls, PlaceCloses(c) \/ Land(c)
      PROVE  UNCHANGED <<callVars, rec>>
  BY <1>6 DEF PlaceCloses, Land, produceVars, produceUnchanged
<1>7. CASE RefuseRestarting \/ WaitAdmitted \/ DropClient \/ UNCHANGED vars
  BY <1>2, <1>7 DEF RefuseRestarting, WaitAdmitted, DropClient, produceVars, produceUnchanged, vars
<1> QED BY <1>2, <1>3, <1>4, <1>5, <1>6, <1>7 DEF Next, Proceeds

--------------------------------------------------------------------------------
(* The key table. *)

(* Only lookup gives a Submit its ref. *)
LEMMA RefsKept ==
  ASSUME SubmitTypes, NEW c \in Calls,
         (\E pc : Goes(c, pc)) \/ (\E code, w : Answers(c, code, w)) \/ call' = call
  PROVE  \A d \in Calls : call'[d].ref = call[d].ref
<1>1. ASSUME NEW pc, Goes(c, pc), NEW d \in Calls
      PROVE  call'[d].ref = call[d].ref
  BY <1>1 DEF SubmitTypes, CallTypes, Goes
<1>2. ASSUME NEW code, NEW w, Answers(c, code, w), NEW d \in Calls
      PROVE  call'[d].ref = call[d].ref
  BY <1>2 DEF SubmitTypes, CallTypes, Answers
<1> QED BY <1>1, <1>2

LEMMA KeysKept ==
  ASSUME SubmitTypes, KeyInv, UNCHANGED tableVars, \A d \in Calls : call'[d].ref = call[d].ref
  PROVE  KeyInv'
BY DEF KeyInv, tableVars, SubmitTypes

LEMMA KeysResolved ==
  ASSUME SubmitTypes, KeyInv, NEW c \in Calls, NEW outcome \in Kept \cup {"transient"}, Resolve(c, outcome),
         entry[c] = IF HasKey(c) THEN "open" ELSE "none",
         \A d \in Calls : call'[d].ref = call[d].ref
  PROVE  KeyInv'
<1>1. IsFiniteSet(keys) /\ Cardinality(keys) \in Nat
  BY CallSetsFinite DEF SubmitTypes
<1>2. IsFiniteSet(keys \ {c}) /\ Cardinality(keys \ {c}) = IF c \in keys THEN Cardinality(keys) - 1 ELSE Cardinality(keys)
  BY <1>1, FS_RemoveElement, Zenon
<1>3. Cardinality(keys') <= MaxPending
  BY <1>1, <1>2, IngressAssumption DEF Resolve, KeyInv
<1>4. /\ \A d \in Calls : d # c => entry'[d] = entry[d]
      /\ entry'[c] = IF HasKey(c) THEN outcome ELSE "none"
      /\ keys' \subseteq keys /\ released' = released
      /\ outcome = "transient" => keys' = keys \ {c}
      /\ outcome # "transient" => keys' = keys
  BY DEF Resolve, SubmitTypes, Kept
<1>5. \A d \in keys' : entry'[d] \in Kept \cup {"open"}
  BY <1>4 DEF KeyInv, SubmitTypes, Kept
<1>6. \A d, e \in keys' : call'[d].ref = call'[e].ref => d = e
  BY <1>4 DEF KeyInv, SubmitTypes
<1>7. \A d \in Calls : entry'[d] \in Kept \cup {"open"} => d \in keys' \/ d \in released'
  BY <1>4 DEF KeyInv, SubmitTypes, Kept
<1> QED BY <1>3, <1>5, <1>6, <1>7 DEF KeyInv

LEMMA KeysLookedUp ==
  ASSUME SubmitTypes, SubmitsInv, KeyInv, NEW c \in Calls, call[c].pc \in {"idle", "await"},
         NEW i, Lookup(c, i)
  PROVE  KeyInv'
<1>1. c \notin keys
  BY DEF KeyInv, Kept, SubmitsInv, SubmitInv
<1>2. PICK held \in SUBSET keys : LookupHit(c, i, held) \/ LookupMiss(c, i, held)
  BY DEF Lookup
<1>3. /\ IsFiniteSet(held) /\ Cardinality(held) \in Nat /\ Cardinality(held) <= MaxPending
  <2>1. IsFiniteSet(keys) /\ Cardinality(keys) \in Nat
    BY CallSetsFinite DEF SubmitTypes
  <2>2. IsFiniteSet(held) /\ Cardinality(held) <= Cardinality(keys)
    BY <2>1, FS_Subset, Zenon
  <2>3. Cardinality(held) \in Nat
    BY <2>2, FS_CardinalityType, Zenon
  <2> QED BY <2>1, <2>2, <2>3, IngressAssumption DEF KeyInv
<1>4. CASE keys' = held /\ UNCHANGED entry /\ ((\E code, w : Answers(c, code, w)) \/ (\E e : GoesWith(c, i, "await", e)))
  <2>1. \A d \in keys : call'[d].ref = call[d].ref
    BY <1>1, <1>4 DEF Answers, GoesWith, SubmitTypes, CallTypes
  <2> QED BY <1>3, <1>4, <2>1 DEF KeyInv, Lookup, SubmitTypes
<1>5. ASSUME NEW rest \in SUBSET held, Cardinality(rest) < MaxPending, IsFiniteSet(rest), MakesEntry(c, i, rest),
             \A e \in held : call[e].ref # i[1]
      PROVE  KeyInv'
  <2>1. /\ \A d \in keys : call'[d].ref = call[d].ref
        /\ call'[c].ref = i[1]
        /\ entry'[c] = "open" /\ \A d \in Calls : d # c => entry'[d] = entry[d]
        /\ keys' = rest \cup {c} /\ released' = released \cup (keys \ keys')
    BY <1>1, <1>5 DEF MakesEntry, GoesWith, SubmitTypes, CallTypes, Lookup
  <2>2. Cardinality(keys') <= MaxPending
    <3>1. Cardinality(rest \cup {c}) = IF c \in rest THEN Cardinality(rest) ELSE Cardinality(rest) + 1
      BY <1>5, FS_AddElement, Zenon
    <3>2. Cardinality(rest) \in Nat
      BY <1>5, FS_CardinalityType, Zenon
    <3> QED BY <1>5, <2>1, <3>1, <3>2, IngressAssumption
  <2>3. \A d \in keys' : entry'[d] \in Kept \cup {"open"}
    BY <2>1 DEF KeyInv, SubmitTypes
  <2>4. \A d, e \in keys' : call'[d].ref = call'[e].ref => d = e
    BY <1>5, <2>1 DEF KeyInv
  <2>5. \A d \in Calls : entry'[d] \in Kept \cup {"open"} => d \in keys' \/ d \in released'
    BY <2>1 DEF KeyInv
  <2> QED BY <2>2, <2>3, <2>4, <2>5 DEF KeyInv
<1>6. CASE Cardinality(held) < MaxPending /\ MakesEntry(c, i, held) /\ \A e \in held : call[e].ref # i[1]
  BY <1>3, <1>5, <1>6
<1>7. ASSUME NEW old \in Evictable(held), MakesEntry(c, i, held \ {old}), \A e \in held : call[e].ref # i[1]
      PROVE  KeyInv'
  <2>1. old \in held
    BY <1>7 DEF Evictable
  <2>2. IsFiniteSet(held \ {old}) /\ Cardinality(held \ {old}) = IF old \in held THEN Cardinality(held) - 1 ELSE Cardinality(held)
    BY <1>3, FS_RemoveElement, Zenon
  <2>3. Cardinality(held \ {old}) < MaxPending /\ held \ {old} \in SUBSET held
    BY <1>3, <2>1, <2>2, IngressAssumption
  <2> QED BY <1>5, <1>7, <2>2, <2>3
<1> QED BY <1>2, <1>4, <1>6, <1>7 DEF LookupHit, LookupMiss

LEMMA KeysStep ==
  ASSUME IngressInv, [Next]_vars
  PROVE  KeyInv'
<1> USE DEF IngressInv
<1>1. SubmitsInv
  BY DEF SubmitsInv
<1>2. CASE UNCHANGED callVars
  BY <1>2, KeysKept DEF callVars
<1>3. ASSUME NEW c \in Calls, UNCHANGED tableVars, (\E pc : Goes(c, pc)) \/ (\E code, w : Answers(c, code, w))
      PROVE  KeyInv'
  BY <1>3, RefsKept, KeysKept
<1>4. ASSUME NEW c \in Calls, NEW outcome \in Kept \cup {"transient"}, Resolve(c, outcome),
             call[c].pc \in {"enter", "queued", "wait"} \/ entry[c] = "open",
             (\E code, w : Answers(c, code, w)) \/ call' = call
      PROVE  KeyInv'
  <2>1. entry[c] = IF HasKey(c) THEN "open" ELSE "none"
    BY <1>1, <1>4 DEF SubmitsInv, SubmitInv, EntryInv
  <2>2. \A d \in Calls : call'[d].ref = call[d].ref
    BY <1>4, RefsKept
  <2> QED BY <1>4, <2>1, <2>2, KeysResolved
<1>5. ASSUME NEW c \in Calls, Submit(c)
      PROVE  KeyInv'
  <2>1. call[c].pc = "idle"
    BY <1>5 DEF Submit, Arrives, At
  <2> QED BY <1>1, <1>3, <1>5, <2>1, KeysLookedUp DEF Submit
<1>6. ASSUME NEW c \in Calls, Await(c) \/ AwaitGivesUp(c)
      PROVE  KeyInv'
  <2>1. call[c].pc = "await"
    BY <1>6 DEF Await, AwaitGivesUp, At
  <2> QED BY <1>1, <1>3, <1>6, <2>1, KeysLookedUp DEF Await, AwaitGivesUp
<1>7. ASSUME NEW c \in Calls, Enter(c) \/ Produce(c) \/ ProduceDeadline(c)
      PROVE  KeyInv'
  BY <1>3, <1>4, <1>7 DEF Enter, At, Produce, ProduceDeadline, tableVars
<1>8. ASSUME NEW c \in Calls, QueuedGivesUp(c) \/ Reject(c) \/ RefuseRun(c) \/ Produced(c)
      PROVE  KeyInv'
  BY <1>4, <1>8 DEF QueuedGivesUp, Reject, RefuseRun, Runs, Refused, Produced, At, Kept
<1>9. ASSUME NEW c \in Calls, Settle(c)
      PROVE  KeyInv'
  BY <1>4, <1>9 DEF Settle, Fates, Kept
<1>10. ASSUME NEW c \in Calls, PlaceCloses(c) \/ Land(c) \/ Write(c) \/ Promise(c)
       PROVE  UNCHANGED callVars
  BY <1>10 DEF PlaceCloses, Land, Write, Promise, produceUnchanged
<1>11. CASE RefuseRestarting \/ WaitAdmitted \/ DropClient \/ UNCHANGED vars
  BY <1>2, <1>11 DEF RefuseRestarting, WaitAdmitted, DropClient, produceUnchanged, vars
<1> QED BY <1>2, <1>5, <1>6, <1>7, <1>8, <1>9, <1>10, <1>11 DEF Next, Proceeds

--------------------------------------------------------------------------------
(* The turn queue. *)

LEMMA InQueueFinite == IsFiniteSet(InQueue) /\ Cardinality(InQueue) \in Nat
<1>1. InQueue \in SUBSET Calls
  BY DEF InQueue
<1> QED BY <1>1, CallSetsFinite, Zenon

(* A Submit whose turn it is has everybody before it behind it. *)
LEMMA AllBeforePassed ==
  ASSUME QueueTypes, LineInv, NEW n \in 1..Len(turns), TurnPassed(turns[n])
  PROVE  \A m \in 1..(n - 1) : turns[m] \in passed
<1> SUFFICES ASSUME NEW m \in 1..(n - 1)
             PROVE  turns[m] \in passed
  OBVIOUS
<1>1. n \in Nat /\ n > 1 /\ n - 1 \in 1..Len(turns) /\ prev[turns[n]] = turns[n - 1]
  BY DEF LineInv, QueueTypes
<1>2. turns[n - 1] \in Calls /\ turns[n - 1] # 0
  <2>1. turns[n - 1] \in Calls
    BY <1>1 DEF QueueTypes
  <2> QED BY <2>1 DEF Calls
<1>3. turns[n - 1] \in passed
  BY <1>1, <1>2 DEF TurnPassed
<1>4. m = n - 1 \/ m \in 1..((n - 1) - 1)
  BY <1>1
<1> QED BY <1>1, <1>3, <1>4 DEF LineInv

(* A step of a Submit that has no place. *)
LEMMA OutsideQueue ==
  ASSUME QueueTypes, LineInv, PendingInv, NEW c \in Calls,
         UNCHANGED queueVars, \A d \in Calls : d # c => call'[d] = call[d],
         \A d \in Calls : (rec'[d].st = "none") <=> (rec[d].st = "none"),
         call[c].pc = call'[c].pc
           \/ (call[c].pc \in {"idle", "await", "enter"} /\ call'[c].pc \in {"await", "enter", "done"})
  PROVE  QueueTypes' /\ LineInv' /\ PendingInv'
<1>1. /\ prev' = prev /\ tail' = tail /\ passed' = passed /\ leaving' = leaving
      /\ pending' = pending /\ turns' = turns
  BY DEF queueVars
<1>2. QueueTypes'
  BY <1>1 DEF QueueTypes
<1>3. \A d \in Calls : call[d].pc \in {"queued", "wait", "done"} => call'[d].pc = call[d].pc
  OBVIOUS
<1>4. \A d \in Calls : call'[d].pc \in {"queued", "wait"} => call[d].pc = call'[d].pc
  OBVIOUS
<1>5. InQueue' = InQueue
  BY <1>3, <1>4 DEF InQueue
<1>6. PendingInv'
  BY <1>1, <1>5 DEF PendingInv
<1>7. \A n \in 1..Len(turns) : turns[n] \in Calls
  BY DEF QueueTypes
<1>8. \A d \in Calls : HasPlace(d)' <=> HasPlace(d)
  BY <1>1 DEF HasPlace
<1>9. LineInv'
  <2>1. \A n \in 1..Len(turns) : call'[turns[n]].pc \in {"queued", "wait", "done"}
    BY <1>3, <1>7 DEF LineInv
  <2>2. \A d \in Calls : call'[d].pc \in {"queued", "wait"} => HasPlace(d)'
    BY <1>4, <1>8 DEF LineInv
  <2>3. \A d \in Calls : rec'[d].st # "none" => HasPlace(d)' /\ TurnPassed(d)'
    BY <1>1, <1>8 DEF LineInv, TurnPassed
  <2>4. \A d \in passed' \cup leaving' : HasPlace(d)' /\ At(d, "done")'
    BY <1>1, <1>3, <1>8 DEF LineInv, At, QueueTypes
  <2> QED BY <1>1, <2>1, <2>2, <2>3, <2>4 DEF LineInv
<1> QED BY <1>2, <1>6, <1>9

(* session.enter gives the last place. *)
LEMMA TakesPlace ==
  ASSUME SubmitTypes, QueueTypes, LineInv, PendingInv, NEW c \in Calls, At(c, "enter"),
         pending < MaxPending, pending' = pending + 1,
         prev' = [prev EXCEPT ![c] = tail], tail' = c, turns' = Append(turns, c),
         Goes(c, "queued"), UNCHANGED <<passed, leaving>>, rec' = rec, rec[c].st = "none"
  PROVE  QueueTypes' /\ LineInv' /\ PendingInv'
<1>1. Len(turns) \in Nat /\ Len(turns') = Len(turns) + 1 /\ turns'[Len(turns) + 1] = c /\ turns' \in Seq(Calls)
      /\ \A n \in 1..Len(turns) : turns'[n] = turns[n] /\ turns[n] \in Calls
  BY DEF QueueTypes
<1>2. QueueTypes'
  BY <1>1, CodeTypes DEF QueueTypes
<1>3. call'[c].pc = "queued" /\ \A d \in Calls : d # c => call'[d] = call[d]
  BY DEF Goes, SubmitTypes, CallTypes
<1>4. \A n \in 1..Len(turns) : turns[n] # c
  BY DEF LineInv, At
<1>5. c \notin passed /\ c \notin leaving /\ ~HasPlace(c)
  BY <1>4 DEF LineInv, HasPlace
<1>6. PendingInv'
  <2>1. InQueue' = InQueue \cup {c} /\ c \notin InQueue
    BY <1>3 DEF InQueue, At
  <2>2. Cardinality(InQueue \cup {c}) = IF c \in InQueue THEN Cardinality(InQueue) ELSE Cardinality(InQueue) + 1
    BY InQueueFinite, FS_AddElement, Zenon
  <2> QED BY <2>1, <2>2, InQueueFinite, IngressAssumption DEF PendingInv
<1>7. \A n \in 1..Len(turns') : n \in 1..Len(turns) \/ n = Len(turns) + 1
  BY <1>1
<1>8. \A d \in Calls : HasPlace(d)' <=> HasPlace(d) \/ d = c
  BY <1>1, <1>7 DEF HasPlace
<1>9. \A d \in Calls : d # c => (TurnPassed(d)' <=> TurnPassed(d))
  BY DEF TurnPassed, QueueTypes
<1>10. LineInv'
  <2>1. \A m, n \in 1..Len(turns') : turns'[m] = turns'[n] => m = n
    BY <1>1, <1>4, <1>7 DEF LineInv
  <2>2. tail' = IF Len(turns') = 0 THEN 0 ELSE turns'[Len(turns')]
    BY <1>1
  <2>3. \A n \in 1..Len(turns') : prev'[turns'[n]] = IF n = 1 THEN 0 ELSE turns'[n - 1]
    <3>1. ASSUME NEW n \in 1..Len(turns)
          PROVE  prev'[turns'[n]] = IF n = 1 THEN 0 ELSE turns'[n - 1]
      <4>1. turns'[n] = turns[n] /\ turns[n] # c /\ turns[n] \in Calls /\ (n # 1 => turns'[n - 1] = turns[n - 1])
        BY <1>1, <1>4
      <4>2. prev'[turns[n]] = prev[turns[n]]
        BY <4>1 DEF QueueTypes
      <4> QED BY <4>1, <4>2 DEF LineInv
    <3>2. prev'[c] = tail
      BY DEF QueueTypes
    <3>3. Len(turns) + 1 = 1 => tail = 0
      BY <1>1 DEF LineInv
    <3>4. Len(turns) + 1 # 1 => tail = turns'[(Len(turns) + 1) - 1]
      BY <1>1 DEF LineInv
    <3> QED BY <1>1, <1>7, <3>1, <3>2, <3>3, <3>4
  <2>4. \A n \in 1..Len(turns') : turns'[n] \in passed' => \A m \in 1..(n - 1) : turns'[m] \in passed'
    <3>1. ASSUME NEW n \in 1..Len(turns'), turns'[n] \in passed', NEW m \in 1..(n - 1)
          PROVE  turns'[m] \in passed'
      <4>1. n \in 1..Len(turns) /\ m \in 1..Len(turns)
        BY <1>1, <1>5, <1>7, <3>1
      <4> QED BY <1>1, <3>1, <4>1 DEF LineInv
    <3> QED BY <3>1
  <2>5. \A n \in 1..Len(turns') : call'[turns'[n]].pc \in {"queued", "wait", "done"}
    BY <1>1, <1>3, <1>4, <1>7 DEF LineInv
  <2>6. \A d \in Calls : call'[d].pc \in {"queued", "wait"} => HasPlace(d)'
    BY <1>3, <1>8 DEF LineInv
  <2>7. \A d \in Calls : rec'[d].st # "none" => HasPlace(d)' /\ TurnPassed(d)'
    BY <1>8, <1>9 DEF LineInv
  <2>8. \A d \in passed' \cup leaving' : HasPlace(d)' /\ At(d, "done")'
    BY <1>3, <1>5, <1>8 DEF LineInv, At, QueueTypes
  <2> QED BY <2>1, <2>2, <2>3, <2>4, <2>5, <2>6, <2>7, <2>8 DEF LineInv
<1> QED BY <1>2, <1>6, <1>10

(* A Submit returns from its place: its own is passed, or it is left to pass  *)
(* after the one before it.                                                    *)
LEMMA LeavesPlace ==
  ASSUME SubmitTypes, QueueTypes, LineInv, PendingInv, NEW c \in Calls, call[c].pc \in {"queued", "wait"},
         \/ Leave(c) /\ TurnPassed(c)
         \/ LeaveAfter(c),
         NEW code, NEW w, Answers(c, code, w), rec' = rec
  PROVE  QueueTypes' /\ LineInv' /\ PendingInv'
<1>1. prev' = prev /\ tail' = tail /\ turns' = turns /\ pending' = pending - 1
  BY DEF Leave, LeaveAfter
<1>2. /\ passed \subseteq passed' /\ leaving \subseteq leaving'
      /\ passed' \subseteq passed \cup {c} /\ leaving' \subseteq leaving \cup {c}
      /\ passed' = passed \/ TurnPassed(c)
  BY DEF Leave, LeaveAfter
<1>3. call'[c].pc = "done" /\ \A d \in Calls : d # c => call'[d] = call[d]
  BY DEF Answers, SubmitTypes, CallTypes
<1>4. /\ PendingInv' /\ pending' \in Nat
  <2>1. InQueue' = InQueue \ {c} /\ c \in InQueue
    BY <1>3 DEF InQueue
  <2>2. Cardinality(InQueue \ {c}) = IF c \in InQueue THEN Cardinality(InQueue) - 1 ELSE Cardinality(InQueue)
    BY InQueueFinite, FS_RemoveElement, Zenon
  <2>3. IsFiniteSet(InQueue \ {c})
    BY InQueueFinite, FS_RemoveElement, Zenon
  <2>4. Cardinality(InQueue \ {c}) \in Nat
    BY <2>3, FS_CardinalityType, Zenon
  <2> QED BY <1>1, <2>1, <2>2, <2>4, InQueueFinite, IngressAssumption DEF PendingInv
<1>5. QueueTypes'
  BY <1>1, <1>2, <1>4 DEF QueueTypes
<1>6. \A d \in Calls : /\ HasPlace(d)' <=> HasPlace(d)
                       /\ TurnPassed(d) => TurnPassed(d)'
  BY <1>1, <1>2 DEF HasPlace, TurnPassed
<1>7. LineInv'
  <2>1. \A n \in 1..Len(turns') : turns'[n] \in passed' => \A m \in 1..(n - 1) : turns'[m] \in passed'
    <3> SUFFICES ASSUME NEW n \in 1..Len(turns), turns[n] \in passed', NEW m \in 1..(n - 1)
                 PROVE  turns[m] \in passed'
      BY <1>1
    <3>1. CASE turns[n] \in passed
      BY <1>2, <3>1 DEF LineInv
    <3>2. CASE turns[n] = c /\ TurnPassed(c)
      BY <1>2, <3>2, AllBeforePassed
    <3> QED BY <1>2, <3>1, <3>2
  <2>2. \A n \in 1..Len(turns') : call'[turns'[n]].pc \in {"queued", "wait", "done"}
    <3>1. \A n \in 1..Len(turns) : turns[n] \in Calls
      BY DEF QueueTypes
    <3> QED BY <1>1, <1>3, <3>1 DEF LineInv
  <2>3. \A d \in Calls : call'[d].pc \in {"queued", "wait"} => HasPlace(d)'
    BY <1>3, <1>6 DEF LineInv
  <2>4. \A d \in Calls : rec'[d].st # "none" => HasPlace(d)' /\ TurnPassed(d)'
    BY <1>6 DEF LineInv
  <2>5. \A d \in passed' \cup leaving' : HasPlace(d)' /\ At(d, "done")'
    BY <1>2, <1>3, <1>6 DEF LineInv, At, QueueTypes
  <2> QED BY <1>1, <2>1, <2>2, <2>3, <2>4, <2>5 DEF LineInv
<1> QED BY <1>4, <1>5, <1>7

LEMMA PlacePasses ==
  ASSUME QueueTypes, LineInv, PendingInv, NEW c \in Calls, PlaceCloses(c)
  PROVE  QueueTypes' /\ LineInv' /\ PendingInv'
<1>1. /\ c \in leaving /\ TurnPassed(c) /\ leaving' = leaving \ {c} /\ passed' = passed \cup {c}
      /\ prev' = prev /\ tail' = tail /\ turns' = turns /\ pending' = pending /\ call' = call /\ rec' = rec
  BY DEF PlaceCloses, callVars, produceVars
<1>2. QueueTypes' /\ PendingInv'
  BY <1>1 DEF QueueTypes, PendingInv, InQueue
<1>3. \A d \in Calls : /\ HasPlace(d)' <=> HasPlace(d)
                       /\ TurnPassed(d) => TurnPassed(d)'
  BY <1>1 DEF HasPlace, TurnPassed
<1>4. LineInv'
  <2>1. \A n \in 1..Len(turns') : turns'[n] \in passed' => \A m \in 1..(n - 1) : turns'[m] \in passed'
    <3> SUFFICES ASSUME NEW n \in 1..Len(turns), turns[n] \in passed', NEW m \in 1..(n - 1)
                 PROVE  turns[m] \in passed'
      BY <1>1
    <3>1. CASE turns[n] \in passed
      BY <1>1, <3>1 DEF LineInv
    <3>2. CASE turns[n] = c
      BY <1>1, <3>2, AllBeforePassed
    <3> QED BY <1>1, <3>1, <3>2
  <2>2. \A d \in Calls : call'[d].pc \in {"queued", "wait"} => HasPlace(d)'
    BY <1>1, <1>3 DEF LineInv
  <2>3. \A d \in Calls : rec'[d].st # "none" => HasPlace(d)' /\ TurnPassed(d)'
    BY <1>1, <1>3 DEF LineInv
  <2>4. \A d \in passed' \cup leaving' : HasPlace(d)' /\ At(d, "done")'
    BY <1>1, <1>3 DEF LineInv, At, QueueTypes
  <2> QED BY <1>1, <2>1, <2>2, <2>3, <2>4 DEF LineInv
<1> QED BY <1>2, <1>4

LEMMA RunsInPlace ==
  ASSUME SubmitTypes, RecordTypes, QueueTypes, LineInv, PendingInv, NEW c \in Calls, Produce(c)
  PROVE  QueueTypes' /\ LineInv' /\ PendingInv'
<1>1. /\ At(c, "queued") /\ TurnPassed(c)
      /\ prev' = prev /\ tail' = tail /\ passed' = passed /\ leaving' = leaving
      /\ pending' = pending /\ turns' = turns
  BY DEF Produce, Runs, queueVars
<1>2. call'[c].pc = "wait" /\ \A d \in Calls : d # c => call'[d] = call[d] /\ rec'[d] = rec[d]
  BY DEF Produce, Goes, SubmitTypes, CallTypes, RecordTypes
<1>3. InQueue' = InQueue
  BY <1>1, <1>2 DEF InQueue, At
<1>4. QueueTypes' /\ PendingInv'
  BY <1>1, <1>3 DEF QueueTypes, PendingInv
<1>5. \A d \in Calls : /\ HasPlace(d)' <=> HasPlace(d)
                       /\ TurnPassed(d) => TurnPassed(d)'
  BY <1>1 DEF HasPlace, TurnPassed
<1>6. HasPlace(c)
  BY <1>1 DEF LineInv, At
<1>7. LineInv'
  <2>1. \A n \in 1..Len(turns') : call'[turns'[n]].pc \in {"queued", "wait", "done"}
    <3>1. \A n \in 1..Len(turns) : turns[n] \in Calls
      BY DEF QueueTypes
    <3> QED BY <1>1, <1>2, <3>1 DEF LineInv
  <2>2. \A d \in Calls : call'[d].pc \in {"queued", "wait"} => HasPlace(d)'
    BY <1>2, <1>5, <1>6 DEF LineInv
  <2>3. \A d \in Calls : rec'[d].st # "none" => HasPlace(d)' /\ TurnPassed(d)'
    BY <1>1, <1>2, <1>5, <1>6 DEF LineInv
  <2>4. \A d \in passed' \cup leaving' : HasPlace(d)' /\ At(d, "done")'
    BY <1>1, <1>2, <1>5 DEF LineInv, At, QueueTypes
  <2> QED BY <1>1, <2>1, <2>2, <2>3, <2>4 DEF LineInv
<1> QED BY <1>4, <1>7

(* Where a Submit goes; the others stay where they are. *)
LEMMA OnlyThisSubmit ==
  ASSUME SubmitTypes, NEW c \in Calls
  PROVE  /\ \A code, w : Answers(c, code, w) =>
              /\ call'[c].pc = "done" /\ call'[c].answer = code
              /\ \A d \in Calls : d # c => call'[d] = call[d]
         /\ \A pc : Goes(c, pc) =>
              /\ call'[c].pc = pc /\ call'[c].answer = call[c].answer
              /\ \A d \in Calls : d # c => call'[d] = call[d]
         /\ \A i, pc, w : GoesWith(c, i, pc, w) =>
              /\ call'[c].pc = pc /\ call'[c].answer = call[c].answer
              /\ \A d \in Calls : d # c => call'[d] = call[d]
<1>1. ASSUME NEW code, NEW w, Answers(c, code, w)
      PROVE  /\ call'[c].pc = "done" /\ call'[c].answer = code
             /\ \A d \in Calls : d # c => call'[d] = call[d]
  BY <1>1 DEF Answers, SubmitTypes, CallTypes
<1>2. ASSUME NEW pc, Goes(c, pc)
      PROVE  /\ call'[c].pc = pc /\ call'[c].answer = call[c].answer
             /\ \A d \in Calls : d # c => call'[d] = call[d]
  BY <1>2 DEF Goes, SubmitTypes, CallTypes
<1>3. ASSUME NEW i, NEW pc, NEW w, GoesWith(c, i, pc, w)
      PROVE  /\ call'[c].pc = pc /\ call'[c].answer = call[c].answer
             /\ \A d \in Calls : d # c => call'[d] = call[d]
  BY <1>3 DEF GoesWith, SubmitTypes, CallTypes
<1> QED BY <1>1, <1>2, <1>3

LEMMA LookupMoves ==
  ASSUME SubmitTypes, NEW c \in Calls, NEW i, Lookup(c, i)
  PROVE  /\ call'[c].pc \in {"await", "enter", "done"}
         /\ call'[c].pc # "done" => call'[c].answer = call[c].answer
         /\ \A d \in Calls : d # c => call'[d] = call[d]
<1>1. \/ Answers(c, "refused", 0) \/ (\E e : GoesWith(c, i, "await", e)) \/ GoesWith(c, i, "enter", 0)
  BY DEF Lookup, LookupHit, LookupMiss, MakesEntry
<1> QED BY <1>1, OnlyThisSubmit

(* A Submit that has no place moves outside the queue. *)
LEMMA MovesOutside ==
  ASSUME SubmitTypes, NEW c \in Calls,
         Submit(c) \/ Await(c) \/ AwaitGivesUp(c) \/ (Enter(c) /\ ~(pending < MaxPending))
  PROVE  /\ call[c].pc \in {"idle", "await", "enter"} /\ call'[c].pc \in {"await", "enter", "done"}
         /\ \A d \in Calls : d # c => call'[d] = call[d]
         /\ UNCHANGED <<queueVars, produceVars>>
<1>1. CASE Submit(c)
  <2>1. At(c, "idle") /\ UNCHANGED <<queueVars, produceVars>>
    BY <1>1 DEF Submit, Arrives
  <2>2. Answers(c, "refused", 0) \/ Goes(c, "enter") \/ \E i : Lookup(c, i)
    BY <1>1 DEF Submit
  <2> QED BY <2>1, <2>2, OnlyThisSubmit, LookupMoves DEF At
<1>2. CASE Await(c) \/ AwaitGivesUp(c)
  <2>1. At(c, "await") /\ UNCHANGED <<queueVars, produceVars>>
    BY <1>2 DEF Await, AwaitGivesUp
  <2>2. (\E code, w : Answers(c, code, w)) \/ \E i : Lookup(c, i)
    BY <1>2 DEF Await, AwaitGivesUp
  <2> QED BY <2>1, <2>2, OnlyThisSubmit, LookupMoves DEF At
<1>3. CASE Enter(c) /\ ~(pending < MaxPending)
  <2>1. At(c, "enter") /\ UNCHANGED <<queueVars, produceVars>> /\ Answers(c, "refused", 0)
    BY <1>3 DEF Enter
  <2> QED BY <2>1, OnlyThisSubmit DEF At
<1> QED BY <1>1, <1>2, <1>3

LEMMA QueueStep ==
  ASSUME IngressInv, [Next]_vars
  PROVE  QueueTypes' /\ LineInv' /\ PendingInv'
<1> USE DEF IngressInv
<1>1. SubmitsInv
  BY DEF SubmitsInv
<1>2. ASSUME UNCHANGED <<call, queueVars>>, NEW c \in Calls,
             \A d \in Calls : (rec'[d].st = "none") <=> (rec[d].st = "none")
      PROVE  QueueTypes' /\ LineInv' /\ PendingInv'
  BY <1>2, OutsideQueue
<1>3. ASSUME NEW c \in Calls,
             Submit(c) \/ Await(c) \/ AwaitGivesUp(c) \/ (Enter(c) /\ ~(pending < MaxPending))
      PROVE  QueueTypes' /\ LineInv' /\ PendingInv'
  <2>1. /\ call[c].pc \in {"idle", "await", "enter"} /\ call'[c].pc \in {"await", "enter", "done"}
        /\ \A d \in Calls : d # c => call'[d] = call[d]
        /\ UNCHANGED queueVars /\ rec' = rec
    BY <1>3, MovesOutside DEF produceVars
  <2> QED BY <2>1, OutsideQueue
<1>4. ASSUME NEW c \in Calls, Enter(c), pending < MaxPending
      PROVE  QueueTypes' /\ LineInv' /\ PendingInv'
  <2>1. At(c, "enter") /\ rec' = rec /\ rec[c].st = "none"
    BY <1>1, <1>4 DEF Enter, produceVars, SubmitsInv, SubmitInv, At
  <2>2. ~(pending >= MaxPending)
    BY <1>4, IngressAssumption DEF QueueTypes
  <2> QED BY <1>4, <2>1, <2>2, TakesPlace DEF Enter
<1>5. ASSUME NEW c \in Calls, Reject(c) \/ RefuseRun(c) \/ Produced(c) \/ ProduceDeadline(c)
      PROVE  QueueTypes' /\ LineInv' /\ PendingInv'
  <2>1. call[c].pc \in {"queued", "wait"} /\ Leave(c) /\ rec' = rec /\ \E code, w : Answers(c, code, w)
    BY <1>5 DEF Reject, RefuseRun, Runs, Refused, Produced, ProduceDeadline, At, produceVars
  <2>2. TurnPassed(c)
    <3>1. CASE Reject(c) \/ RefuseRun(c)
      BY <3>1 DEF Reject, RefuseRun, Runs
    <3>2. CASE Produced(c) \/ ProduceDeadline(c)
      <4>1. rec[c].st # "none"
        BY <1>1, <3>2 DEF Produced, ProduceDeadline, SubmitsInv, SubmitInv
      <4> QED BY <4>1 DEF LineInv
    <3> QED BY <1>5, <3>1, <3>2
  <2> QED BY <2>1, <2>2, LeavesPlace
<1>6. ASSUME NEW c \in Calls, QueuedGivesUp(c)
      PROVE  QueueTypes' /\ LineInv' /\ PendingInv'
  <2>1. call[c].pc \in {"queued", "wait"} /\ LeaveAfter(c) /\ rec' = rec /\ Answers(c, "refused", 0)
    BY <1>6 DEF QueuedGivesUp, At, produceVars
  <2> QED BY <2>1, LeavesPlace
<1>7. ASSUME NEW c \in Calls, PlaceCloses(c) \/ Produce(c)
      PROVE  QueueTypes' /\ LineInv' /\ PendingInv'
  BY <1>7, PlacePasses, RunsInPlace
<1>8. ASSUME NEW c \in Calls, Settle(c) \/ Land(c)
      PROVE  QueueTypes' /\ LineInv' /\ PendingInv'
  <2>1. UNCHANGED <<call, queueVars>> /\ rec' = rec
    BY <1>8 DEF Settle, Land, produceVars, produceUnchanged, callVars
  <2> QED BY <1>2, <2>1
<1>9. ASSUME NEW c \in Calls, Write(c) \/ Promise(c)
      PROVE  QueueTypes' /\ LineInv' /\ PendingInv'
  <2>1. UNCHANGED <<call, queueVars>>
    BY <1>9 DEF Write, Promise, produceUnchanged, callVars
  <2>2. rec[c].st # "none" /\ rec'[c].st # "none" /\ \A d \in Calls : d # c => rec'[d] = rec[d]
    BY <1>9 DEF Write, Promise, RecordTypes
  <2>3. \A d \in Calls : (rec'[d].st = "none") <=> (rec[d].st = "none")
    BY <2>2
  <2> QED BY <1>2, <2>1, <2>3
<1>10. CASE RefuseRestarting \/ WaitAdmitted \/ DropClient \/ UNCHANGED vars
  <2>1. UNCHANGED <<call, queueVars>> /\ rec' = rec
    BY <1>10 DEF RefuseRestarting, WaitAdmitted, DropClient, produceVars, produceUnchanged, vars, callVars
  <2>2. QueueTypes' /\ InQueue' = InQueue
    BY <2>1 DEF QueueTypes, queueVars, InQueue
  <2>3. PendingInv'
    BY <2>1, <2>2 DEF PendingInv, queueVars
  <2>4. LineInv'
    BY <2>1 DEF LineInv, queueVars, HasPlace, TurnPassed, At
  <2> QED BY <2>2, <2>3, <2>4
<1> QED BY <1>3, <1>4, <1>5, <1>6, <1>7, <1>8, <1>9, <1>10 DEF Next, Proceeds

--------------------------------------------------------------------------------
(* The records and the log. *)
RecordsInv == EnqueuedInv /\ LogInv /\ \A c \in Calls : RecordInv(c)

RecordType == [st : RecStates, att : 0..2, gen : Nat]

LEMMA InLogIs ==
  ASSUME RecordTypes
  PROVE  \A c : InLog(c) <=> \E i \in 1..Len(log) : log[i] = c
<1>1. DOMAIN log = 1..Len(log)
  BY DEF RecordTypes
<1> QED BY <1>1 DEF InLog, ToSet

LEMMA AheadKept ==
  ASSUME enq' = enq, \A e \in Calls : rec'[e].gen = rec[e].gen, NEW c \in Calls
  PROVE  Ahead(c)' = Ahead(c)
BY DEF Ahead

(* The clients may be dropped and the line may grow with the records as they are. *)
LEMMA EnqueuedKept ==
  ASSUME EnqueuedInv, rec' = rec, enq' = enq,
         \A i \in 1..Len(enq) : rec[enq[i]].gen <= gen',
         \A i, j \in 1..Len(enq), m, n \in 1..Len(turns') :
           i < j /\ turns'[m] = enq[i] /\ turns'[n] = enq[j] => m < n
  PROVE  EnqueuedInv'
<1>1. /\ \A i, j \in 1..Len(enq') : enq'[i] = enq'[j] => i = j
      /\ \A i \in 1..Len(enq') : rec'[enq'[i]].st # "none"
      /\ \A c \in Calls : rec'[c].st # "none" => \E i \in 1..Len(enq') : enq'[i] = c
      /\ \A i, j \in 1..Len(enq') : i < j => rec'[enq'[i]].gen <= rec'[enq'[j]].gen
  BY DEF EnqueuedInv
<1>2. \A i \in 1..Len(enq') : rec'[enq'[i]].gen <= gen'
  OBVIOUS
<1>3. \A i, j \in 1..Len(enq'), m, n \in 1..Len(turns') :
        i < j /\ turns'[m] = enq'[i] /\ turns'[n] = enq'[j] => m < n
  OBVIOUS
<1> QED BY ONLY <1>1, <1>2, <1>3 DEF EnqueuedInv

(* The line may grow behind what is enqueued. *)
LEMMA RecordsKept ==
  ASSUME RecordTypes, QueueTypes, RecordsInv, UNCHANGED produceVars,
         turns' = turns \/ \E c \in Calls : turns' = Append(turns, c) /\ rec[c].st = "none"
  PROVE  RecordTypes' /\ RecordsInv'
<1>1. gen' = gen /\ rec' = rec /\ enq' = enq /\ log' = log
  BY DEF produceVars
<1>2. \A c \in Calls : Ahead(c)' = Ahead(c) /\ (InLog(c)' <=> InLog(c))
  BY <1>1, AheadKept DEF InLog
<1>3. RecordTypes'
  BY <1>1 DEF RecordTypes
<1>4. \A c \in Calls : RecordInv(c)'
  BY <1>1, <1>2 DEF RecordsInv, RecordInv, RefusedOnce
<1>5. LogInv'
  <2>1. \A i \in 1..Len(log) : log[i] \in Calls
    BY DEF RecordTypes
  <2> QED BY <1>1, <1>2, <2>1 DEF RecordsInv, LogInv
<1>6. EnqueuedInv'
  <2>1. ASSUME NEW i \in 1..Len(enq), NEW j \in 1..Len(enq), NEW m \in 1..Len(turns'), NEW n \in 1..Len(turns'),
               i < j, turns'[m] = enq[i], turns'[n] = enq[j]
        PROVE  m < n
    <3>1. CASE turns' = turns
      BY <2>1, <3>1 DEF RecordsInv, EnqueuedInv
    <3>2. ASSUME NEW c \in Calls, turns' = Append(turns, c), rec[c].st = "none"
          PROVE  m < n
      <4>1. enq[i] # c /\ enq[j] # c
        BY <3>2 DEF RecordsInv, EnqueuedInv
      <4>2. \A k \in 1..Len(turns') : turns'[k] # c => k \in 1..Len(turns) /\ turns'[k] = turns[k]
        BY <3>2 DEF QueueTypes
      <4>3. m \in 1..Len(turns) /\ n \in 1..Len(turns) /\ turns[m] = enq[i] /\ turns[n] = enq[j]
        BY <2>1, <4>1, <4>2
      <4> QED BY <2>1, <4>3 DEF RecordsInv, EnqueuedInv
    <3> QED BY <3>1, <3>2
  <2>2. \A i \in 1..Len(enq) : rec[enq[i]].gen <= gen'
    BY <1>1 DEF RecordsInv, EnqueuedInv
  <2> QED BY <1>1, <2>1, <2>2, EnqueuedKept DEF RecordsInv
<1> QED BY <1>3, <1>4, <1>5, <1>6 DEF RecordsInv

(* What a live record of c may become. *)
Becomes(c, q) ==
  /\ rec[c].st \in {"buffered", "sent"}
  /\ q.gen = rec[c].gen /\ q.st \in {"sent", "acked", "failed", "lost", "refused"}
  /\ (q.st = "failed") <=> (q.att = 0)
  /\ InLog(c) => q.st # "failed"
  /\ q.st = "acked" => InLog(c)
  /\ q.st = "refused" /\ q.att = 1 => ~InLog(c)
  /\ q.st # "failed" => \A e \in Ahead(c) : rec[e].st # "buffered"

(* A live record is written, or its promise fires. *)
LEMMA RecordChanges ==
  ASSUME RecordTypes, RecordsInv, UNCHANGED <<gen, enq, log, turns>>, NEW c \in Calls, NEW q \in RecordType,
         rec' = [rec EXCEPT ![c] = q], Becomes(c, q)
  PROVE  RecordTypes' /\ RecordsInv'
<1> USE DEF Becomes
<1>1. /\ rec'[c] = q /\ \A d \in Calls : d # c => rec'[d] = rec[d]
      /\ gen' = gen /\ enq' = enq /\ log' = log /\ turns' = turns
  BY DEF RecordTypes
<1>2. RecordTypes'
  BY <1>1 DEF RecordTypes, RecordType
<1>3. \A d \in Calls : rec'[d].gen = rec[d].gen
  BY <1>1
<1>4. \A d \in Calls : Ahead(d)' = Ahead(d) /\ (InLog(d)' <=> InLog(d)) /\ Ahead(d) \subseteq Calls
  BY <1>1, <1>3, AheadKept DEF InLog, Ahead
<1>5. \A d \in Calls : rec'[d].st = "buffered" => rec[d].st = "buffered"
  BY <1>1
<1>6. ASSUME NEW d \in Calls PROVE RecordInv(d)'
  <2>1. CASE d = c
    BY <1>1, <1>4, <1>5, <2>1 DEF RecordInv, RefusedOnce
  <2>2. CASE d # c
    <3>1. RecordInv(d)
      BY DEF RecordsInv
    <3> QED BY <1>1, <1>4, <1>5, <2>2, <3>1 DEF RecordInv, RefusedOnce
  <2> QED BY <2>1, <2>2
<1>7. LogInv'
  <2>1. \A i \in 1..Len(log) : log[i] \in Calls
    BY DEF RecordTypes
  <2>2. \A d, e \in Calls : InLog(d) /\ e \in Ahead(d) /\ ~InLog(e) => rec'[e].st \in {"failed", "refused"}
    BY <1>1 DEF RecordsInv, LogInv
  <2> QED BY <1>1, <1>4, <2>1, <2>2 DEF RecordsInv, LogInv
<1>8. EnqueuedInv'
  <2>1. \A i \in 1..Len(enq) : enq[i] \in Calls
    BY DEF RecordTypes
  <2>2. \A d \in Calls : (rec'[d].st = "none") <=> (rec[d].st = "none")
    BY <1>1
  <2> QED BY <1>1, <1>3, <2>1, <2>2 DEF RecordsInv, EnqueuedInv
<1> QED BY <1>2, <1>6, <1>7, <1>8 DEF RecordsInv

LEMMA RecordEnqueued ==
  ASSUME SubmitTypes, SubmitsInv, RecordTypes, QueueTypes, LineInv, RecordsInv, NEW c \in Calls, Produce(c)
  PROVE  RecordTypes' /\ RecordsInv'
<1> DEFINE q == [st |-> "buffered", att |-> 0, gen |-> gen]
<1>1. /\ At(c, "queued") /\ TurnPassed(c) /\ rec[c].st = "none"
      /\ rec' = [rec EXCEPT ![c] = q] /\ enq' = Append(enq, c)
      /\ gen' = gen /\ log' = log /\ turns' = turns
  BY DEF Produce, Runs, queueVars, SubmitsInv, SubmitInv, At
<1>2. q \in RecordType /\ q.st = "buffered" /\ q.att = 0 /\ q.gen = gen
  BY DEF RecordType, RecStates, RecordTypes
<1> HIDE DEF q
<1>3. rec'[c] = q /\ \A d \in Calls : d # c => rec'[d] = rec[d]
  BY <1>1 DEF RecordTypes
<1>4. RecordTypes'
  BY <1>1, <1>2 DEF RecordTypes, RecordType
<1>5. /\ Len(enq) \in Nat /\ Len(enq') = Len(enq) + 1 /\ enq'[Len(enq) + 1] = c
      /\ \A i \in 1..Len(enq) : enq'[i] = enq[i] /\ enq[i] \in Calls /\ enq[i] # c
      /\ \A i \in 1..Len(enq') : i \in 1..Len(enq) \/ i = Len(enq) + 1
  BY <1>1 DEF RecordTypes, RecordsInv, EnqueuedInv
<1>6. ~InLog(c) /\ \A d \in Calls : InLog(d)' <=> InLog(d)
  BY <1>1 DEF RecordsInv, RecordInv, InLog
<1>7. ASSUME NEW d \in Calls, d # c
      PROVE  Ahead(d)' = Ahead(d) /\ c \notin Ahead(d)
  <2>1. ASSUME NEW e \in Calls, NEW i \in 1..Len(enq'), NEW j \in 1..Len(enq'),
               i < j, enq'[i] = e, enq'[j] = d
        PROVE  i \in 1..Len(enq) /\ j \in 1..Len(enq) /\ enq[i] = e /\ enq[j] = d /\ e # c
    BY <1>5, <1>7, <2>1
  <2>2. ASSUME NEW e \in Calls, NEW i \in 1..Len(enq), NEW j \in 1..Len(enq),
               i < j, enq[i] = e, enq[j] = d
        PROVE  i \in 1..Len(enq') /\ j \in 1..Len(enq') /\ enq'[i] = e /\ enq'[j] = d /\ e # c
    BY <1>5, <2>2
  <2>3. \A e \in Calls : e # c => rec'[e].gen = rec[e].gen
    BY <1>3
  <2> QED BY <1>3, <1>7, <2>1, <2>2, <2>3 DEF Ahead
<1>8. ASSUME NEW d \in Calls PROVE RecordInv(d)'
  <2>1. CASE d = c
    BY <1>2, <1>3, <1>6, <2>1 DEF RecordInv, RefusedOnce
  <2>2. CASE d # c
    <3>1. RecordInv(d) /\ Ahead(d)' = Ahead(d) /\ c \notin Ahead(d) /\ Ahead(d) \subseteq Calls
      BY <1>7, <2>2 DEF RecordsInv, Ahead
    <3> QED BY <1>3, <1>6, <2>2, <3>1 DEF RecordInv, RefusedOnce
  <2> QED BY <2>1, <2>2
<1>9. LogInv'
  <2>1. \A i \in 1..Len(log) : log[i] \in Calls /\ log[i] # c
    BY <1>6, InLogIs DEF RecordTypes
  <2>2. \A i, j \in 1..Len(log) : i < j => log[j] \notin Ahead(log[i])'
    <3>1. \A i \in 1..Len(log) : Ahead(log[i])' = Ahead(log[i])
      <4> TAKE i \in 1..Len(log)
      <4>1. log[i] \in Calls /\ log[i] # c
        BY <2>1
      <4>2. PICK d \in Calls : d = log[i] /\ d # c
        BY <4>1
      <4> QED BY <1>1, <1>7, <4>2
    <3> QED BY <3>1 DEF RecordsInv, LogInv
  <2>3. \A d, e \in Calls : InLog(d)' /\ e \in Ahead(d)' /\ ~(InLog(e)') => rec'[e].st \in {"failed", "refused"}
    BY <1>3, <1>6, <1>7 DEF RecordsInv, LogInv
  <2> QED BY <1>1, <2>2, <2>3 DEF RecordsInv, LogInv
<1>10. EnqueuedInv'
  <2>1. \A i, j \in 1..Len(enq') : enq'[i] = enq'[j] => i = j
    BY <1>5 DEF RecordsInv, EnqueuedInv
  <2>2. \A i \in 1..Len(enq') : rec'[enq'[i]].st # "none"
    BY <1>2, <1>3, <1>5 DEF RecordsInv, EnqueuedInv
  <2>3. \A d \in Calls : rec'[d].st # "none" => \E i \in 1..Len(enq') : enq'[i] = d
    <3>1. Len(enq) + 1 \in 1..Len(enq') /\ \A i \in 1..Len(enq) : i \in 1..Len(enq')
      BY <1>5
    <3> QED BY <1>3, <1>5, <3>1 DEF RecordsInv, EnqueuedInv
  <2>4. \A i \in 1..Len(enq') : rec'[enq'[i]].gen <= gen'
    BY <1>1, <1>2, <1>3, <1>5 DEF RecordsInv, EnqueuedInv, RecordTypes
  <2>5. \A i, j \in 1..Len(enq') : i < j => rec'[enq'[i]].gen <= rec'[enq'[j]].gen
    <3> SUFFICES ASSUME NEW i \in 1..Len(enq'), NEW j \in 1..Len(enq'), i < j
                 PROVE  rec'[enq'[i]].gen <= rec'[enq'[j]].gen
      OBVIOUS
    <3>1. i \in 1..Len(enq)
      BY <1>5
    <3>2. CASE j \in 1..Len(enq)
      BY <1>3, <1>5, <3>1, <3>2 DEF RecordsInv, EnqueuedInv
    <3>3. CASE j = Len(enq) + 1
      BY <1>2, <1>3, <1>5, <3>1, <3>3 DEF RecordsInv, EnqueuedInv
    <3> QED BY <1>5, <3>2, <3>3
  <2>6. ASSUME NEW i \in 1..Len(enq'), NEW j \in 1..Len(enq'), NEW m \in 1..Len(turns), NEW n \in 1..Len(turns),
               i < j, turns[m] = enq'[i], turns[n] = enq'[j]
        PROVE  m < n
    <3>1. i \in 1..Len(enq) /\ enq'[i] = enq[i] /\ enq[i] # c /\ enq[i] \in Calls
      BY <1>5, <2>6
    <3>2. CASE j \in 1..Len(enq)
      BY <1>5, <2>6, <3>1, <3>2 DEF RecordsInv, EnqueuedInv
    <3>3. CASE j = Len(enq) + 1
      <4>1. turns[n] = c /\ turns[m] # c /\ m # n
        BY <1>5, <2>6, <3>1, <3>3
      <4>2. TurnPassed(turns[m])
        BY <2>6, <3>1 DEF RecordsInv, EnqueuedInv, LineInv
      <4>3. c \notin passed
        BY <1>1 DEF LineInv, At
      <4>4. ~(n \in 1..(m - 1))
        BY <4>1, <4>2, <4>3, AllBeforePassed
      <4> QED BY <4>1, <4>4
    <3> QED BY <1>5, <3>2, <3>3
  <2>7. \A i, j \in 1..Len(enq'), m, n \in 1..Len(turns') :
          i < j /\ turns'[m] = enq'[i] /\ turns'[n] = enq'[j] => m < n
    BY <1>1, <2>6
  <2> QED BY <2>1, <2>2, <2>3, <2>4, <2>5, <2>7 DEF EnqueuedInv
<1> QED BY <1>4, <1>8, <1>9, <1>10 DEF RecordsInv

LEMMA RecordWritten ==
  ASSUME RecordTypes, RecordsInv, NEW c \in Calls, Write(c)
  PROVE  RecordTypes' /\ RecordsInv'
<1> DEFINE q == [rec[c] EXCEPT !.st = "sent", !.att = @ + 1]
<1>1. rec[c] \in RecordType /\ rec[c].att < 2 /\ rec[c].st \in {"buffered", "sent"} /\ RecordInv(c)
  BY DEF RecordTypes, RecordType, RecordsInv, Write
<1>2. /\ rec' = [rec EXCEPT ![c] = q] /\ UNCHANGED <<gen, enq, log, turns>>
  BY DEF Write, produceUnchanged, queueVars, RecordTypes
<1>3. q \in RecordType /\ q.gen = rec[c].gen /\ q.st = "sent" /\ q.att # 0
  <2>1. rec[c].att + 1 \in 0..2 /\ rec[c].att + 1 # 0 /\ "sent" \in RecStates
    BY <1>1 DEF RecordType, RecStates
  <2> QED BY <1>1, <2>1 DEF RecordType
<1>4. \A e \in Ahead(c) : rec[e].st # "buffered"
  BY DEF Write
<1> HIDE DEF q
<1>5. Becomes(c, q)
  BY <1>1, <1>3, <1>4 DEF Becomes
<1> QED BY <1>2, <1>3, <1>5, RecordChanges

LEMMA RecordPromised ==
  ASSUME RecordTypes, RecordsInv, NEW c \in Calls, Promise(c)
  PROVE  RecordTypes' /\ RecordsInv'
<1>1. rec[c] \in RecordType /\ rec[c].st \in {"buffered", "sent"} /\ RecordInv(c)
      /\ UNCHANGED <<gen, enq, log, turns>>
  BY DEF RecordTypes, RecordType, RecordsInv, Promise, produceUnchanged, queueVars
<1>2. rec[c].st = "sent" => rec[c].att \in 1..2 /\ \A e \in Ahead(c) : rec[e].st # "buffered"
  BY <1>1 DEF RecordInv, RecordType
<1>3. CASE rec[c].st = "sent" /\ InLog(c) /\ rec' = [rec EXCEPT ![c].st = "acked", ![c].att = 1]
  <2> DEFINE q == [rec[c] EXCEPT !.st = "acked", !.att = 1]
  <2>1. rec' = [rec EXCEPT ![c] = q] /\ q \in RecordType /\ q.gen = rec[c].gen /\ q.st = "acked" /\ q.att = 1
    <3>1. 1 \in 0..2 /\ "acked" \in RecStates
      BY DEF RecStates
    <3>2. q \in RecordType /\ q.gen = rec[c].gen /\ q.st = "acked" /\ q.att = 1
      BY <1>1, <3>1 DEF RecordType
    <3>3. rec' = [rec EXCEPT ![c] = q]
      BY <1>1, <1>3 DEF RecordTypes
    <3> QED BY <3>2, <3>3
  <2> HIDE DEF q
  <2>2. Becomes(c, q)
    BY <1>1, <1>2, <1>3, <2>1 DEF Becomes
  <2> QED BY <1>1, <2>1, <2>2, RecordChanges
<1>4. CASE rec[c].st = "sent" /\ (InLog(c) => rec[c].att = 2) /\ rec' = [rec EXCEPT ![c].st = "refused"]
  <2> DEFINE q == [rec[c] EXCEPT !.st = "refused"]
  <2>1. rec' = [rec EXCEPT ![c] = q] /\ q \in RecordType /\ q.gen = rec[c].gen /\ q.st = "refused" /\ q.att = rec[c].att
    BY <1>1, <1>4 DEF RecordType, RecStates, RecordTypes
  <2> HIDE DEF q
  <2>2. Becomes(c, q)
    BY <1>1, <1>2, <1>4, <2>1 DEF Becomes
  <2> QED BY <1>1, <2>1, <2>2, RecordChanges
<1>5. CASE rec[c].st = "sent" /\ rec' = [rec EXCEPT ![c].st = "lost", ![c].att = 1]
  <2> DEFINE q == [rec[c] EXCEPT !.st = "lost", !.att = 1]
  <2>1. rec' = [rec EXCEPT ![c] = q] /\ q \in RecordType /\ q.gen = rec[c].gen /\ q.st = "lost" /\ q.att = 1
    <3>1. 1 \in 0..2 /\ "lost" \in RecStates
      BY DEF RecStates
    <3>2. q \in RecordType /\ q.gen = rec[c].gen /\ q.st = "lost" /\ q.att = 1
      BY <1>1, <3>1 DEF RecordType
    <3>3. rec' = [rec EXCEPT ![c] = q]
      BY <1>1, <1>5 DEF RecordTypes
    <3> QED BY <3>2, <3>3
  <2> HIDE DEF q
  <2>2. Becomes(c, q)
    BY <1>1, <1>2, <1>5, <2>1 DEF Becomes
  <2> QED BY <1>1, <2>1, <2>2, RecordChanges
<1>6. CASE rec[c].st = "buffered" /\ rec' = [rec EXCEPT ![c].st = "failed"]
  <2> DEFINE q == [rec[c] EXCEPT !.st = "failed"]
  <2>1. rec' = [rec EXCEPT ![c] = q] /\ q \in RecordType /\ q.gen = rec[c].gen /\ q.st = "failed" /\ q.att = rec[c].att
    BY <1>1, <1>6 DEF RecordType, RecStates, RecordTypes
  <2>2. rec[c].att = 0 /\ ~InLog(c)
    BY <1>1, <1>6 DEF RecordInv
  <2> HIDE DEF q
  <2>3. Becomes(c, q)
    BY <1>1, <1>6, <2>1, <2>2 DEF Becomes
  <2> QED BY <1>1, <2>1, <2>3, RecordChanges
<1> QED BY <1>3, <1>4, <1>5, <1>6 DEF Promise

LEMMA RecordLands ==
  ASSUME RecordTypes, RecordsInv, NEW c \in Calls, Land(c)
  PROVE  RecordTypes' /\ RecordsInv'
<1>1. /\ ~InLog(c) /\ rec[c].st \in {"sent", "lost"}
      /\ \A e \in Ahead(c) : rec[e].st \in {"sent", "lost"} => InLog(e)
      /\ log' = Append(log, c) /\ gen' = gen /\ rec' = rec /\ enq' = enq /\ turns' = turns
  BY DEF Land, produceUnchanged, queueVars
<1>2. RecordTypes'
  BY <1>1 DEF RecordTypes
<1>3. /\ Len(log) \in Nat /\ Len(log') = Len(log) + 1 /\ log'[Len(log) + 1] = c
      /\ \A i \in 1..Len(log) : log'[i] = log[i] /\ log[i] \in Calls
      /\ \A i \in 1..Len(log') : i \in 1..Len(log) \/ i = Len(log) + 1
  BY <1>1 DEF RecordTypes
<1>4. \A d \in Calls : Ahead(d)' = Ahead(d) /\ Ahead(d) \subseteq Calls
  BY <1>1, AheadKept DEF Ahead
<1>5. \A d \in Calls : InLog(d)' <=> InLog(d) \/ d = c
  <2>1. DOMAIN log' = 1..Len(log')
    BY <1>2 DEF RecordTypes
  <2>2. \A d : InLog(d) <=> \E i \in 1..Len(log) : log[i] = d
    BY InLogIs
  <2>3. \A d \in Calls : InLog(d)' <=> \E i \in 1..Len(log') : log'[i] = d
    BY <2>1 DEF InLog, ToSet
  <2>4. Len(log) + 1 \in 1..Len(log') /\ \A i \in 1..Len(log) : i \in 1..Len(log')
    BY <1>3
  <2> QED BY <1>3, <2>2, <2>3, <2>4
<1>6. ASSUME NEW d \in Calls PROVE RecordInv(d)'
  <2>1. RecordInv(d)
    BY DEF RecordsInv
  <2> QED BY <1>1, <1>4, <1>5, <2>1 DEF RecordInv, RefusedOnce
<1>7. \A e \in Ahead(c) : ~InLog(e) => rec[e].st \in {"failed", "refused"}
  <2> SUFFICES ASSUME NEW e \in Ahead(c), ~InLog(e)
               PROVE  rec[e].st \in {"failed", "refused"}
    OBVIOUS
  <2>1. e \in Calls /\ rec[e].st # "none"
    <3>1. PICK i \in 1..Len(enq) : enq[i] = e
      BY DEF Ahead
    <3> QED BY <3>1 DEF Ahead, RecordsInv, EnqueuedInv
  <2>2. rec[e].st \notin {"sent", "lost"}
    BY <1>1
  <2>3. rec[e].st # "acked"
    BY <2>1 DEF RecordsInv, RecordInv
  <2>4. rec[e].st # "buffered"
    BY <1>1 DEF RecordsInv, RecordInv
  <2>5. rec[e].st \in RecStates
    BY <2>1 DEF RecordTypes
  <2> QED BY <2>1, <2>2, <2>3, <2>4, <2>5 DEF RecStates
<1>8. LogInv'
  <2>1. \A i \in 1..Len(log) : log[i] # c
    BY <1>1, InLogIs
  <2>2. \A i, j \in 1..Len(log') : log'[i] = log'[j] => i = j
    BY <1>3, <2>1 DEF RecordsInv, LogInv
  <2>3. ASSUME NEW i \in 1..Len(log'), NEW j \in 1..Len(log'), i < j
        PROVE  log'[j] \notin Ahead(log[i])'
    <3>1. i \in 1..Len(log) /\ log'[i] = log[i] /\ log[i] \in Calls
      BY <1>3, <2>3
    <3>2. PICK d \in Calls : d = log[i] /\ d = log'[i]
      BY <3>1
    <3>3. Ahead(d)' = Ahead(d)
      BY <1>4
    <3>4. CASE j \in 1..Len(log)
      BY <1>3, <2>3, <3>1, <3>2, <3>3, <3>4 DEF RecordsInv, LogInv
    <3>5. CASE j = Len(log) + 1
      <4>1. InLog(d)
        BY <3>1, <3>2, InLogIs
      <4>2. c \notin Ahead(d)
        BY <1>1, <4>1 DEF RecordsInv, LogInv
      <4> QED BY <1>3, <3>2, <3>3, <3>5, <4>2
    <3> QED BY <1>3, <3>4, <3>5
  <2>4. ASSUME NEW d \in Calls, NEW e \in Calls, InLog(d)', e \in Ahead(d)', ~(InLog(e)')
        PROVE  rec'[e].st \in {"failed", "refused"}
    BY <1>1, <1>4, <1>5, <1>7, <2>4 DEF RecordsInv, LogInv
  <2>5. (\A i, j \in 1..Len(log) : i < j => log[j] \notin Ahead(log[i]))'
    BY <2>3
  <2> QED BY <2>2, <2>4, <2>5 DEF LogInv
<1>9. EnqueuedInv'
  <2>1. EnqueuedInv /\ gen' = gen /\ rec' = rec /\ enq' = enq /\ turns' = turns
    BY <1>1 DEF RecordsInv
  <2>2. /\ \A i \in 1..Len(enq) : rec[enq[i]].gen <= gen'
        /\ \A i, j \in 1..Len(enq), m, n \in 1..Len(turns') :
             i < j /\ turns'[m] = enq[i] /\ turns'[n] = enq[j] => m < n
    BY <2>1 DEF EnqueuedInv
  <2> QED BY <2>1, <2>2, EnqueuedKept
<1> QED BY <1>2, <1>6, <1>8, <1>9 DEF RecordsInv

LEMMA ClientDropped ==
  ASSUME RecordTypes, RecordsInv, DropClient
  PROVE  RecordTypes' /\ RecordsInv'
<1>1. gen' = gen + 1 /\ rec' = rec /\ enq' = enq /\ log' = log /\ turns' = turns
  BY DEF DropClient, produceUnchanged, queueVars
<1>2. RecordTypes'
  BY <1>1 DEF RecordTypes
<1>3. \A d \in Calls : Ahead(d)' = Ahead(d) /\ (InLog(d)' <=> InLog(d))
  BY <1>1, AheadKept DEF InLog
<1>4. \A d \in Calls : RecordInv(d)'
  BY <1>1, <1>3 DEF RecordsInv, RecordInv, RefusedOnce
<1>5. \A i \in 1..Len(log) : log[i] \in Calls
  BY DEF RecordTypes
<1>6. LogInv'
  BY <1>1, <1>3, <1>5 DEF RecordsInv, LogInv
<1>7. ASSUME NEW i \in 1..Len(enq)
      PROVE  rec[enq[i]].gen <= gen + 1
  <2>1. enq[i] \in Calls
    BY DEF RecordTypes
  <2>2. rec[enq[i]].gen \in Nat /\ rec[enq[i]].gen <= gen
    BY <2>1 DEF RecordTypes, RecordsInv, EnqueuedInv
  <2> QED BY <2>2 DEF RecordTypes
<1>8. EnqueuedInv'
  <2>1. EnqueuedInv /\ rec' = rec /\ enq' = enq /\ turns' = turns
    BY <1>1 DEF RecordsInv
  <2>2. \A i \in 1..Len(enq) : rec[enq[i]].gen <= gen'
    BY <1>1, <1>7
  <2>3. \A i, j \in 1..Len(enq), m, n \in 1..Len(turns') :
          i < j /\ turns'[m] = enq[i] /\ turns'[n] = enq[j] => m < n
    BY <2>1 DEF EnqueuedInv
  <2> QED BY <2>1, <2>2, <2>3, EnqueuedKept
<1> QED BY <1>2, <1>4, <1>6, <1>8 DEF RecordsInv

LEMMA RecordsStep ==
  ASSUME IngressInv, [Next]_vars
  PROVE  RecordTypes' /\ RecordsInv'
<1> USE DEF IngressInv
<1>1. SubmitsInv /\ RecordsInv
  BY DEF SubmitsInv, RecordsInv
<1>2. ASSUME UNCHANGED produceVars, turns' = turns
      PROVE  RecordTypes' /\ RecordsInv'
  BY <1>1, <1>2, RecordsKept
<1>3. ASSUME NEW c \in Calls, Submit(c) \/ Await(c) \/ AwaitGivesUp(c) \/ Settle(c) \/ PlaceCloses(c)
      PROVE  UNCHANGED produceVars /\ turns' = turns
  BY <1>3 DEF Submit, Await, AwaitGivesUp, Settle, PlaceCloses, queueVars
<1>4. ASSUME NEW c \in Calls,
             QueuedGivesUp(c) \/ Reject(c) \/ RefuseRun(c) \/ Produced(c) \/ ProduceDeadline(c)
      PROVE  UNCHANGED produceVars /\ turns' = turns
  BY <1>4 DEF QueuedGivesUp, Reject, RefuseRun, Refused, Produced, ProduceDeadline, Leave, LeaveAfter
<1>5. ASSUME NEW c \in Calls, Enter(c)
      PROVE  RecordTypes' /\ RecordsInv'
  <2>1. rec[c].st = "none" /\ UNCHANGED produceVars
    BY <1>1, <1>5 DEF Enter, SubmitsInv, SubmitInv, At
  <2>2. turns' = turns \/ turns' = Append(turns, c)
    BY <1>5 DEF Enter, queueVars
  <2> QED BY <1>1, <2>1, <2>2, RecordsKept
<1>6. ASSUME NEW c \in Calls, Produce(c) \/ Write(c) \/ Promise(c) \/ Land(c)
      PROVE  RecordTypes' /\ RecordsInv'
  BY <1>1, <1>6, RecordEnqueued, RecordWritten, RecordPromised, RecordLands
<1>7. CASE DropClient
  BY <1>1, <1>7, ClientDropped
<1>8. CASE RefuseRestarting \/ WaitAdmitted \/ UNCHANGED vars
  BY <1>2, <1>8 DEF RefuseRestarting, WaitAdmitted, vars, queueVars
<1> QED BY <1>2, <1>3, <1>4, <1>5, <1>6, <1>7, <1>8 DEF Next, Proceeds

--------------------------------------------------------------------------------
(* A Submit that has returned is not touched again. *)
LEMMA DoneStays ==
  ASSUME IngressInv, [Next]_vars, NEW d \in Calls, At(d, "done")
  PROVE  call'[d] = call[d]
<1> USE DEF IngressInv
<1>1. ASSUME NEW c \in Calls,
             Submit(c) \/ Await(c) \/ AwaitGivesUp(c) \/ (Enter(c) /\ ~(pending < MaxPending))
      PROVE  call'[d] = call[d]
  BY <1>1, MovesOutside DEF At
<1>2. ASSUME NEW c \in Calls, ~At(c, "done"), (\E pc : Goes(c, pc)) \/ \E code, w : Answers(c, code, w)
      PROVE  call'[d] = call[d]
  BY <1>2, OnlyThisSubmit
<1>3. ASSUME NEW c \in Calls, Enter(c), pending < MaxPending
      PROVE  call'[d] = call[d]
  <2>1. At(c, "enter") /\ ~(pending >= MaxPending)
    BY <1>3, IngressAssumption DEF Enter, QueueTypes
  <2> QED BY <1>2, <1>3, <2>1 DEF Enter, At
<1>4. ASSUME NEW c \in Calls,
             QueuedGivesUp(c) \/ Reject(c) \/ RefuseRun(c) \/ Produced(c) \/ ProduceDeadline(c) \/ Produce(c)
      PROVE  call'[d] = call[d]
  <2>1. ~At(c, "done")
    BY <1>4 DEF QueuedGivesUp, Reject, RefuseRun, Runs, Produced, ProduceDeadline, Produce, At
  <2>2. (\E pc : Goes(c, pc)) \/ \E code, w : Answers(c, code, w)
    BY <1>4 DEF QueuedGivesUp, Reject, RefuseRun, Refused, Produced, ProduceDeadline, Produce
  <2> QED BY <1>2, <2>1, <2>2
<1>5. ASSUME NEW c \in Calls, Settle(c) \/ PlaceCloses(c) \/ Write(c) \/ Promise(c) \/ Land(c)
      PROVE  call' = call
  BY <1>5 DEF Settle, PlaceCloses, Write, Promise, Land, callVars, produceUnchanged
<1>6. CASE RefuseRestarting \/ WaitAdmitted \/ DropClient \/ UNCHANGED vars
  BY <1>6 DEF RefuseRestarting, WaitAdmitted, DropClient, callVars, produceUnchanged, vars
<1> QED BY <1>1, <1>3, <1>4, <1>5, <1>6 DEF Next, Proceeds

(* What is in the log was enqueued, and so has a place. *)
LEMMA LoggedHasPlace ==
  ASSUME IngressInv, NEW i \in 1..Len(log)
  PROVE  log[i] \in Calls /\ rec[log[i]].st # "none" /\ HasPlace(log[i]) /\ TurnPassed(log[i])
<1> USE DEF IngressInv
<1>1. log[i] \in Calls
  BY DEF RecordTypes
<1>2. InLog(log[i])
  BY InLogIs
<1>3. rec[log[i]].st # "none"
  BY <1>1, <1>2 DEF RecordInv
<1> QED BY <1>1, <1>3 DEF LineInv

LEMMA LateStep ==
  ASSUME IngressInv, [Next]_vars
  PROVE  LateInv'
<1> USE DEF IngressInv
<1>1. ASSUME log' = log,
             turns' = turns \/ \E c \in Calls : turns' = Append(turns, c) /\ rec[c].st = "none"
      PROVE  LateInv'
  <2> SUFFICES ASSUME NEW i \in 1..Len(log), NEW j \in 1..Len(log), NEW m \in 1..Len(turns'), NEW n \in 1..Len(turns'),
                      i < j, turns'[m] = log[i], turns'[n] = log[j], m > n
               PROVE  call'[log[j]].answer = "produce_deadline"
    BY <1>1 DEF LateInv
  <2>1. rec[log[i]].st # "none" /\ rec[log[j]].st # "none" /\ log[j] \in Calls
    BY LoggedHasPlace
  <2>2. m \in 1..Len(turns) /\ n \in 1..Len(turns) /\ turns[m] = log[i] /\ turns[n] = log[j]
    <3>1. CASE turns' = turns
      BY <3>1
    <3>2. ASSUME NEW c \in Calls, turns' = Append(turns, c), rec[c].st = "none"
          PROVE  m \in 1..Len(turns) /\ n \in 1..Len(turns) /\ turns[m] = log[i] /\ turns[n] = log[j]
      <4>1. \A k \in 1..Len(turns') : turns'[k] # c => k \in 1..Len(turns) /\ turns'[k] = turns[k]
        BY <3>2 DEF QueueTypes
      <4> QED BY <2>1, <3>2, <4>1
    <3> QED BY <1>1, <3>1, <3>2
  <2>3. call[log[j]].answer = "produce_deadline"
    BY <2>2 DEF LateInv
  <2>4. At(log[j], "done")
    BY <2>1, <2>3 DEF SubmitInv
  <2>5. call'[log[j]] = call[log[j]]
    BY <2>1, <2>4, DoneStays
  <2> QED BY <2>3, <2>5
<1>2. ASSUME NEW c \in Calls, Land(c)
      PROVE  LateInv'
  <2>1. /\ ~InLog(c) /\ rec[c].st \in {"sent", "lost"} /\ log' = Append(log, c)
        /\ turns' = turns /\ call' = call
    BY <1>2 DEF Land, produceUnchanged, queueVars, callVars
  <2>2. /\ Len(log) \in Nat /\ Len(log') = Len(log) + 1 /\ log'[Len(log) + 1] = c
        /\ \A i \in 1..Len(log) : log'[i] = log[i]
        /\ \A i \in 1..Len(log') : i \in 1..Len(log) \/ i = Len(log) + 1
    BY <2>1 DEF RecordTypes
  <2> SUFFICES ASSUME NEW i \in 1..Len(log'), NEW j \in 1..Len(log'), NEW m \in 1..Len(turns), NEW n \in 1..Len(turns),
                      i < j, turns[m] = log'[i], turns[n] = log'[j], m > n
               PROVE  call[log'[j]].answer = "produce_deadline"
    BY <2>1 DEF LateInv
  <2>3. i \in 1..Len(log) /\ log'[i] = log[i]
    BY <2>2
  <2>4. CASE j \in 1..Len(log)
    BY <2>2, <2>3, <2>4 DEF LateInv
  <2>5. CASE j = Len(log) + 1
    <3>1. turns[n] = c /\ TurnPassed(turns[m])
      BY <2>2, <2>3, <2>5, LoggedHasPlace
    <3>2. n \in 1..(m - 1)
      OBVIOUS
    <3>3. c \in passed
      BY <3>1, <3>2, AllBeforePassed
    <3>4. At(c, "done")
      BY <3>3 DEF LineInv
    <3>5. call[c].answer = "produce_deadline"
      BY <2>1, <3>4 DEF AnswerInv, RefusedOnce
    <3> QED BY <2>2, <2>5, <3>5
  <2> QED BY <2>2, <2>4, <2>5
<1>3. ASSUME NEW c \in Calls, Submit(c) \/ Await(c) \/ AwaitGivesUp(c) \/ Settle(c) \/ PlaceCloses(c)
      PROVE  log' = log /\ turns' = turns
  BY <1>3 DEF Submit, Await, AwaitGivesUp, Settle, PlaceCloses, queueVars, produceVars
<1>4. ASSUME NEW c \in Calls,
             QueuedGivesUp(c) \/ Reject(c) \/ RefuseRun(c) \/ Produced(c) \/ ProduceDeadline(c)
      PROVE  log' = log /\ turns' = turns
  BY <1>4 DEF QueuedGivesUp, Reject, RefuseRun, Refused, Produced, ProduceDeadline, Leave, LeaveAfter, produceVars
<1>5. ASSUME NEW c \in Calls, Enter(c)
      PROVE  LateInv'
  <2>1. rec[c].st = "none" /\ log' = log
    BY <1>5 DEF Enter, SubmitInv, At, produceVars
  <2>2. turns' = turns \/ turns' = Append(turns, c)
    BY <1>5 DEF Enter, queueVars
  <2> QED BY <1>1, <2>1, <2>2
<1>6. ASSUME NEW c \in Calls, Produce(c) \/ Write(c) \/ Promise(c)
      PROVE  log' = log /\ turns' = turns
  BY <1>6 DEF Produce, Write, Promise, produceUnchanged, queueVars
<1>7. CASE RefuseRestarting \/ WaitAdmitted \/ DropClient \/ UNCHANGED vars
  BY <1>1, <1>7 DEF RefuseRestarting, WaitAdmitted, DropClient, vars, queueVars, produceVars, produceUnchanged
<1> QED BY <1>1, <1>2, <1>3, <1>4, <1>5, <1>6, <1>7 DEF Next, Proceeds

--------------------------------------------------------------------------------
(* Once pre-stop was told that everybody returned, a Submit can only arrive   *)
(* and be refused.                                                             *)
LEMMA DrainedStep ==
  ASSUME IngressInv, [Next]_vars, drained
  PROVE  enq' = enq /\ Admitted' = {} /\ restarting'
<1> USE DEF IngressInv
<1>1. restarting /\ \A c \in Calls : call[c].pc \in {"idle", "done"}
  BY DEF DrainInv, Admitted
<1>2. ASSUME enq' = enq, call' = call, restarting' = restarting
      PROVE  enq' = enq /\ Admitted' = {} /\ restarting'
  BY <1>1, <1>2 DEF Admitted
<1>3. ASSUME NEW c \in Calls, Submit(c)
      PROVE  enq' = enq /\ Admitted' = {} /\ restarting'
  <2>1. Answers(c, "refused", 0) /\ enq' = enq /\ restarting' = restarting
    BY <1>1, <1>3, Zenon DEF Submit, produceVars, lifeVars
  <2>2. call'[c].pc = "done" /\ \A d \in Calls : d # c => call'[d] = call[d]
    BY <2>1, OnlyThisSubmit
  <2>3. Admitted' = {}
    BY <1>1, <2>2 DEF Admitted
  <2> QED BY <1>1, <2>1, <2>3
<1>4. ASSUME NEW c \in Calls
      PROVE  ~(Await(c) \/ AwaitGivesUp(c) \/ Enter(c) \/ QueuedGivesUp(c) \/ Reject(c) \/ RefuseRun(c)
               \/ Produce(c) \/ Produced(c) \/ ProduceDeadline(c))
  BY <1>1
  DEF Await, AwaitGivesUp, Enter, QueuedGivesUp, Reject, RefuseRun, Runs, Produce, Produced, ProduceDeadline, At
<1>5. ASSUME NEW c \in Calls, Settle(c) \/ PlaceCloses(c) \/ Write(c) \/ Promise(c) \/ Land(c)
      PROVE  enq' = enq /\ call' = call /\ restarting' = restarting
  BY <1>5 DEF Settle, PlaceCloses, Write, Promise, Land, callVars, lifeVars, produceVars, produceUnchanged
<1>6. CASE RefuseRestarting
  <2>1. enq' = enq /\ call' = call /\ restarting'
    BY <1>6 DEF RefuseRestarting, callVars, produceVars
  <2> QED BY <1>1, <2>1 DEF Admitted
<1>7. CASE WaitAdmitted \/ DropClient \/ UNCHANGED vars
  <2>1. enq' = enq /\ call' = call /\ restarting' = restarting
    BY <1>7 DEF WaitAdmitted, DropClient, callVars, lifeVars, produceVars, produceUnchanged, vars
  <2> QED BY <1>2, <2>1
<1> QED BY <1>2, <1>3, <1>4, <1>5, <1>6, <1>7 DEF Next, Proceeds

LEMMA DrainStep ==
  ASSUME IngressInv, [Next]_vars
  PROVE  DrainInv'
<1>1. CASE drained
  BY <1>1, DrainedStep DEF DrainInv
<1>2. CASE ~drained
  <2>1. CASE WaitAdmitted
    BY <2>1, Zenon DEF WaitAdmitted, DrainInv, Admitted, callVars
  <2>2. CASE ~WaitAdmitted
    <3>1. drained' = drained
      <4>1. ASSUME NEW c \in Calls,
                   Submit(c) \/ Await(c) \/ AwaitGivesUp(c) \/ Enter(c) \/ QueuedGivesUp(c) \/ Reject(c)
                   \/ RefuseRun(c) \/ Produce(c) \/ Produced(c) \/ ProduceDeadline(c)
            PROVE  drained' = drained
        BY <4>1, Zenon
        DEF Submit, Await, AwaitGivesUp, Enter, QueuedGivesUp, Reject, RefuseRun, Refused, Produce,
            Produced, ProduceDeadline, lifeVars
      <4>2. ASSUME NEW c \in Calls, Settle(c) \/ PlaceCloses(c) \/ Write(c) \/ Promise(c) \/ Land(c)
            PROVE  drained' = drained
        BY <4>2, Zenon DEF Settle, PlaceCloses, Write, Promise, Land, lifeVars, produceUnchanged
      <4>3. CASE RefuseRestarting \/ DropClient \/ UNCHANGED vars
        BY <4>3, Zenon DEF RefuseRestarting, DropClient, produceUnchanged, lifeVars, vars
      <4> QED BY <2>2, <4>1, <4>2, <4>3 DEF Next, Proceeds
    <3> QED BY <1>2, <3>1, Zenon DEF DrainInv
  <2> QED BY <2>1, <2>2
<1> QED BY <1>1, <1>2

--------------------------------------------------------------------------------
LEMMA InitInv == Init => IngressInv
<1> SUFFICES ASSUME Init PROVE IngressInv
  OBVIOUS
<1>1. /\ call = [c \in Calls |-> Idle] /\ keys = {} /\ entry = [c \in Calls |-> "none"] /\ released = {}
      /\ prev = [c \in Calls |-> 0] /\ tail = 0 /\ passed = {} /\ leaving = {} /\ pending = 0
      /\ turns = <<>> /\ gen = 0
      /\ rec = [c \in Calls |-> NoRecord] /\ enq = <<>> /\ log = <<>>
  BY DEF Init
<1>2. /\ \A c \in Calls : call[c] = Idle /\ entry[c] = "none" /\ rec[c] = NoRecord
      /\ Len(turns) = 0 /\ Len(enq) = 0 /\ Len(log) = 0
      /\ \A n \in 1..0 : FALSE
  BY <1>1
<1>3. /\ Idle.pc = "idle" /\ Idle.ref = NoRef /\ Idle.answer = "none" /\ Idle.waits = 0
      /\ NoRecord.st = "none" /\ NoRecord.att = 0
  BY DEF Idle, NoRecord
<1>4. SubmitTypes
  <2>1. Idle \in CallTypes /\ "none" \in Entries
    BY IngressAssumption DEF Idle, CallTypes, Pcs, Raws, Codes, NoRef, Entries
  <2> QED BY <1>1, <2>1 DEF SubmitTypes
<1>5. QueueTypes
  BY <1>1, IngressAssumption DEF QueueTypes
<1>6. RecordTypes
  <2>1. NoRecord \in [st : RecStates, att : 0..2, gen : Nat]
    BY DEF NoRecord, RecStates
  <2> QED BY <1>1, <2>1 DEF RecordTypes
<1>7. \A c \in Calls : ~InLog(c) /\ Ahead(c) = {}
  <2>1. \A c : ~InLog(c)
    BY <1>2, <1>6, InLogIs
  <2> QED BY <1>2, <2>1 DEF Ahead
<1>8. \A c \in Calls : SubmitInv(c) /\ EntryInv(c) /\ AnswerInv(c)
  BY <1>2, <1>3 DEF SubmitInv, EntryInv, AnswerInv, At, HasKey, Kept
<1>9. \A c \in Calls : RecordInv(c)
  BY <1>2, <1>3, <1>7 DEF RecordInv, RefusedOnce
<1>10. KeyInv
  <2>1. Cardinality(keys) = 0
    BY <1>1, FS_EmptySet
  <2> QED BY <1>1, <1>2, <2>1, IngressAssumption DEF KeyInv, Kept
<1>11. LineInv
  BY <1>1, <1>2, <1>3 DEF LineInv, HasPlace, At
<1>12. PendingInv
  <2>1. InQueue = {}
    BY <1>2, <1>3 DEF InQueue
  <2>2. Cardinality({}) = 0
    BY FS_EmptySet
  <2> QED BY <1>1, <2>1, <2>2, IngressAssumption DEF PendingInv
<1>13. EnqueuedInv /\ LogInv /\ LateInv
  BY <1>2, <1>3, <1>7 DEF EnqueuedInv, LogInv, LateInv
<1>14. DrainInv
  BY Zenon DEF Init, DrainInv
<1> QED BY <1>4, <1>5, <1>6, <1>8, <1>9, <1>10, <1>11, <1>12, <1>13, <1>14 DEF IngressInv

LEMMA NextInv == IngressInv /\ [Next]_vars => IngressInv'
<1> SUFFICES ASSUME IngressInv, [Next]_vars PROVE IngressInv'
  OBVIOUS
<1>1. SubmitTypes' /\ SubmitsInv' /\ KeyInv'
  BY SubmitsStep, KeysStep
<1>2. QueueTypes' /\ LineInv' /\ PendingInv'
  BY QueueStep
<1>3. RecordTypes' /\ RecordsInv'
  BY RecordsStep
<1>4. LateInv' /\ DrainInv'
  BY LateStep, DrainStep
<1> QED BY <1>1, <1>2, <1>3, <1>4 DEF IngressInv, SubmitsInv, RecordsInv

(* A Session's Submits, keys, queue, records and log always fit together as   *)
(* IngressInv says.                                                           *)
THEOREM SessionInvariant == Spec => []IngressInv
BY InitInv, NextInv, PTL DEF Spec

(* Type correctness, the limit of ingress.max_pending on Submits and keys, and *)
(* no transient outcome in the table.                                          *)
THEOREM SessionTypes == Spec => []TypeOK
<1>1. IngressInv => TypeOK
  <2> SUFFICES ASSUME IngressInv PROVE TypeOK
    OBVIOUS
  <2> USE DEF IngressInv
  <2>1. ASSUME NEW c \in Calls
        PROVE  /\ call[c].pc \in {"idle", "await", "enter", "queued", "wait", "done"}
               /\ call[c].ref \in 0..MaxCalls /\ call[c].raw \in Raws
               /\ call[c].answer \in Codes /\ entry[c] \in Entries /\ prev[c] \in 0..MaxCalls
               /\ rec[c].st \in {"none", "buffered", "sent", "acked", "failed", "lost", "refused"}
    BY DEF SubmitTypes, CallTypes, Pcs, QueueTypes, RecordTypes, RecStates
  <2>2. pending \in 0..MaxPending
    BY IngressAssumption DEF QueueTypes, PendingInv
  <2>3. Cardinality(keys) <= MaxPending /\ \A e \in keys : entry[e] \in Kept \cup {"open"}
    BY DEF KeyInv
  <2> QED BY <2>1, <2>2, <2>3 DEF TypeOK, QueueTypes
<1> QED BY <1>1, SessionInvariant, PTL

(* A client_ref is one Command, unless a key was given up. *)
THEOREM OneCommandPerRef == Spec => []LoggedOnce
<1>1. IngressInv => LoggedOnce
  <2> SUFFICES ASSUME IngressInv, NEW i \in 1..Len(log), NEW j \in 1..Len(log), i < j,
                      HasKey(log[i]), call[log[i]].ref = call[log[j]].ref
               PROVE  log[i] \in released \/ log[j] \in released
    BY DEF LoggedOnce
  <2> USE DEF IngressInv
  <2>1. ASSUME NEW k \in 1..Len(log), HasKey(log[k])
        PROVE  log[k] \in keys \/ log[k] \in released
    <3>1. log[k] \in Calls /\ rec[log[k]].st # "none" /\ InLog(log[k])
      BY LoggedHasPlace, InLogIs
    <3>2. entry[log[k]] \in Entries /\ entry[log[k]] # "none" /\ entry[log[k]] # "transient"
      BY <2>1, <3>1 DEF SubmitTypes, EntryInv, Unwritten, RecordInv
    <3> QED BY <3>1, <3>2 DEF KeyInv, Entries, Kept
  <2>2. HasKey(log[j]) /\ log[i] # log[j]
    BY DEF HasKey, LogInv
  <2> QED BY <2>1, <2>2 DEF KeyInv
<1> QED BY <1>1, SessionInvariant, PTL

(* Every answer is true of the log, when it is given and ever after. *)
THEOREM TrueAnswers == Spec => []AnswersTruthful
<1>1. IngressInv => AnswersTruthful
  <2> SUFFICES ASSUME IngressInv, NEW c \in Calls
               PROVE  /\ call[c].answer = "accepted" => InLog(call[c].waits)
                      /\ call[c].answer \in {"refused", "rejected"} => ~InLog(c)
                      /\ call[c].answer = "rejected" /\ call[c].waits # 0 => ~InLog(call[c].waits)
    BY DEF AnswersTruthful
  <2>1. AnswerInv(c) /\ RecordInv(c) /\ \A d \in Calls : RecordInv(d) /\ EntryInv(d)
    BY DEF IngressInv
  <2>2. \A d \in Calls : /\ rec[d].st = "none" => ~InLog(d)
                         /\ rec[d].st = "acked" => InLog(d)
                         /\ RefusedOnce(d) => ~InLog(d)
                         /\ entry[d] = "rejected" => rec[d].st = "none"
    BY <2>1 DEF RecordInv, EntryInv
  <2> QED BY <2>1, <2>2 DEF AnswerInv
<1> QED BY <1>1, SessionInvariant, PTL

(* The log keeps the order of the line, but for late records of dropped       *)
(* clients, whose Submits were told that their outcome was not known.         *)
THEOREM LogInOrder == Spec => []InOrder
<1>1. IngressInv => InOrder
  <2> SUFFICES ASSUME IngressInv, NEW i \in 1..Len(log), NEW j \in 1..Len(log), i < j,
                      PlaceOf(log[i]) > PlaceOf(log[j])
               PROVE  /\ rec[log[j]].gen < rec[log[i]].gen
                      /\ call[log[j]].answer = "produce_deadline"
    BY DEF InOrder
  <2> USE DEF IngressInv
  <2>1. ASSUME NEW k \in 1..Len(log)
        PROVE  /\ PlaceOf(log[k]) \in 1..Len(turns) /\ turns[PlaceOf(log[k])] = log[k]
               /\ log[k] \in Calls /\ \E e \in 1..Len(enq) : enq[e] = log[k]
    BY LoggedHasPlace DEF HasPlace, PlaceOf, EnqueuedInv
  <2>2. call[log[j]].answer = "produce_deadline"
    BY <2>1 DEF LateInv
  <2>3. PICK a \in 1..Len(enq), b \in 1..Len(enq) : enq[a] = log[i] /\ enq[b] = log[j]
    BY <2>1
  <2>4. log[i] # log[j]
    BY DEF LogInv
  <2>5. ~(a < b)
    <3>1. ASSUME a < b PROVE FALSE
      <4>1. PlaceOf(log[i]) < PlaceOf(log[j])
        <5>1. PICK m, n \in 1..Len(turns) :
                m = PlaceOf(log[i]) /\ n = PlaceOf(log[j]) /\ turns[m] = enq[a] /\ turns[n] = enq[b]
          BY <2>1, <2>3
        <5>2. m < n
          BY <3>1, <5>1 DEF EnqueuedInv
        <5> QED BY <5>1, <5>2
      <4>2. PlaceOf(log[i]) \in Nat /\ PlaceOf(log[j]) \in Nat
        BY <2>1
      <4> QED BY <4>1, <4>2
    <3> QED BY <3>1
  <2>6. b < a
    BY <2>3, <2>4, <2>5
  <2>7. rec[log[j]].gen <= rec[log[i]].gen
    BY <2>3, <2>6 DEF EnqueuedInv
  <2>8. log[j] \notin Ahead(log[i])
    BY DEF LogInv
  <2>9. rec[log[j]].gen # rec[log[i]].gen
    BY <2>1, <2>3, <2>6, <2>8 DEF Ahead
  <2>10. rec[log[j]].gen \in Nat /\ rec[log[i]].gen \in Nat
    BY <2>1 DEF RecordTypes
  <2> QED BY <2>2, <2>7, <2>9, <2>10
<1> QED BY <1>1, SessionInvariant, PTL

(* No key is left open by a Submit that returned without leaving a record to  *)
(* settle.                                                                    *)
THEOREM OpenKeysOwned == Spec => []OpenIsOwned
<1>1. IngressInv => OpenIsOwned
  BY DEF IngressInv, EntryInv, OpenIsOwned, At
<1> QED BY <1>1, SessionInvariant, PTL

(* Once pre-stop was told that the admitted Submits returned, no record enters *)
(* a client.                                                                   *)
THEOREM QuietOnceDrained == Spec => DrainedIsQuiet
<1>1. IngressInv /\ [Next]_vars => [drained => enq' = enq]_vars
  BY DrainedStep
<1> QED BY <1>1, SessionInvariant, PTL DEF Spec, DrainedIsQuiet

================================================================================
