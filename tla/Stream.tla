-------------------------------- MODULE Stream --------------------------------
(******************************************************************************)
(* The Event stream, from the tick to the player: the hub's fan-out           *)
(* (server/events/hub.go), a Session's egress with its retained history       *)
(* (server/egress), and a client that reopens its stream from the last Event  *)
(* it saw (admin/cli/play.go).                                                *)
(*                                                                            *)
(* One player and the Events in its sight, numbered as they are emitted; each *)
(* is a tick of its own.  A subscription is a perception: rebinding the       *)
(* Session to another Room or Character makes a new one.  An egress session   *)
(* object outlives its Session when it is parked for a reconnect.             *)
(******************************************************************************)
EXTENDS Integers, Sequences, FiniteSets

CONSTANTS
  MaxEvents,    \* bound: Events emitted
  MaxSubs,      \* bound: hub subscriptions made
  MaxObjs,      \* bound: egress session objects made
  Inbound,      \* capacity of the hub's inbound queue
  HubBuffer,    \* events.Options.Buffer
  StreamBuffer, \* egress.Options.Buffer
  Window        \* egress.Options.ResumeWindow

ASSUME StreamAssumption ==
  /\ {MaxEvents, MaxSubs, MaxObjs} \subseteq Nat
  /\ {Inbound, HubBuffer, StreamBuffer} \subseteq Nat \ {0}
  /\ Window \in Nat /\ Window >= StreamBuffer

VARIABLES
  emitted,   \* how many Events the tick published
  inbound,   \* Hub.in
  subs,      \* the subscriptions: [start, ch, st]
  given,     \* the Events each subscription was handed
  objs,      \* the egress session objects: `had' is every subscription of one,
             \* `next' one made and not yet its own, `old' one to unsubscribe
  table,     \* Egress.sessions of the client's Session: an object, or 0
  parked,    \* Egress.parked of the Character: an object, or 0
  strm,      \* the open stream: [obj, cursor, ended], obj 0 for none
  client,    \* the player: [pc, last]
  got,       \* the Event frame it received last, 0 since a fresh start
  arrival    \* how that frame followed the one before: [from, resumed, own]

streamVars == <<emitted, inbound, subs, given, objs, table, parked, strm, client, got, arrival>>
hubVars == <<emitted, inbound, given>>
clientVars == <<client, got, arrival>>

Frame(id, sub) == [id |-> id, sub |-> sub]
NoFrame == Frame(0, 0)
Dropped0 == 0   \* SubscriberDropped: a lifecycle frame has Event ID 0
NoStream == [obj |-> 0, cursor |-> 0, ended |-> FALSE]
NewHistory == [start |-> 0, frames |-> <<>>, evicted |-> 0, newest |-> 0, floor |-> 0]
NoObj == [sub |-> 0, next |-> 0, old |-> 0, hist |-> NewHistory,
          hubEnded |-> FALSE, closing |-> FALSE, had |-> {}]

StreamInit ==
  /\ emitted = 0 /\ inbound = <<>> /\ subs = <<>> /\ given = <<>> /\ objs = <<>>
  /\ table = 0 /\ parked = 0 /\ strm = NoStream
  /\ client = [pc |-> "away", last |-> 0] /\ got = NoFrame
  /\ arrival = [from |-> NoFrame, resumed |-> FALSE, own |-> TRUE]

(* -------------------------------- the hub -------------------------------- *)

(* Publish never blocks: an Event the queue has no room for reaches nobody. *)
Publish ==
  /\ emitted < MaxEvents /\ emitted' = emitted + 1
  /\ inbound' = IF Len(inbound) < Inbound THEN Append(inbound, emitted + 1) ELSE inbound
  /\ UNCHANGED <<subs, given, objs, table, parked, strm, clientVars>>

(* push and, on a full channel, finish: the last place is the drop frame's. *)
Push(sub, e) ==
  IF Len(sub.ch) >= HubBuffer
    THEN [sub EXCEPT !.st = "dropped", !.ch = Append(@, Dropped0)]
    ELSE [sub EXCEPT !.ch = Append(@, e)]

Handed(k, e) == subs[k].st = "on" /\ e >= subs[k].start

(* deliver, of one Event. *)
Deliver ==
  /\ inbound # <<>> /\ inbound' = Tail(inbound)
  /\ LET e == Head(inbound) IN
     /\ subs' = [k \in DOMAIN subs |-> IF Handed(k, e) THEN Push(subs[k], e) ELSE subs[k]]
     /\ given' = [k \in DOMAIN given |->
          IF Handed(k, e) /\ subs'[k].st = "on" THEN given[k] \cup {e} ELSE given[k]]
  /\ UNCHANGED <<emitted, objs, table, parked, strm, clientVars>>

(* Unsubscribe: the channel is closed; what it holds can still be read. *)
Unsubscribed(k) == IF k = 0 \/ subs[k].st # "on" THEN subs ELSE [subs EXCEPT ![k].st = "left"]

(* ------------------------------- the history ----------------------------- *)

End(h) == h.start + Len(h.frames)

AppendFrame(h, f) ==
  LET full == Len(h.frames) = Window
      old == Head(h.frames) IN
  [h EXCEPT
    !.start = IF full THEN @ + 1 ELSE @,
    !.evicted = IF full /\ old.id # 0 THEN old.id ELSE @,
    !.frames = Append(IF full THEN Tail(@) ELSE @, f),
    !.newest = IF f.id # 0 THEN f.id ELSE @]

Highest(S) == CHOOSE x \in S : \A y \in S : x >= y

Reset(h) ==
  [start |-> End(h), frames |-> <<>>, evicted |-> 0, newest |-> 0,
   floor |-> Highest({h.floor, h.newest, h.evicted})]

(* Mutant: the Event the client saw last is sent again. *)
ResumeAtLast(h, last) ==
  LET after == {q \in h.start..(End(h) - 1) : h.frames[q - h.start + 1].id >= last} IN
  IF last = 0 THEN [seq |-> End(h), resync |-> FALSE]
  ELSE IF last <= h.floor \/ last > h.newest \/ last < h.evicted
    THEN [seq |-> End(h), resync |-> TRUE]
  ELSE [seq |-> IF after = {} THEN End(h) ELSE -Highest({-q : q \in after}), resync |-> FALSE]

(* Where a stream that last saw Event last continues. *)
Resume(h, last) ==
  LET after == {q \in h.start..(End(h) - 1) : h.frames[q - h.start + 1].id > last} IN
  IF last = 0 THEN [seq |-> End(h), resync |-> FALSE]
  ELSE IF last <= h.floor \/ last > h.newest \/ last < h.evicted
    THEN [seq |-> End(h), resync |-> TRUE]
  ELSE [seq |-> IF after = {} THEN End(h) ELSE -Highest({-q : q \in after}), resync |-> FALSE]

(* ------------------------------- the egress ------------------------------ *)

(* resubscribe, under s.rebind, is three sections; between them Events reach   *)
(* the subscription it makes and the one it replaces.                         *)
Rebinding(o) == objs[o].next # 0 \/ objs[o].old # 0
RebindFree == table # 0 => ~Rebinding(table)

(* Hub.Subscribe of the new perception, the audit write of a privileged one included. *)
NewObserver(o, obj) ==
  LET k == Len(subs) + 1 IN
  /\ k <= MaxSubs
  /\ subs' = Append(subs, [start |-> emitted + 1, ch |-> <<>>, st |-> "on"])
  /\ given' = Append(given, {})
  /\ objs' = [i \in (DOMAIN objs) \cup {o} |-> IF i = o THEN [obj EXCEPT !.next = k] ELSE objs[i]]

(* The open stream resumed, and has sent no Event since. *)
Joining == arrival.resumed /\ arrival.from = NoFrame

(* Under s.mu: the new subscription is the object's, its history begins again, *)
(* and the open stream continues at its end.                                   *)
Swap(o) ==
  LET obj == objs[o] IN
  /\ obj.next # 0
  /\ objs' = [objs EXCEPT ![o] =
       [obj EXCEPT !.sub = obj.next, !.next = 0, !.old = obj.sub, !.had = @ \cup {obj.next},
                   !.hist = Reset(@), !.hubEnded = FALSE]]
  /\ strm' = IF strm.obj = o THEN [strm EXCEPT !.cursor = End(obj.hist)] ELSE strm
  /\ arrival' = IF strm.obj = o /\ Joining THEN [arrival EXCEPT !.resumed = FALSE] ELSE arrival
  /\ UNCHANGED <<hubVars, subs, table, parked, client, got>>

(* Hub.Unsubscribe of the replaced one; the new one's pump runs from here on. *)
LetGo(o) ==
  /\ objs[o].old # 0
  /\ objs' = [objs EXCEPT ![o].old = 0] /\ subs' = Unsubscribed(objs[o].old)
  /\ UNCHANGED <<hubVars, table, parked, strm, clientVars>>

(* Rebind: the Session's Character settled elsewhere, or it drives another. *)
Rebind ==
  /\ table # 0 /\ ~objs[table].closing /\ objs[table].sub # 0 /\ RebindFree
  /\ NewObserver(table, objs[table])
  /\ UNCHANGED <<emitted, inbound, table, parked, strm, clientVars>>

(* The backlog of the open stream is more than the buffer. *)
Overrun(o, h) == strm.obj = o /\ ~strm.ended /\ End(h) - strm.cursor > StreamBuffer

(* pump: the subscription's next frame is retained; a client too far behind is cut off. *)
Pump(o) ==
  LET k == objs[o].sub IN
  /\ k # 0 /\ objs[o].old = 0 /\ subs[k].ch # <<>>
  /\ subs' = [subs EXCEPT ![k].ch = Tail(@)]
  /\ LET h == AppendFrame(objs[o].hist, Frame(Head(subs[k].ch), k)) IN
     /\ objs' = [objs EXCEPT ![o].hist = h]
     /\ strm' = IF Overrun(o, h) THEN [strm EXCEPT !.ended = TRUE] ELSE strm
  /\ UNCHANGED <<hubVars, table, parked, clientVars>>

(* The subscription's channel is closed and read. *)
PumpEnds(o) ==
  LET k == objs[o].sub IN
  /\ k # 0 /\ objs[o].old = 0 /\ subs[k].st # "on" /\ subs[k].ch = <<>> /\ ~objs[o].hubEnded
  /\ objs' = [objs EXCEPT ![o].hubEnded = TRUE]
  /\ UNCHANGED <<hubVars, subs, table, parked, strm, clientVars>>

Closed(o) == [objs EXCEPT ![o].closing = TRUE]

(* -------------------------------- the client ----------------------------- *)

(* OpenSession and SelectCharacter: a Session the egress has nothing for yet. *)
Connect ==
  /\ client.pc = "away" /\ client' = [client EXCEPT !.pc = "opened"]
  /\ UNCHANGED <<hubVars, subs, objs, table, parked, strm, got, arrival>>

(* Subscribe, Egress.session: the object of the Session, a parked one adopted  *)
(* whole, or a new one.                                                        *)
Subscribe ==
  /\ client.pc = "opened" /\ RebindFree
  /\ \/ /\ table # 0 /\ ~objs[table].hubEnded
        /\ client' = [client EXCEPT !.pc = "subscribed"]
        /\ UNCHANGED <<subs, given, objs, table, parked>>
     \/ /\ table # 0 /\ objs[table].hubEnded
        /\ client' = [client EXCEPT !.pc = "subscribing"]
        /\ NewObserver(table, objs[table]) /\ UNCHANGED <<table, parked>>
     \/ /\ table = 0 /\ parked # 0
        /\ client' = [client EXCEPT !.pc = "subscribed"]
        /\ table' = parked /\ parked' = 0 /\ UNCHANGED <<subs, given, objs>>
     \/ /\ table = 0 /\ parked = 0 /\ Len(objs) < MaxObjs
        /\ client' = [client EXCEPT !.pc = "subscribing"]
        /\ table' = Len(objs) + 1
        /\ NewObserver(table', NoObj) /\ UNCHANGED parked
  /\ UNCHANGED <<emitted, inbound, strm, got, arrival>>

(* Egress.session returns: its own resubscribe is done. *)
Resubscribed ==
  /\ client.pc = "subscribing" /\ RebindFree
  /\ client' = [client EXCEPT !.pc = "subscribed"]
  /\ UNCHANGED <<hubVars, subs, objs, table, parked, strm, got, arrival>>

(* attach: the stream opens where the history says, with a Resync if it must. *)
Attach ==
  /\ client.pc = "subscribed"
  /\ LET obj == objs[table]
         at == Resume(obj.hist, client.last) IN
     \/ /\ obj.hubEnded /\ client' = [client EXCEPT !.pc = "opened"]
        /\ UNCHANGED <<strm, got, arrival>>
     \/ /\ ~obj.hubEnded /\ client' = [client EXCEPT !.pc = "attached"]
        /\ strm' = [obj |-> table, cursor |-> at.seq, ended |-> FALSE]
        /\ got' = IF at.resync \/ client.last = 0 THEN NoFrame ELSE got
        /\ arrival' = [from |-> NoFrame, resumed |-> got' # NoFrame, own |-> got'.sub \in obj.had]
  /\ UNCHANGED <<hubVars, subs, objs, table, parked>>

(* stream.run: the next frame is taken and reaches the client. *)
SendFrame ==
  /\ strm.obj # 0 /\ ~strm.ended
  /\ LET h == objs[strm.obj].hist IN
     /\ strm.cursor < End(h)
     /\ LET f == h.frames[strm.cursor - h.start + 1] IN
        IF f.id = 0 THEN UNCHANGED clientVars
        ELSE /\ client' = [client EXCEPT !.last = f.id] /\ got' = f
             /\ arrival' = IF Joining THEN [arrival EXCEPT !.from = got]
                           ELSE [from |-> got, resumed |-> FALSE, own |-> TRUE]
  /\ strm' = [strm EXCEPT !.cursor = @ + 1]
  /\ UNCHANGED <<hubVars, subs, objs, table, parked>>

(* The stream ends: cut off, the hub's end, or a Send that fails.  The Session stays. *)
StreamEnds ==
  /\ strm.obj # 0 /\ strm' = NoStream
  /\ client' = [client EXCEPT !.pc = "opened"]
  /\ UNCHANGED <<hubVars, subs, objs, table, parked, got, arrival>>

(* The connection is lost: the Session ends linkdead and its object is parked. *)
ConnectionLost ==
  /\ client.pc \in {"opened", "attached"} /\ RebindFree
  /\ client' = [client EXCEPT !.pc = "away"]
  /\ strm' = NoStream /\ table' = 0
  /\ parked' = IF table # 0 THEN table ELSE parked
  /\ objs' = IF table # 0 /\ parked # 0 THEN Closed(parked) ELSE objs
  /\ subs' = IF table # 0 /\ parked # 0 THEN Unsubscribed(objs[parked].sub) ELSE subs
  /\ UNCHANGED <<hubVars, got, arrival>>

(* unpark: nobody came back for it. *)
Unpark ==
  /\ parked # 0 /\ parked' = 0
  /\ objs' = Closed(parked) /\ subs' = Unsubscribed(objs[parked].sub)
  /\ UNCHANGED <<hubVars, table, strm, clientVars>>

StreamNext ==
  \/ Publish \/ Deliver \/ Rebind \/ Connect \/ Subscribe \/ Resubscribed \/ Attach
  \/ SendFrame \/ StreamEnds \/ ConnectionLost \/ Unpark
  \/ \E o \in DOMAIN objs : Swap(o) \/ LetGo(o) \/ Pump(o) \/ PumpEnds(o)

StreamSpec == StreamInit /\ [][StreamNext]_streamVars

--------------------------------------------------------------------------------

(* The variables' types. *)
StreamTypeOK ==
  /\ emitted \in 0..MaxEvents /\ inbound \in Seq(1..MaxEvents) /\ Len(inbound) <= Inbound
  /\ \A k \in DOMAIN subs : Len(subs[k].ch) <= HubBuffer + 1
  /\ \A o \in DOMAIN objs : Len(objs[o].hist.frames) <= Window
  /\ {table, parked} \subseteq 0..Len(objs)
  /\ client.pc \in {"away", "opened", "subscribing", "subscribed", "attached"}

(* The client's Events x to y are those of a perception, from the first after *)
(* x on: y is the next one its subscription was handed.                       *)
NextAfter(seen, to) ==
  seen < to.id /\ \A x \in given[to.sub] : x <= seen \/ to.id <= x

(* What a client sees is whole, across backlog cuts, reopened streams, rebinds *)
(* and reconnects to a parked Session.  Within a perception, and after a       *)
(* resume, the Event it receives is later than the last one and no Event the   *)
(* perception was handed lies between them; a perception that replaces another *)
(* under an open stream is shown from its first Event, and what of it is not   *)
(* later than the Event before is an Event both perceptions were handed.  A    *)
(* resume against a history that served the client before never joins two      *)
(* perceptions; against another object's it may (ResumeAccounted).             *)
SeesWhole ==
  got # NoFrame /\ arrival.from # NoFrame =>
    LET from == arrival.from IN
    /\ NextAfter(IF arrival.resumed \/ from.sub = got.sub THEN from.id ELSE 0, got)
    /\ from.id < got.id \/ got.id \in given[from.sub]
    /\ arrival.resumed /\ arrival.own => from.sub = got.sub

(* The same of every resume: when "nothing this Session was sent accounts     *)
(* for" the Event the client saw last, it is told to Resync                   *)
(* (history.go:93-98); it never misses an Event unawares.  A new object's     *)
(* history, whose floor is 0, does not ensure it.                             *)
ResumeAccounted ==
  arrival.resumed /\ arrival.from # NoFrame =>
    arrival.from.sub = got.sub \/ got.id = arrival.from.id + 1

================================================================================
