----------------------------- MODULE ServingProofs ----------------------------
(***************************************************************************)
(* Proofs about the parts of MCServing, in its specification: a behaviour    *)
(* follows one part, and the others stay as they begin.  What PlayerProofs   *)
(* shows of who may play and what is seen; the gateway (Gateway), for any connections,        *)
(* Sessions and calls; the player's client (Play), for any lines and         *)
(* Sessions; the process (Boot) and its configuration (Config), for any      *)
(* starts, swaps, keys and written layers; and the accounts (Accounts), for  *)
(* any names, secrets, writes and failed appends.                            *)
(***************************************************************************)
EXTENDS MCServing, PlayerProofs, FiniteSetTheorems, SequenceTheorems, TLAPS

-------------------------------------------------------------------------------
(* The gateway. *)

(* A Session's record, and a call's. *)
GateSessions ==
  [conn : Conns \union {"none"}, stage : Stages, by : {"none", "client", "conn", "recheck", "drain"},
   counted : BOOLEAN, released : BOOLEAN]

GateCalls ==
  [kind : Kinds \union {"none"}, conn : Conns \union {"none"}, sess : SessionIds \union {0},
   pc : {"none", "handler", "store", "count", "seam", "map", "closing", "released", "done"},
   out : {"none", "ok", "typed", "canceled"}, answer : Answers]

(* What a call relies on where it stands, and what its answer has promised.   *)
CallHolds(k) ==
  /\ rpcs[k].pc \in {"store", "count"} => rpcs[k].kind = "open"
  /\ rpcs[k].pc = "store" => rpcs[k].conn \in Conns
  /\ rpcs[k].pc = "handler" => rpcs[k].conn \in Conns
  /\ rpcs[k].pc \in {"seam", "map"} => rpcs[k].kind \in {"unary", "subscribe"}
  /\ rpcs[k].pc \in {"closing", "released"} => rpcs[k].kind = "close"
  /\ rpcs[k].kind \in {"unary", "subscribe", "close"} => rpcs[k].sess \in SessionIds
  /\ rpcs[k].pc # "done" => rpcs[k].answer = "none"
  /\ rpcs[k].pc = "count" => /\ rpcs[k].sess \in SessionIds
                             /\ ~gwSess[rpcs[k].sess].counted
                             /\ gwSess[rpcs[k].sess].stage # "none"
  /\ rpcs[k].pc = "released" => gwSess[rpcs[k].sess].stage = "ended"
  /\ rpcs[k].answer = "session_closed" =>
       /\ rpcs[k].kind \in {"unary", "subscribe"}
       /\ gwSess[rpcs[k].sess].stage \in {"cancelled", "ended"}
       /\ gwSess[rpcs[k].sess].by # "drain"
  /\ rpcs[k].kind = "close" /\ rpcs[k].answer = "ok" =>
       gwSess[rpcs[k].sess].stage \in {"cancelled", "ended"} /\ gwSess[rpcs[k].sess].released

(* What a Session in the store relies on: its connection or that connection's *)
(* teardown will end it, and the call that opened it will count it.           *)
SessionHolds(s) ==
  /\ gwSess[s].stage = "open" =>
       /\ gwSess[s].conn \in Conns
       /\ conns[gwSess[s].conn] # "gone" \/ s \in doomed[gwSess[s].conn]
  /\ gwSess[s].by = "drain" => DrainCtxDone
  /\ gwSess[s].counted => gwSess[s].stage # "none"
  /\ gwSess[s].stage # "none" /\ ~gwSess[s].counted =>
       \E k \in CallIds : rpcs[k].pc = "count" /\ rpcs[k].sess = s

CountedSessions == {s \in SessionIds : gwSess[s].counted}
EndedSessions == {s \in SessionIds : gwSess[s].stage = "ended"}

(* A Session is opened and counted by one call; the gauge is ahead of the     *)
(* store by the Sessions still to be taken off it and behind it by those      *)
(* still to be counted.                                                       *)
GatewayInv ==
  /\ conns \in [Conns -> ConnStates]
  /\ gwSess \in [SessionIds -> GateSessions]
  /\ rpcs \in [CallIds -> GateCalls]
  /\ doomed \in [Closers -> SUBSET SessionIds]
  /\ drain \in DrainStages
  /\ disabled \in BOOLEAN /\ noContent \in BOOLEAN
  /\ sessionsActive = Cardinality(CountedSessions) - Cardinality(EndedSessions)
  /\ \A k \in CallIds : CallHolds(k)
  /\ \A s \in SessionIds : SessionHolds(s)
  /\ \A j, k \in CallIds :
       rpcs[j].pc = "count" /\ rpcs[k].pc = "count" /\ rpcs[j].sess = rpcs[k].sess => j = k
  /\ "drain" \notin Conns /\ doomed["drain"] # {} => DrainCtxDone

(* The Sessions are few: their sets can be counted. *)
LEMMA GateFinite ==
  ASSUME NEW S \in SUBSET SessionIds
  PROVE  IsFiniteSet(S) /\ Cardinality(S) \in Nat
<1>1. IsFiniteSet(SessionIds)
  BY FS_Interval, GatewayAssumption DEF SessionIds
<1> QED BY <1>1, FS_Subset, FS_CardinalityType

(* No Session, no call, no drain. *)
LEMMA GateInitInv == GatewayInit => GatewayInv
<1> SUFFICES ASSUME GatewayInit PROVE GatewayInv
  OBVIOUS
<1>1. gwSess \in [SessionIds -> GateSessions]
  BY DEF GatewayInit, GateSessions, Stages
<1>2. NoCall \in GateCalls
  BY DEF NoCall, GateCalls, Answers
<1>3. rpcs \in [CallIds -> GateCalls] /\ \A k \in CallIds : rpcs[k] = NoCall
  BY <1>2 DEF GatewayInit
<1>4. \A k \in CallIds : CallHolds(k)
  BY <1>3 DEF CallHolds, NoCall
<1>5. \A s \in SessionIds : gwSess[s].stage = "none" /\ gwSess[s].by = "none" /\ gwSess[s].counted = FALSE
  BY DEF GatewayInit
<1>6. \A s \in SessionIds : SessionHolds(s)
  BY <1>5 DEF SessionHolds
<1>7. CountedSessions = {} /\ EndedSessions = {}
  BY <1>5 DEF CountedSessions, EndedSessions
<1>8. sessionsActive = Cardinality(CountedSessions) - Cardinality(EndedSessions)
  BY <1>7, FS_EmptySet DEF GatewayInit
<1>9. \A k \in CallIds : rpcs[k].pc # "count"
  BY <1>3 DEF NoCall
<1>10. "drain" \in Closers /\ doomed["drain"] = {}
  BY DEF GatewayInit, Closers
<1>11. conns \in [Conns -> ConnStates] /\ doomed \in [Closers -> SUBSET SessionIds] /\ drain \in DrainStages
  BY DEF GatewayInit, ConnStates, DrainStages
<1>12. disabled \in BOOLEAN /\ noContent \in BOOLEAN
  BY DEF GatewayInit
<1> QED BY <1>1, <1>3, <1>4, <1>6, <1>8, <1>9, <1>10, <1>11, <1>12 DEF GatewayInv

(* Steps that leave the Sessions and the calls alone. *)
LEMMA GateFrame ==
  ASSUME GatewayInv, UNCHANGED <<gwSess, rpcs, sessionsActive>>,
         conns' \in [Conns -> ConnStates], doomed' \in [Closers -> SUBSET SessionIds],
         drain' \in DrainStages, disabled' \in BOOLEAN, noContent' \in BOOLEAN,
         DrainCtxDone => DrainCtxDone',
         \A s \in SessionIds : gwSess[s].stage = "open" /\ gwSess[s].conn \in Conns
           /\ (conns[gwSess[s].conn] # "gone" \/ s \in doomed[gwSess[s].conn])
           => conns'[gwSess[s].conn] # "gone" \/ s \in doomed'[gwSess[s].conn],
         "drain" \notin Conns /\ doomed'["drain"] # {} => DrainCtxDone'
  PROVE  GatewayInv'
<1>1. (\A k \in CallIds : CallHolds(k))'
  BY DEF GatewayInv, CallHolds
<1>2. (\A s \in SessionIds : SessionHolds(s))'
  <2> SUFFICES ASSUME NEW s \in SessionIds PROVE SessionHolds(s)'
    OBVIOUS
  <2>1. SessionHolds(s)
    BY DEF GatewayInv
  <2> QED BY <2>1 DEF SessionHolds
<1>3. CountedSessions' = CountedSessions /\ EndedSessions' = EndedSessions
  BY DEF CountedSessions, EndedSessions
<1> QED BY <1>1, <1>2, <1>3 DEF GatewayInv

(* One call moves on, opening and counting no Session. *)
LEMMA GateCallMoves ==
  ASSUME GatewayInv, NEW k \in CallIds, NEW c \in GateCalls, rpcs' = [rpcs EXCEPT ![k] = c],
         UNCHANGED <<conns, gwSess, sessionsActive, doomed, drain, disabled, noContent>>,
         rpcs[k].pc # "count", c.pc # "count",
         c.pc = "store" => c.kind = "open" /\ c.conn \in Conns,
         c.pc = "handler" => c.conn \in Conns,
         c.pc \in {"seam", "map"} => c.kind \in {"unary", "subscribe"},
         c.pc \in {"closing", "released"} => c.kind = "close",
         c.kind \in {"unary", "subscribe", "close"} => c.sess \in SessionIds,
         c.pc # "done" => c.answer = "none",
         c.pc = "released" => gwSess[c.sess].stage = "ended",
         c.answer = "session_closed" =>
           /\ c.kind \in {"unary", "subscribe"}
           /\ gwSess[c.sess].stage \in {"cancelled", "ended"}
           /\ gwSess[c.sess].by # "drain",
         c.kind = "close" /\ c.answer = "ok" =>
           gwSess[c.sess].stage \in {"cancelled", "ended"} /\ gwSess[c.sess].released
  PROVE  GatewayInv'
<1>1. rpcs' \in [CallIds -> GateCalls] /\ rpcs'[k] = c /\ \A j \in CallIds \ {k} : rpcs'[j] = rpcs[j]
  BY DEF GatewayInv
<1>2. (\A j \in CallIds : CallHolds(j))'
  <2> SUFFICES ASSUME NEW j \in CallIds PROVE CallHolds(j)'
    OBVIOUS
  <2>1. CallHolds(j)
    BY DEF GatewayInv
  <2>2. CASE j = k
    BY <1>1, <2>2 DEF CallHolds
  <2>3. CASE j # k
    <3>1. rpcs'[j] = rpcs[j]
      BY <1>1, <2>3
    <3> QED BY <3>1, <2>1 DEF CallHolds
  <2> QED BY <2>2, <2>3
<1>3. \A j \in CallIds : (rpcs'[j].pc = "count" <=> rpcs[j].pc = "count")
                         /\ (rpcs[j].pc = "count" => rpcs'[j].sess = rpcs[j].sess)
  BY <1>1
<1>4. (\A s \in SessionIds : SessionHolds(s))'
  <2> SUFFICES ASSUME NEW s \in SessionIds PROVE SessionHolds(s)'
    OBVIOUS
  <2>1. SessionHolds(s)
    BY DEF GatewayInv
  <2> QED BY <2>1, <1>3 DEF SessionHolds, DrainCtxDone
<1>5. CountedSessions' = CountedSessions /\ EndedSessions' = EndedSessions
  BY DEF CountedSessions, EndedSessions
<1>6. \A i, j \in CallIds :
       rpcs'[i].pc = "count" /\ rpcs'[j].pc = "count" /\ rpcs'[i].sess = rpcs'[j].sess => i = j
  BY <1>3 DEF GatewayInv
<1> QED BY <1>1, <1>2, <1>4, <1>5, <1>6 DEF GatewayInv, DrainCtxDone

(* One Session moves on through its teardown. *)
LEMMA GateSessionMoves ==
  ASSUME GatewayInv, NEW s \in SessionIds, NEW x \in GateSessions, gwSess' = [gwSess EXCEPT ![s] = x],
         UNCHANGED <<conns, rpcs, doomed, drain, disabled, noContent>>,
         x.conn = gwSess[s].conn, x.counted = gwSess[s].counted,
         gwSess[s].stage \notin {"none", "ended"} \/ (gwSess[s].stage = "ended" /\ x.stage = "ended"),
         x.stage \notin {"none", "open"},
         gwSess[s].stage \in {"cancelled", "ended"} =>
           /\ x.stage \in {"cancelled", "ended"} /\ x.by = gwSess[s].by
           /\ (gwSess[s].released => x.released),
         x.by = "drain" => DrainCtxDone,
         sessionsActive' = IF x.stage = "ended" /\ gwSess[s].stage # "ended"
                           THEN sessionsActive - 1 ELSE sessionsActive
  PROVE  GatewayInv'
<1>1. gwSess' \in [SessionIds -> GateSessions] /\ gwSess'[s] = x
      /\ \A t \in SessionIds \ {s} : gwSess'[t] = gwSess[t]
  BY DEF GatewayInv
<1>2. (\A j \in CallIds : CallHolds(j))'
  <2> SUFFICES ASSUME NEW j \in CallIds PROVE CallHolds(j)'
    OBVIOUS
  <2>1. CallHolds(j)
    BY DEF GatewayInv
  <2>2. CASE rpcs[j].sess = s
    BY <1>1, <2>1, <2>2 DEF CallHolds
  <2>3. CASE rpcs[j].sess # s
    <3>1. rpcs[j].sess \in SessionIds => gwSess'[rpcs[j].sess] = gwSess[rpcs[j].sess]
      BY <1>1, <2>3
    <3> QED BY <3>1, <2>1 DEF CallHolds
  <2> QED BY <2>2, <2>3
<1>3. (\A t \in SessionIds : SessionHolds(t))'
  <2> SUFFICES ASSUME NEW t \in SessionIds PROVE SessionHolds(t)'
    OBVIOUS
  <2>1. SessionHolds(t)
    BY DEF GatewayInv
  <2>2. CASE t = s
    BY <1>1, <2>1, <2>2 DEF SessionHolds, DrainCtxDone
  <2>3. CASE t # s
    <3>1. gwSess'[t] = gwSess[t]
      BY <1>1, <2>3
    <3> QED BY <3>1, <2>1 DEF SessionHolds, DrainCtxDone
  <2> QED BY <2>2, <2>3
<1>4. CountedSessions' = CountedSessions
  BY <1>1 DEF CountedSessions
<1>5. sessionsActive' = (Cardinality(CountedSessions) - Cardinality(EndedSessions))'
  <2>1. sessionsActive = Cardinality(CountedSessions) - Cardinality(EndedSessions)
    BY DEF GatewayInv
  <2>2. Cardinality(CountedSessions) \in Nat /\ IsFiniteSet(EndedSessions) /\ Cardinality(EndedSessions) \in Nat
    <3>1. CountedSessions \in SUBSET SessionIds /\ EndedSessions \in SUBSET SessionIds
      BY DEF CountedSessions, EndedSessions
    <3> QED BY <3>1, GateFinite
  <2>3. CASE x.stage = "ended" /\ gwSess[s].stage # "ended"
    <3>1. EndedSessions' = EndedSessions \cup {s} /\ s \notin EndedSessions
      BY <1>1, <2>3 DEF EndedSessions
    <3>2. Cardinality(EndedSessions') = Cardinality(EndedSessions) + 1
      BY <3>1, <2>2, FS_AddElement
    <3> QED BY <3>2, <2>1, <2>2, <2>3, <1>4
  <2>4. CASE ~(x.stage = "ended" /\ gwSess[s].stage # "ended")
    <3>1. EndedSessions' = EndedSessions
      BY <1>1, <2>4 DEF EndedSessions
    <3> QED BY <3>1, <2>1, <2>4, <1>4
  <2> QED BY <2>3, <2>4
<1> QED BY <1>1, <1>2, <1>3, <1>5 DEF GatewayInv, DrainCtxDone

(* A connection is accepted, or lost. *)
LEMMA GateConnections ==
  ASSUME GatewayInv, NEW c \in Conns,
         ConnOpens(c) \/ TransportCloses(c) \/ ConnStateHook(c) \/ HttpShutdown(c)
  PROVE  GatewayInv'
<1>1. UNCHANGED <<gwSess, rpcs, sessionsActive, drain, disabled, noContent>>
  BY DEF ConnOpens, TransportCloses, ConnStateHook, HttpShutdown
<1>2. \E w \in {"open", "closed", "gone"} : conns' = [conns EXCEPT ![c] = w]
  BY DEF ConnOpens, TransportCloses, ConnStateHook, HttpShutdown
<1>3. conns' \in [Conns -> ConnStates]
  BY <1>2 DEF GatewayInv, ConnStates
<1>4. c \in Closers /\ "drain" \in Closers
  BY DEF Closers
<1>5. CASE ConnStateHook(c)
  <2>1. conns' = [conns EXCEPT ![c] = "gone"]
        /\ doomed' = [doomed EXCEPT ![c] = {s \in ById : gwSess[s].conn = c}]
    BY <1>5 DEF ConnStateHook
  <2>2. doomed' \in [Closers -> SUBSET SessionIds]
    BY <2>1 DEF GatewayInv, ById
  <2>3. \A s \in SessionIds : gwSess[s].stage = "open" /\ gwSess[s].conn = c => s \in doomed'[c]
    BY <2>1, <1>4 DEF GatewayInv, ById, InMap
  <2>4. \A b \in Closers \ {c} : doomed'[b] = doomed[b]
    BY <2>1 DEF GatewayInv
  <2>5. \A d \in Conns \ {c} : conns'[d] = conns[d] /\ d \in Closers
    BY <2>1 DEF GatewayInv, Closers
  <2>6. \A s \in SessionIds : gwSess[s].stage = "open" /\ gwSess[s].conn \in Conns
           /\ (conns[gwSess[s].conn] # "gone" \/ s \in doomed[gwSess[s].conn])
           => conns'[gwSess[s].conn] # "gone" \/ s \in doomed'[gwSess[s].conn]
    BY <2>3, <2>4, <2>5
  <2>7. "drain" \notin Conns => doomed'["drain"] = doomed["drain"]
    BY <2>4, <1>4
  <2> QED BY <1>1, <1>3, <2>2, <2>6, <2>7, GateFrame DEF GatewayInv, DrainCtxDone
<1>6. CASE ~ConnStateHook(c)
  <2>1. UNCHANGED doomed /\ \A d \in Conns : conns'[d] = "gone" => conns[d] = "gone"
    BY <1>6 DEF GatewayInv, ConnOpens, TransportCloses, HttpShutdown
  <2>2. \A s \in SessionIds : gwSess[s].stage = "open" /\ gwSess[s].conn \in Conns
           /\ (conns[gwSess[s].conn] # "gone" \/ s \in doomed[gwSess[s].conn])
           => conns'[gwSess[s].conn] # "gone" \/ s \in doomed'[gwSess[s].conn]
    BY <2>1
  <2> QED BY <1>1, <1>3, <2>1, <2>2, GateFrame DEF GatewayInv, DrainCtxDone
<1> QED BY <1>5, <1>6

(* The drain begins, reaches its deadline, and closes what is left. *)
LEMMA GateDrain ==
  ASSUME GatewayInv,
         Disable \/ FirstContent \/ Recheck \/ Shutdown \/ DrainStop \/ CloseAll \/ Drained
           \/ HttpDone \/ DrainTimeout
  PROVE  GatewayInv'
<1>1. UNCHANGED <<gwSess, rpcs, sessionsActive>>
  BY DEF Disable, FirstContent, Recheck, Shutdown, DrainStop, CloseAll, Drained, HttpDone, DrainTimeout
<1>2. drain' \in DrainStages /\ disabled' \in BOOLEAN /\ noContent' \in BOOLEAN
      /\ (DrainCtxDone => DrainCtxDone')
  BY DEF Disable, FirstContent, Recheck, Shutdown, DrainStop, CloseAll, Drained, HttpDone, DrainTimeout,
         GatewayInv, DrainStages, DrainCtxDone
<1>3. conns' \in [Conns -> ConnStates] /\ \A d \in Conns : conns'[d] = "gone" => conns[d] = "gone"
  <2>1. CASE DrainTimeout
    <3>1. conns' = [c \in Conns |-> IF conns[c] = "open" THEN "closed" ELSE conns[c]]
      BY <2>1 DEF DrainTimeout
    <3> QED BY <3>1 DEF GatewayInv, ConnStates
  <2>2. CASE ~DrainTimeout
    BY <2>2 DEF Disable, FirstContent, Recheck, Shutdown, DrainStop, CloseAll, Drained, HttpDone, GatewayInv
  <2> QED BY <2>1, <2>2
<1>4. "drain" \in Closers /\ "recheck" \in Closers /\ Conns \subseteq Closers
  BY DEF Closers
<1>5. ById \in SUBSET SessionIds /\ \A s \in SessionIds : gwSess[s].stage = "open" => s \in ById
  BY DEF ById, InMap
<1>6. UNCHANGED doomed
      \/ (doomed' = [doomed EXCEPT !["recheck"] = ById])
      \/ (doomed' = [doomed EXCEPT !["drain"] = ById] /\ DrainCtxDone)
  BY DEF Disable, FirstContent, Recheck, Shutdown, DrainStop, CloseAll, Drained, HttpDone, DrainTimeout,
         DrainCtxDone
<1>7. doomed' \in [Closers -> SUBSET SessionIds]
  BY <1>5, <1>6 DEF GatewayInv
<1>8. \A b \in Closers : \A s \in doomed[b] \cap SessionIds : gwSess[s].stage = "open" => s \in doomed'[b]
  BY <1>4, <1>5, <1>6 DEF GatewayInv
<1>9. "drain" \notin Conns /\ doomed'["drain"] # {} => DrainCtxDone'
  BY <1>2, <1>4, <1>6 DEF GatewayInv
<1>10. \A s \in SessionIds : gwSess[s].stage = "open" /\ gwSess[s].conn \in Conns
           /\ (conns[gwSess[s].conn] # "gone" \/ s \in doomed[gwSess[s].conn])
           => conns'[gwSess[s].conn] # "gone" \/ s \in doomed'[gwSess[s].conn]
  BY <1>3, <1>4, <1>8
<1> QED BY <1>1, <1>2, <1>3, <1>7, <1>9, <1>10, GateFrame

(* A teardown runs, and releases what the Session held. *)
LEMMA GateTeardown ==
  ASSUME GatewayInv, NEW s \in SessionIds, TearDown(s) \/ Releases(s)
  PROVE  GatewayInv'
<1>1. SessionHolds(s) /\ gwSess[s] \in GateSessions
  BY DEF GatewayInv
<1>2. UNCHANGED <<conns, rpcs, doomed, drain, disabled, noContent>>
  BY DEF TearDown, Releases
<1>3. gwSess \in [SessionIds -> GateSessions]
  BY DEF GatewayInv
<1>4. CASE gwSess[s].stage = "closing" /\ TearDown(s)
  <2>1. gwSess' = [gwSess EXCEPT ![s] = [gwSess[s] EXCEPT !.stage = "removed"]] /\ UNCHANGED sessionsActive
    BY <1>4, <1>3 DEF TearDown
  <2>2. [gwSess[s] EXCEPT !.stage = "removed"] \in GateSessions
    BY <1>1 DEF GateSessions, Stages
  <2> QED BY <1>1, <1>2, <1>4, <2>1, <2>2, GateSessionMoves DEF GateSessions, SessionHolds
<1>5. CASE gwSess[s].stage = "removed" /\ TearDown(s)
  <2>1. gwSess' = [gwSess EXCEPT ![s] = [gwSess[s] EXCEPT !.stage = "cancelled", !.released = FALSE]]
        /\ UNCHANGED sessionsActive
    BY <1>5, <1>3 DEF TearDown
  <2>2. [gwSess[s] EXCEPT !.stage = "cancelled", !.released = FALSE] \in GateSessions
    BY <1>1 DEF GateSessions, Stages
  <2> QED BY <1>1, <1>2, <1>5, <2>1, <2>2, GateSessionMoves DEF GateSessions, SessionHolds
<1>6. CASE gwSess[s].stage = "cancelled" /\ TearDown(s)
  <2>1. gwSess' = [gwSess EXCEPT ![s] = [gwSess[s] EXCEPT !.stage = "ended"]]
        /\ sessionsActive' = sessionsActive - 1
    BY <1>6, <1>3 DEF TearDown
  <2>2. [gwSess[s] EXCEPT !.stage = "ended"] \in GateSessions
    BY <1>1 DEF GateSessions, Stages
  <2> QED BY <1>1, <1>2, <1>6, <2>1, <2>2, GateSessionMoves DEF GateSessions, SessionHolds
<1>7. CASE Releases(s)
  <2>1. gwSess' = [gwSess EXCEPT ![s] = [gwSess[s] EXCEPT !.released = TRUE]]
        /\ UNCHANGED sessionsActive /\ gwSess[s].stage \in {"cancelled", "ended"}
    BY <1>7, <1>3 DEF Releases
  <2>2. [gwSess[s] EXCEPT !.released = TRUE] \in GateSessions
    BY <1>1 DEF GateSessions, Stages
  <2> QED BY <1>1, <1>2, <2>1, <2>2, GateSessionMoves DEF GateSessions, SessionHolds
<1> QED BY <1>4, <1>5, <1>6, <1>7 DEF TearDown

(* A closer begins to close a Session. *)
LEMMA GateBegins ==
  ASSUME GatewayInv, NEW s \in SessionIds, NEW by \in {"client", "conn", "recheck", "drain"},
         Begins(s, by), UNCHANGED <<conns, rpcs, sessionsActive, doomed, drain, disabled, noContent>>,
         by = "drain" => DrainCtxDone
  PROVE  GatewayInv'
<1>1. SessionHolds(s) /\ gwSess[s] \in GateSessions /\ gwSess \in [SessionIds -> GateSessions]
  BY DEF GatewayInv
<1>2. gwSess' = [gwSess EXCEPT ![s] = [gwSess[s] EXCEPT !.stage = "closing", !.by = by, !.released = TRUE]]
      /\ gwSess[s].stage = "open"
  BY <1>1 DEF Begins
<1>3. [gwSess[s] EXCEPT !.stage = "closing", !.by = by, !.released = TRUE] \in GateSessions
  BY <1>1 DEF GateSessions, Stages
<1> QED BY <1>1, <1>2, <1>3, GateSessionMoves DEF GateSessions, SessionHolds

(* A closer takes the Sessions it chose, one at a time. *)
LEMMA GateCloses ==
  ASSUME GatewayInv, NEW b \in Closers, NEW s \in SessionIds, ClosesOne(b, s)
  PROVE  GatewayInv'
<1>1. UNCHANGED <<conns, sessionsActive, rpcs, drain, disabled, noContent>> /\ s \in doomed[b]
  BY DEF ClosesOne
<1>2. CASE Begins(s, IF b \in Conns THEN "conn" ELSE b) /\ UNCHANGED doomed
  <2>1. CASE b \in Conns
    <3>1. Begins(s, "conn")
      BY <2>1, <1>2
    <3> QED BY <3>1, <1>1, <1>2, GateBegins
  <2>2. CASE b \notin Conns
    <3>1. b \in {"drain", "recheck"} /\ Begins(s, b)
      BY <2>2, <1>2 DEF Closers
    <3>2. b = "drain" => DrainCtxDone
      BY <2>2, <1>1 DEF GatewayInv
    <3> QED BY <3>1, <3>2, <1>1, <1>2, GateBegins
  <2> QED BY <2>1, <2>2
<1>3. CASE OnceRun(s) /\ doomed' = [doomed EXCEPT ![b] = @ \ {s}] /\ UNCHANGED gwSess
  <2>1. doomed' \in [Closers -> SUBSET SessionIds]
    BY <1>3 DEF GatewayInv
  <2>2. \A d \in Closers : doomed'[d] \subseteq doomed[d]
    BY <1>3 DEF GatewayInv
  <2>3. \A d \in Closers : \A t \in SessionIds \ {s} : t \in doomed[d] => t \in doomed'[d]
    BY <1>3 DEF GatewayInv
  <2>4. gwSess[s].stage = "ended"
    BY <1>3 DEF OnceRun
  <2>5. "drain" \in Closers /\ Conns \subseteq Closers
    BY DEF Closers
  <2>6. \A t \in SessionIds : gwSess[t].stage = "open" /\ gwSess[t].conn \in Conns
           /\ (conns[gwSess[t].conn] # "gone" \/ t \in doomed[gwSess[t].conn])
           => conns'[gwSess[t].conn] # "gone" \/ t \in doomed'[gwSess[t].conn]
    BY <1>1, <2>3, <2>4, <2>5
  <2>7. "drain" \notin Conns /\ doomed'["drain"] # {} => DrainCtxDone
    BY <2>2, <2>5 DEF GatewayInv
  <2> QED BY <1>1, <1>3, <2>1, <2>6, <2>7, GateFrame DEF GatewayInv, DrainCtxDone
<1> QED BY <1>2, <1>3 DEF ClosesOne

(* An answered call promises only what its Session has come to. *)
LEMMA GateReplies ==
  ASSUME GatewayInv, NEW k \in CallIds, NEW a \in Answers, Replied(k, a), rpcs[k].pc # "count",
         UNCHANGED <<conns, gwSess, sessionsActive, doomed, drain, disabled, noContent>>,
         a = "session_closed" =>
           /\ rpcs[k].kind \in {"unary", "subscribe"}
           /\ gwSess[rpcs[k].sess].stage \in {"cancelled", "ended"}
           /\ gwSess[rpcs[k].sess].by # "drain",
         rpcs[k].kind = "close" /\ a = "ok" =>
           gwSess[rpcs[k].sess].stage \in {"cancelled", "ended"} /\ gwSess[rpcs[k].sess].released
  PROVE  GatewayInv'
<1>1. CallHolds(k) /\ rpcs[k] \in GateCalls /\ rpcs \in [CallIds -> GateCalls]
  BY DEF GatewayInv
<1> DEFINE c == [rpcs[k] EXCEPT !.pc = "done", !.answer = a, !.conn = "none", !.out = "none"]
<1>2. rpcs' = [rpcs EXCEPT ![k] = c]
  BY <1>1 DEF Replied
<1>3. c \in GateCalls /\ c.pc = "done" /\ c.answer = a /\ c.kind = rpcs[k].kind /\ c.sess = rpcs[k].sess
  BY <1>1 DEF GateCalls
<1>4. c.kind \in {"unary", "subscribe", "close"} => c.sess \in SessionIds
  BY <1>1, <1>3 DEF CallHolds
<1> HIDE DEF c
<1> QED BY <1>2, <1>3, <1>4, GateCallMoves

(* A call is received. *)
LEMMA GateReceives ==
  ASSUME GatewayInv, NEW k \in CallIds, NEW kind \in Kinds, NEW c \in Conns,
         NEW s \in SessionIds \union {0}, Receive(k, kind, c, s)
  PROVE  GatewayInv'
<1> DEFINE r == [kind |-> kind, conn |-> IF Draining THEN "none" ELSE c, sess |-> s, out |-> "none",
                 pc |-> IF Draining THEN "done" ELSE "handler",
                 answer |-> IF Draining THEN "unavailable" ELSE "none"]
<1>1. rpcs' = [rpcs EXCEPT ![k] = r] /\ rpcs[k].pc = "none"
      /\ UNCHANGED <<conns, gwSess, sessionsActive, doomed, drain, disabled, noContent>>
  BY DEF Receive, At
<1>2. kind \notin {"open", "admin"} => s \in SessionIds
  BY DEF Receive
<1>3. r \in GateCalls /\ r.kind = kind /\ r.sess = s /\ r.pc \in {"done", "handler"}
      /\ r.answer \in {"unavailable", "none"} /\ (r.pc = "handler" => r.conn = c /\ r.answer = "none")
  BY DEF GateCalls, Answers
<1> HIDE DEF r
<1> QED BY <1>1, <1>2, <1>3, GateCallMoves DEF Kinds

(* A call of the admin service is checked. *)
LEMMA GateAdmin ==
  ASSUME GatewayInv, NEW k \in CallIds, NEW token \in Tokens, NEW target \in ActAsTargets,
         NEW allowed \in BOOLEAN, NEW out \in {"ok", "typed"}, Admin(k, token, target, allowed, out)
  PROVE  GatewayInv'
<1>1. rpcs[k].kind = "admin" /\ rpcs[k].pc = "handler"
      /\ UNCHANGED <<conns, gwSess, sessionsActive, doomed, drain, disabled, noContent>>
  BY DEF Admin, At
<1>2. AdminRefusal(token, target) \in {"unauthenticated", "denied", "none"}
  BY DEF AdminRefusal
<1>3. {out, ContentAnswer(allowed, out), SnapshotAnswer(allowed, out)}
        \subseteq {"ok", "typed", "unimplemented", "denied"}
  BY DEF ContentAnswer, SnapshotAnswer
<1>4. PICK a \in {"unauthenticated", "denied", "ok", "typed", "unimplemented"} : Replied(k, a)
  BY <1>2, <1>3 DEF Admin
<1>5. a \in Answers /\ a # "session_closed"
  BY DEF Answers
<1> QED BY <1>1, <1>4, <1>5, GateReplies

(* OpenSession is checked: version, token, actor, content. *)
LEMMA GateOpenChecks ==
  ASSUME GatewayInv, NEW k \in CallIds, NEW version, NEW token \in Tokens, NEW target \in ActAsTargets,
         OpenChecks(k, version, token, target)
  PROVE  GatewayInv'
<1>1. rpcs[k].kind = "open" /\ rpcs[k].pc = "handler"
      /\ UNCHANGED <<conns, gwSess, sessionsActive, doomed, drain, disabled, noContent>>
  BY DEF OpenChecks, At
<1>2. OpenRefusal(version, token, target) \in {"version", "unauthenticated", "denied", "no_content", "none"}
  BY DEF OpenRefusal
<1>3. CASE OpenRefusal(version, token, target) = "none"
  <2>1. CallHolds(k) /\ rpcs[k] \in GateCalls /\ rpcs \in [CallIds -> GateCalls]
    BY DEF GatewayInv
  <2> DEFINE c == [rpcs[k] EXCEPT !.pc = "store"]
  <2>2. rpcs' = [rpcs EXCEPT ![k] = c]
    BY <1>3, <2>1 DEF OpenChecks, Moves
  <2>3. c \in GateCalls /\ c.pc = "store" /\ c.kind = "open" /\ c.conn = rpcs[k].conn
        /\ c.answer = rpcs[k].answer
    BY <1>1, <2>1 DEF GateCalls
  <2>4. c.conn \in Conns /\ c.answer = "none"
    BY <1>1, <2>1, <2>3 DEF CallHolds
  <2> HIDE DEF c
  <2> QED BY <1>1, <2>2, <2>3, <2>4, GateCallMoves
<1>4. CASE OpenRefusal(version, token, target) # "none"
  <2>1. PICK a \in {"version", "unauthenticated", "denied", "no_content"} : Replied(k, a)
    BY <1>2, <1>4 DEF OpenChecks
  <2>2. a \in Answers /\ a # "session_closed"
    BY DEF Answers
  <2> QED BY <1>1, <2>1, <2>2, GateReplies
<1> QED BY <1>3, <1>4

(* A call resolves its Session. *)
LEMMA GateResolves ==
  ASSUME GatewayInv, NEW k \in CallIds, Resolve(k)
  PROVE  GatewayInv'
<1>1. rpcs[k].pc = "handler" /\ rpcs[k].kind \in {"unary", "subscribe", "close"}
      /\ UNCHANGED <<conns, gwSess, sessionsActive, doomed, drain, disabled, noContent>>
  BY DEF Resolve, At
<1>2. CASE ~InMap(rpcs[k].sess)
  <2>1. Replied(k, "unauthenticated") /\ "unauthenticated" \in Answers
    BY <1>2 DEF Resolve, Answers
  <2> QED BY <1>1, <2>1, GateReplies
<1>3. CASE InMap(rpcs[k].sess)
  <2>1. CallHolds(k) /\ rpcs[k] \in GateCalls /\ rpcs \in [CallIds -> GateCalls]
    BY DEF GatewayInv
  <2> DEFINE to == IF rpcs[k].kind = "close" THEN "closing" ELSE "seam"
             c == [rpcs[k] EXCEPT !.pc = to]
  <2>2. rpcs' = [rpcs EXCEPT ![k] = c]
    BY <1>3, <2>1 DEF Resolve, Moves
  <2>3. c \in GateCalls /\ c.pc = to /\ c.kind = rpcs[k].kind /\ c.sess = rpcs[k].sess
        /\ c.answer = rpcs[k].answer
    BY <1>1, <2>1 DEF GateCalls
  <2>4. c.answer = "none" /\ c.sess \in SessionIds
    BY <1>1, <2>1, <2>3 DEF CallHolds
  <2>5. (c.kind = "close" /\ c.pc = "closing") \/ (c.kind \in {"unary", "subscribe"} /\ c.pc = "seam")
    BY <1>1, <2>3
  <2> HIDE DEF c, to
  <2> QED BY <1>1, <2>2, <2>3, <2>4, <2>5, GateCallMoves
<1> QED BY <1>2, <1>3

(* The service behind a call answers. *)
LEMMA GateSeams ==
  ASSUME GatewayInv, NEW k \in CallIds, NEW out \in {"ok", "typed", "canceled"},
         UnaryReturns(k, out) \/ SubscribeReturns(k, out)
  PROVE  GatewayInv'
<1>1. rpcs[k].pc = "seam" /\ rpcs[k].kind \in {"unary", "subscribe"}
      /\ UNCHANGED <<conns, gwSess, sessionsActive, doomed, drain, disabled, noContent>>
  BY DEF UnaryReturns, SubscribeReturns, At
<1>2. CallHolds(k) /\ rpcs[k] \in GateCalls /\ rpcs \in [CallIds -> GateCalls]
  BY DEF GatewayInv
<1>3. CASE Replied(k, "ok")
  <2>1. "ok" \in Answers
    BY DEF Answers
  <2> QED BY <1>1, <1>3, <2>1, GateReplies
<1>4. CASE rpcs' = [rpcs EXCEPT ![k].pc = "map", ![k].out = out]
  <2> DEFINE c == [rpcs[k] EXCEPT !.pc = "map", !.out = out]
  <2>2. rpcs' = [rpcs EXCEPT ![k] = c]
    BY <1>4, <1>2
  <2>3. c \in GateCalls /\ c.pc = "map" /\ c.kind = rpcs[k].kind /\ c.sess = rpcs[k].sess
        /\ c.answer = rpcs[k].answer
    BY <1>1, <1>2 DEF GateCalls
  <2>4. c.answer = "none" /\ c.sess \in SessionIds
    BY <1>1, <1>2, <2>3 DEF CallHolds
  <2> HIDE DEF c
  <2> QED BY <1>1, <2>2, <2>3, <2>4, GateCallMoves
<1> QED BY <1>3, <1>4 DEF UnaryReturns, SubscribeReturns

(* The interceptor maps an error, and tells of the drain. *)
LEMMA GateMapsError ==
  ASSUME GatewayInv, NEW k \in CallIds, MapsError(k)
  PROVE  GatewayInv'
<1>1. rpcs[k].pc = "map" /\ Replied(k, SeamError(k))
      /\ UNCHANGED <<conns, gwSess, sessionsActive, doomed, drain, disabled, noContent>>
  BY DEF MapsError, At
<1>2. rpcs[k].kind \in {"unary", "subscribe"} /\ rpcs[k].sess \in SessionIds
  BY <1>1 DEF GatewayInv, CallHolds
<1>3. SeamError(k) \in {"unavailable", "typed", "session_closed", "ok", "canceled", "internal"}
      /\ (SeamError(k) = "session_closed" => ~DrainCtxDone /\ SessionCtxDone(rpcs[k].sess))
  BY DEF SeamError
<1>4. SeamError(k) = "session_closed" =>
        gwSess[rpcs[k].sess].stage \in {"cancelled", "ended"} /\ gwSess[rpcs[k].sess].by # "drain"
  BY <1>2, <1>3 DEF GatewayInv, SessionHolds, SessionCtxDone
<1>5. PICK a \in Answers : a = SeamError(k)
  BY <1>3 DEF Answers
<1>6. Replied(k, a)
  BY <1>1, <1>5
<1> QED BY <1>1, <1>2, <1>4, <1>5, <1>6, GateReplies

(* CloseSession closes, and answers. *)
LEMMA GateCloseCall ==
  ASSUME GatewayInv, NEW k \in CallIds, CloseCall(k) \/ CloseAnswers(k)
  PROVE  GatewayInv'
<1>1. CallHolds(k) /\ rpcs[k] \in GateCalls /\ rpcs \in [CallIds -> GateCalls]
  BY DEF GatewayInv
<1>2. rpcs[k].pc \in {"closing", "released"} /\ UNCHANGED <<conns, sessionsActive, doomed, drain, disabled, noContent>>
  BY DEF CloseCall, CloseAnswers, At
<1>3. rpcs[k].kind = "close" /\ rpcs[k].sess \in SessionIds /\ rpcs[k].answer = "none"
  BY <1>1, <1>2 DEF CallHolds
<1>4. CASE CloseCall(k) /\ UNCHANGED rpcs
  <2>1. CASE Begins(rpcs[k].sess, "client")
    <3>1. PICK s \in SessionIds : s = rpcs[k].sess
      BY <1>3
    <3>2. Begins(s, "client")
      BY <3>1, <2>1
    <3> QED BY <3>2, <1>2, <1>4, GateBegins
  <2>2. CASE ~Begins(rpcs[k].sess, "client")
    <3>1. UNCHANGED gwSess
      BY <1>4, <2>2 DEF CloseCall
    <3> QED BY <1>2, <1>4, <3>1, GateFrame DEF GatewayInv, DrainCtxDone
  <2> QED BY <2>1, <2>2
<1>5. CASE CloseCall(k) /\ ~UNCHANGED rpcs
  <2>1. Moves(k, "released") /\ OnceRun(rpcs[k].sess) /\ UNCHANGED gwSess
    BY <1>5 DEF CloseCall
  <2> DEFINE c == [rpcs[k] EXCEPT !.pc = "released"]
  <2>2. rpcs' = [rpcs EXCEPT ![k] = c]
    BY <1>1, <2>1 DEF Moves
  <2>3. c \in GateCalls /\ c.pc = "released" /\ c.kind = rpcs[k].kind /\ c.sess = rpcs[k].sess
        /\ c.answer = rpcs[k].answer
    BY <1>1 DEF GateCalls
  <2>4. gwSess[c.sess].stage = "ended"
    BY <2>1, <2>3 DEF OnceRun
  <2> HIDE DEF c
  <2> QED BY <1>2, <1>3, <2>1, <2>2, <2>3, <2>4, GateCallMoves
<1>6. CASE CloseAnswers(k)
  <2>1. UNCHANGED gwSess /\ rpcs[k].pc = "released"
        /\ ((Replied(k, "ok") /\ gwSess[rpcs[k].sess].released) \/ Replied(k, "deadline"))
    BY <1>6 DEF CloseAnswers, At
  <2>2. gwSess[rpcs[k].sess].stage = "ended"
    BY <1>1, <2>1 DEF CallHolds
  <2>3. "ok" \in Answers /\ "deadline" \in Answers
    BY DEF Answers
  <2> QED BY <1>2, <2>1, <2>2, <2>3, GateReplies
<1> QED BY <1>4, <1>5, <1>6

(* OpenSession stores its Session. *)
LEMMA GateStoreOpens ==
  ASSUME GatewayInv, NEW k \in CallIds, NEW s \in SessionIds, StoreOpen(k, s)
  PROVE  GatewayInv'
<1>1. CallHolds(k) /\ rpcs[k] \in GateCalls /\ rpcs \in [CallIds -> GateCalls]
      /\ gwSess[s] \in GateSessions /\ gwSess \in [SessionIds -> GateSessions] /\ SessionHolds(s)
  BY DEF GatewayInv
<1>2. rpcs[k].pc = "store" /\ gwSess[s].stage = "none"
      /\ UNCHANGED <<conns, sessionsActive, doomed, drain, disabled, noContent>>
  BY DEF StoreOpen, At
<1>3. rpcs[k].kind = "open" /\ rpcs[k].conn \in Conns /\ rpcs[k].answer = "none" /\ ~gwSess[s].counted
  BY <1>1, <1>2 DEF CallHolds, SessionHolds
<1>4. CASE ~Live(rpcs[k].conn)
  <2>1. Replied(k, "canceled") /\ UNCHANGED gwSess /\ "canceled" \in Answers
    BY <1>4 DEF StoreOpen, Answers
  <2> QED BY <1>2, <1>3, <2>1, GateReplies
<1>5. CASE Live(rpcs[k].conn)
  <2> DEFINE c == [rpcs[k] EXCEPT !.pc = "count", !.sess = s]
             x == [gwSess[s] EXCEPT !.conn = rpcs[k].conn, !.stage = "open"]
  <2>1. rpcs' = [rpcs EXCEPT ![k] = c] /\ gwSess' = [gwSess EXCEPT ![s] = x]
    BY <1>1, <1>5 DEF StoreOpen
  <2>2. c \in GateCalls /\ c.pc = "count" /\ c.sess = s /\ c.kind = "open" /\ c.answer = "none"
    BY <1>1, <1>3 DEF GateCalls
  <2>3. x \in GateSessions /\ x.stage = "open" /\ x.conn = rpcs[k].conn /\ x.by = gwSess[s].by
        /\ x.counted = gwSess[s].counted
    BY <1>1, <1>3 DEF GateSessions, Stages
  <2> HIDE DEF c, x
  <2>4. rpcs' \in [CallIds -> GateCalls] /\ rpcs'[k] = c /\ \A j \in CallIds \ {k} : rpcs'[j] = rpcs[j]
    BY <1>1, <2>1, <2>2
  <2>5. gwSess' \in [SessionIds -> GateSessions] /\ gwSess'[s] = x
        /\ \A t \in SessionIds \ {s} : gwSess'[t] = gwSess[t]
    BY <1>1, <2>1, <2>3
  <2>6. (\A j \in CallIds : CallHolds(j))'
    <3> SUFFICES ASSUME NEW j \in CallIds PROVE CallHolds(j)'
      OBVIOUS
    <3>1. CASE j = k
      BY <1>3, <2>2, <2>3, <2>4, <2>5, <3>1 DEF CallHolds
    <3>2. CASE j # k
      <4>1. CallHolds(j) /\ rpcs'[j] = rpcs[j]
        BY <2>4, <3>2 DEF GatewayInv
      <4>2. rpcs[j].sess = s => rpcs[j].pc \notin {"count", "released"} /\ rpcs[j].answer # "session_closed"
                                /\ ~(rpcs[j].kind = "close" /\ rpcs[j].answer = "ok")
        BY <4>1, <1>2 DEF CallHolds
      <4>3. rpcs[j].sess # s /\ rpcs[j].sess \in SessionIds => gwSess'[rpcs[j].sess] = gwSess[rpcs[j].sess]
        BY <2>5
      <4> QED BY <4>1, <4>2, <4>3 DEF CallHolds
    <3> QED BY <3>1, <3>2
  <2>7. (\A t \in SessionIds : SessionHolds(t))'
    <3> SUFFICES ASSUME NEW t \in SessionIds PROVE SessionHolds(t)'
      OBVIOUS
    <3>1. SessionHolds(t)
      BY DEF GatewayInv
    <3>2. CASE t = s
      <4>1. conns[rpcs[k].conn] # "gone"
        BY <1>5 DEF Live
      <4> QED BY <1>2, <1>3, <2>2, <2>3, <2>4, <2>5, <3>1, <3>2, <4>1 DEF SessionHolds, DrainCtxDone
    <3>3. CASE t # s
      <4>1. gwSess'[t] = gwSess[t]
        BY <2>5, <3>3
      <4>2. \A j \in CallIds : rpcs[j].pc = "count" => rpcs'[j] = rpcs[j]
        BY <2>4, <1>2
      <4> QED BY <1>2, <4>1, <4>2, <3>1 DEF SessionHolds, DrainCtxDone
    <3> QED BY <3>2, <3>3
  <2>8. CountedSessions' = CountedSessions /\ EndedSessions' = EndedSessions
    BY <1>2, <2>3, <2>5 DEF CountedSessions, EndedSessions
  <2>9. \A i, j \in CallIds :
         rpcs'[i].pc = "count" /\ rpcs'[j].pc = "count" /\ rpcs'[i].sess = rpcs'[j].sess => i = j
    <3>1. \A j \in CallIds \ {k} : rpcs[j].pc = "count" => rpcs[j].sess # s
      BY <1>2 DEF GatewayInv, CallHolds
    <3> QED BY <2>2, <2>4, <3>1 DEF GatewayInv
  <2> QED BY <1>2, <2>4, <2>5, <2>6, <2>7, <2>8, <2>9 DEF GatewayInv, DrainCtxDone
<1> QED BY <1>4, <1>5

(* OpenSession counts its Session. *)
LEMMA GateCounts ==
  ASSUME GatewayInv, NEW k \in CallIds, CountOpen(k)
  PROVE  GatewayInv'
<1>1. CallHolds(k) /\ rpcs[k] \in GateCalls /\ rpcs \in [CallIds -> GateCalls]
      /\ gwSess \in [SessionIds -> GateSessions]
  BY DEF GatewayInv
<1>2. rpcs[k].pc = "count" /\ UNCHANGED <<conns, doomed, drain, disabled, noContent>>
      /\ sessionsActive' = sessionsActive + 1
  BY DEF CountOpen, At
<1>3. PICK s \in SessionIds : s = rpcs[k].sess
  BY <1>1, <1>2 DEF CallHolds
<1>4. rpcs[k].kind = "open" /\ ~gwSess[s].counted /\ gwSess[s].stage # "none" /\ gwSess[s] \in GateSessions
      /\ SessionHolds(s)
  BY <1>1, <1>2, <1>3 DEF CallHolds, GatewayInv
<1> DEFINE c == [rpcs[k] EXCEPT !.pc = "done", !.answer = "ok", !.conn = "none", !.out = "none"]
           x == [gwSess[s] EXCEPT !.counted = TRUE]
<1>5. rpcs' = [rpcs EXCEPT ![k] = c] /\ gwSess' = [gwSess EXCEPT ![s] = x]
  BY <1>1, <1>3 DEF CountOpen, Replied
<1>6. c \in GateCalls /\ c.pc = "done" /\ c.sess = s /\ c.kind = "open" /\ c.answer = "ok"
  BY <1>1, <1>3, <1>4 DEF GateCalls, Answers
<1>7. x \in GateSessions /\ x.stage = gwSess[s].stage /\ x.conn = gwSess[s].conn /\ x.by = gwSess[s].by
      /\ x.counted /\ x.released = gwSess[s].released
  BY <1>4 DEF GateSessions
<1> HIDE DEF c, x
<1>8. rpcs' \in [CallIds -> GateCalls] /\ rpcs'[k] = c /\ \A j \in CallIds \ {k} : rpcs'[j] = rpcs[j]
  BY <1>1, <1>5, <1>6
<1>9. gwSess' \in [SessionIds -> GateSessions] /\ gwSess'[s] = x
      /\ \A t \in SessionIds \ {s} : gwSess'[t] = gwSess[t]
  BY <1>1, <1>5, <1>7
<1>10. \A j \in CallIds \ {k} : rpcs[j].pc = "count" => rpcs[j].sess # s
  BY <1>2, <1>3 DEF GatewayInv
<1>11. (\A j \in CallIds : CallHolds(j))'
  <2> SUFFICES ASSUME NEW j \in CallIds PROVE CallHolds(j)'
    OBVIOUS
  <2>1. CASE j = k
    BY <1>6, <1>8, <2>1 DEF CallHolds
  <2>2. CASE j # k
    <3>1. CallHolds(j) /\ rpcs'[j] = rpcs[j]
      BY <1>8, <2>2 DEF GatewayInv
    <3>2. CASE rpcs[j].sess = s
      BY <3>1, <3>2, <1>7, <1>9, <1>10, <2>2 DEF CallHolds
    <3>3. CASE rpcs[j].sess # s
      <4>1. rpcs[j].sess \in SessionIds => gwSess'[rpcs[j].sess] = gwSess[rpcs[j].sess]
        BY <1>9, <3>3
      <4> QED BY <3>1, <4>1 DEF CallHolds
    <3> QED BY <3>2, <3>3
  <2> QED BY <2>1, <2>2
<1>12. (\A t \in SessionIds : SessionHolds(t))'
  <2> SUFFICES ASSUME NEW t \in SessionIds PROVE SessionHolds(t)'
    OBVIOUS
  <2>1. SessionHolds(t)
    BY DEF GatewayInv
  <2>2. CASE t = s
    BY <1>2, <1>4, <1>7, <1>9, <2>1, <2>2 DEF SessionHolds, DrainCtxDone
  <2>3. CASE t # s
    <3>1. gwSess'[t] = gwSess[t]
      BY <1>9, <2>3
    <3>2. \A j \in CallIds : rpcs[j].pc = "count" /\ rpcs[j].sess = t => rpcs'[j] = rpcs[j]
      BY <1>8, <1>3, <2>3
    <3> QED BY <1>2, <3>1, <3>2, <2>1 DEF SessionHolds, DrainCtxDone
  <2> QED BY <2>2, <2>3
<1>13. CountedSessions' = CountedSessions \cup {s} /\ s \notin CountedSessions /\ EndedSessions' = EndedSessions
  BY <1>4, <1>7, <1>9 DEF CountedSessions, EndedSessions
<1>14. sessionsActive' = (Cardinality(CountedSessions) - Cardinality(EndedSessions))'
  <2>1. CountedSessions \in SUBSET SessionIds /\ EndedSessions \in SUBSET SessionIds
    BY DEF CountedSessions, EndedSessions
  <2>2. IsFiniteSet(CountedSessions) /\ Cardinality(CountedSessions) \in Nat /\ Cardinality(EndedSessions) \in Nat
    BY <2>1, GateFinite
  <2>3. Cardinality(CountedSessions') = Cardinality(CountedSessions) + 1
    BY <1>13, <2>2, FS_AddElement
  <2>4. sessionsActive = Cardinality(CountedSessions) - Cardinality(EndedSessions)
    BY DEF GatewayInv
  <2> QED BY <1>2, <1>13, <2>2, <2>3, <2>4
<1>15. \A i, j \in CallIds :
       rpcs'[i].pc = "count" /\ rpcs'[j].pc = "count" /\ rpcs'[i].sess = rpcs'[j].sess => i = j
  BY <1>6, <1>8 DEF GatewayInv
<1> QED BY <1>2, <1>8, <1>9, <1>11, <1>12, <1>14, <1>15 DEF GatewayInv, DrainCtxDone

(* Every step of the gateway keeps the invariant. *)
LEMMA GateStep ==
  ASSUME GatewayInv, [GatewayNext]_gatewayVars
  PROVE  GatewayInv'
<1>1. CASE UNCHANGED gatewayVars
  BY <1>1, GateFrame DEF GatewayInv, gatewayVars, DrainCtxDone
<1>2. CASE GatewayNext
  BY <1>2, GateConnections, GateDrain, GateTeardown, GateCloses, GateReceives, GateAdmin,
     GateOpenChecks, GateResolves, GateSeams, GateMapsError, GateCloseCall, GateStoreOpens, GateCounts
     DEF GatewayNext
<1> QED BY <1>1, <1>2

(* What it says of types and of the safety of Sessions. *)
LEMMA GateInvSafe ==
  ASSUME GatewayInv
  PROVE  GatewayTypeOK /\ NoneLeftBehind /\ GaugeAgrees /\ DrainSaysSo /\ CloseMeansReleased
<1>1. CountedSessions \in SUBSET SessionIds /\ EndedSessions \in SUBSET SessionIds
  BY DEF CountedSessions, EndedSessions
<1>2. IsFiniteSet(CountedSessions) /\ Cardinality(CountedSessions) \in Nat /\ Cardinality(EndedSessions) \in Nat
  BY <1>1, GateFinite
<1>3. sessionsActive = Cardinality(CountedSessions) - Cardinality(EndedSessions)
  BY DEF GatewayInv
<1>4. sessionsActive \in Int
  BY <1>2, <1>3
<1>5. GatewayTypeOK
  BY <1>4 DEF GatewayInv, GatewayTypeOK, GateSessions, GateCalls
<1>6. NoneLeftBehind
  BY DEF GatewayInv, NoneLeftBehind, SessionHolds
<1>7. DrainSaysSo
  BY DEF GatewayInv, DrainSaysSo, CallHolds
<1>8. CloseMeansReleased
  BY DEF GatewayInv, CloseMeansReleased, CallHolds, SessionCtxDone
<1>9. GaugeAgrees
  <2> SUFFICES ASSUME \A k \in CallIds : ~At(k, "count"),
                      \A s \in SessionIds : gwSess[s].stage \in {"none", "open", "ended"}
               PROVE  sessionsActive = Cardinality(ById)
    BY DEF GaugeAgrees
  <2>1. \A s \in SessionIds : gwSess[s].counted <=> gwSess[s].stage # "none"
    BY DEF GatewayInv, SessionHolds, At
  <2>2. ById = CountedSessions \ EndedSessions /\ CountedSessions \cap EndedSessions = EndedSessions
    BY <2>1 DEF ById, InMap, CountedSessions, EndedSessions
  <2>3. Cardinality(CountedSessions \ EndedSessions)
          = Cardinality(CountedSessions) - Cardinality(CountedSessions \cap EndedSessions)
    BY <1>2, FS_Difference
  <2> QED BY <1>3, <2>2, <2>3
<1> QED BY <1>5, <1>6, <1>7, <1>8, <1>9

-------------------------------------------------------------------------------
(* The player's client. *)

(* A submit's record. *)
PlayLines ==
  [by : {"none", "repl", "first", "look"}, at : {"none", "expected", "check", "wait", "hold", "done"},
   sess : PlaySessions \cup {0}, attempt : 0..(maxSubmitAttempts + maxHoldAttempts),
   held : 0..maxHoldAttempts,
   told : {"none", "accepted", "refused", "not_sent", "unknown", "not_answered"}]

Nowhere(r) == \A s \in PlaySessions : <<s, r>> \notin taken /\ <<s, r>> \notin onTheWay

(* A line lives on the Session its first attempt read, and what is awaited of *)
(* it can still come.                                                         *)
LineHolds(r) ==
  /\ submits[r].at \in {"none", "expected"} =>
       /\ submits[r].attempt = 0 /\ submits[r].held = 0 /\ submits[r].told = "none"
       /\ Nowhere(r) /\ r \notin shown
  /\ submits[r].at = "none" => r \notin pending
  /\ submits[r].at # "none" => sessionID # 0
  /\ submits[r].at \in {"check", "wait", "hold"} =>
       /\ submits[r].sess # 0 /\ submits[r].attempt >= 1 /\ submits[r].told = "none"
       /\ submits[r].attempt <= maxSubmitAttempts + submits[r].held
  /\ submits[r].at = "hold" => submits[r].attempt < maxSubmitAttempts + submits[r].held
  /\ submits[r].at \in {"check", "wait"} /\ submits[r].attempt = 1 => Nowhere(r)
  /\ submits[r].told = "not_sent" => Nowhere(r)
  /\ \A s \in PlaySessions : <<s, r>> \in taken \/ <<s, r>> \in onTheWay => s = submits[r].sess
  /\ r \in pending =>
       /\ r \notin shown
       /\ submits[r].at \notin {"none", "expected"} => submits[r].sess = sessionID
       /\ submits[r].at = "done" => submits[r].told = "accepted"

PlayTypes ==
  /\ sessionID \in 0..MaxPlaySessions
  /\ pending \in SUBSET Refs /\ shown \in SUBSET Refs
  /\ looked \in BOOLEAN /\ entered \in BOOLEAN /\ left \in BOOLEAN
  /\ streamAt \in {"open", "enter", "subscribe", "read", "lost", "fatal", "returned"}
  /\ submits \in [Refs -> PlayLines]
  /\ served \in SUBSET PlaySessions
  /\ taken \in SUBSET (PlaySessions \X Refs)
  /\ onTheWay \in SUBSET (PlaySessions \X Refs)

FirstLook == \E r \in Refs : submits[r].at # "none" /\ submits[r].by = "first"

PlayInv ==
  /\ PlayTypes
  /\ \E n \in 0..MaxRefs : \A r \in Refs : submits[r].at # "none" <=> r <= n
  /\ \A r \in Refs : LineHolds(r)
  /\ streamAt = "read" \/ looked \/ shown # {} => FirstLook

(* Nothing typed, no Session, no stream. *)
LEMMA PlayInitInv == PlayInit => PlayInv
<1> SUFFICES ASSUME PlayInit PROVE PlayInv
  OBVIOUS
<1> USE PlayAssumption
<1>1. NoLine \in PlayLines
  BY DEF NoLine, PlayLines
<1>2. submits \in [Refs -> PlayLines] /\ \A r \in Refs : submits[r] = NoLine
  BY <1>1 DEF PlayInit
<1>3. PlayTypes
  <2>1. sessionID \in 0..MaxPlaySessions
    BY DEF PlayInit
  <2>2. looked \in BOOLEAN /\ entered \in BOOLEAN /\ left \in BOOLEAN
    BY Zenon DEF PlayInit
  <2>3. /\ pending \in SUBSET Refs /\ shown \in SUBSET Refs /\ served \in SUBSET PlaySessions
        /\ taken \in SUBSET (PlaySessions \X Refs) /\ onTheWay \in SUBSET (PlaySessions \X Refs)
        /\ streamAt \in {"open", "enter", "subscribe", "read", "lost", "fatal", "returned"}
    BY DEF PlayInit
  <2> QED BY <1>2, <2>1, <2>2, <2>3 DEF PlayTypes
<1>4. \A r \in Refs : LineHolds(r)
  BY <1>2 DEF PlayInit, LineHolds, NoLine, Nowhere
<1>5. \A r \in Refs : submits[r].at # "none" <=> r <= 0
  BY <1>2 DEF NoLine, Refs
<1>6. \E n \in 0..MaxRefs : \A r \in Refs : submits[r].at # "none" <=> r <= n
  BY <1>5
<1> QED BY <1>3, <1>4, <1>6 DEF PlayInv, PlayInit

(* One line moves on; the others and what became of them stay. *)
LEMMA PlayLineMoves ==
  ASSUME PlayInv, NEW r \in Refs, NEW x \in PlayLines, submits' = [submits EXCEPT ![r] = x],
         submits[r].at # "none", x.at # "none", x.by = submits[r].by,
         UNCHANGED <<sessionID, looked, entered, left, shown>>,
         streamAt' = streamAt \/ streamAt' = "lost",
         pending' = pending \/ pending' = pending \ {r},
         served' \in SUBSET PlaySessions,
         taken' \in SUBSET (PlaySessions \X Refs), onTheWay' \in SUBSET (PlaySessions \X Refs),
         \A s \in PlaySessions : \A j \in Refs \ {r} :
           (<<s, j>> \in taken' <=> <<s, j>> \in taken) /\ (<<s, j>> \in onTheWay' <=> <<s, j>> \in onTheWay),
         LineHolds(r)'
  PROVE  PlayInv'
<1>1. submits' \in [Refs -> PlayLines] /\ submits'[r] = x /\ \A j \in Refs \ {r} : submits'[j] = submits[j]
  BY DEF PlayInv, PlayTypes
<1>2. PlayTypes'
  BY <1>1 DEF PlayInv, PlayTypes
<1>3. (\A j \in Refs : LineHolds(j))'
  <2> SUFFICES ASSUME NEW j \in Refs, j # r PROVE LineHolds(j)'
    OBVIOUS
  <2>1. LineHolds(j) /\ submits'[j] = submits[j]
    BY <1>1 DEF PlayInv
  <2>2. Nowhere(j) => Nowhere(j)'
    BY DEF Nowhere
  <2>3. j \in pending' => j \in pending
    OBVIOUS
  <2> QED BY <2>1, <2>2, <2>3 DEF LineHolds
<1>4. \A j \in Refs : submits'[j].at # "none" <=> submits[j].at # "none"
  BY <1>1
<1>5. \E n \in 0..MaxRefs : \A j \in Refs : submits'[j].at # "none" <=> j <= n
  BY <1>4 DEF PlayInv
<1>6. FirstLook => FirstLook'
  BY <1>1 DEF FirstLook
<1> QED BY <1>2, <1>3, <1>5, <1>6 DEF PlayInv

(* Steps that leave the lines alone, and what they add to the log was on its way. *)
LEMMA PlayFrame ==
  ASSUME PlayInv, PlayTypes', UNCHANGED submits,
         sessionID' # sessionID => pending' = {} /\ sessionID' # 0,
         pending' \subseteq pending,
         \A r \in shown' : r \in shown \/ \E s \in PlaySessions : <<s, r>> \in taken,
         \A r \in pending' : r \notin shown',
         \A s \in PlaySessions : \A r \in Refs : <<s, r>> \in taken' \/ <<s, r>> \in onTheWay'
           => <<s, r>> \in taken \/ <<s, r>> \in onTheWay,
         streamAt' = "read" \/ looked' \/ shown' # {} => FirstLook
  PROVE  PlayInv'
<1>1. (\A r \in Refs : LineHolds(r))'
  <2> SUFFICES ASSUME NEW r \in Refs PROVE LineHolds(r)'
    OBVIOUS
  <2>1. LineHolds(r)
    BY DEF PlayInv
  <2>2. Nowhere(r) => Nowhere(r)'
    BY DEF Nowhere
  <2>3. Nowhere(r) /\ r \notin shown => r \notin shown'
    BY DEF Nowhere
  <2> QED BY <2>1, <2>2, <2>3 DEF LineHolds
<1>2. FirstLook' <=> FirstLook
  BY DEF FirstLook
<1> QED BY <1>1, <1>2 DEF PlayInv

(* What submit makes of an answer. *)
LEMMA PlayTakes ==
  ASSUME PlayInv, NEW r \in Refs, submits[r].at = "wait",
         NEW answer \in {"ok", "refused", "held", "outcome_unknown", "unauthenticated", "deadline"},
         Takes(r, answer)
  PROVE  /\ streamAt' = streamAt \/ streamAt' = "lost"
         /\ \E x \in PlayLines :
              /\ submits' = [submits EXCEPT ![r] = x]
              /\ x.by = submits[r].by /\ x.sess = submits[r].sess
              /\ \/ /\ answer = "deadline" /\ x.at = "check" /\ x.told = "none" /\ x.held = submits[r].held
                    /\ x.attempt = submits[r].attempt + 1 /\ x.attempt <= maxSubmitAttempts
                    /\ pending' = pending
                 \/ /\ answer = "held" /\ x.at = "hold" /\ x.told = "none" /\ x.held = submits[r].held + 1
                    /\ x.attempt = submits[r].attempt /\ pending' = pending
                 \/ /\ x.at = "done"
                    /\ x.told = "not_sent" => answer = "unauthenticated" /\ submits[r].attempt = 1
                    /\ \/ answer = "ok" /\ x.told = "accepted" /\ pending' = pending
                       \/ answer # "ok" /\ pending' = pending \ {r}
<1> USE PlayAssumption
<1> DEFINE s == submits[r]
           again == answer = "deadline" /\ s.attempt < maxSubmitAttempts
           hold == answer = "held" /\ s.held < maxHoldAttempts
           told == CASE answer = "ok" -> "accepted"
                     [] answer = "deadline" -> "not_answered"
                     [] answer = "outcome_unknown" -> "unknown"
                     [] answer = "unauthenticated" -> IF NotSent(r) THEN "not_sent" ELSE "unknown"
                     [] OTHER -> "refused"
<1>1. s \in PlayLines /\ submits \in [Refs -> PlayLines] /\ LineHolds(r)
  BY DEF PlayInv, PlayTypes
<1>2. s.attempt \in Nat /\ s.attempt >= 1 /\ s.attempt <= maxSubmitAttempts + s.held
      /\ s.held \in 0..maxHoldAttempts /\ s.told = "none"
  BY <1>1 DEF LineHolds, PlayLines
<1>3. streamAt' = streamAt \/ streamAt' = "lost"
  BY DEF Takes, StreamEnded
<1>4. CASE again
  <2> DEFINE x == [s EXCEPT !.at = "check", !.attempt = s.attempt + 1]
  <2>0. Again(r) /\ pending' = pending
    BY <1>4 DEF Takes
  <2>1. submits' = [submits EXCEPT ![r] = x] /\ pending' = pending
    BY <1>1, <2>0 DEF Again, PlayLines
  <2>2. s.attempt + 1 \in 0..(maxSubmitAttempts + maxHoldAttempts) /\ s.attempt + 1 <= maxSubmitAttempts
    BY <1>2, <1>4
  <2>3. x \in PlayLines /\ x.by = s.by /\ x.sess = s.sess /\ x.at = "check" /\ x.told = s.told
        /\ x.held = s.held /\ x.attempt = s.attempt + 1
    BY <1>1, <2>2 DEF PlayLines
  <2> HIDE DEF x
  <2> QED BY <1>2, <1>3, <1>4, <2>1, <2>2, <2>3
<1>5. CASE hold
  <2> DEFINE x == [s EXCEPT !.at = "hold", !.held = s.held + 1]
  <2>0. submits' = [submits EXCEPT ![r].at = "hold", ![r].held = @ + 1] /\ pending' = pending
    BY <1>5 DEF Takes
  <2>1. submits' = [submits EXCEPT ![r] = x] /\ pending' = pending
    BY <1>1, <2>0 DEF PlayLines
  <2>2. s.held + 1 \in 0..maxHoldAttempts
    BY <1>2, <1>5
  <2>3. x \in PlayLines /\ x.by = s.by /\ x.sess = s.sess /\ x.at = "hold" /\ x.told = s.told
        /\ x.held = s.held + 1 /\ x.attempt = s.attempt
    BY <1>1, <2>2 DEF PlayLines
  <2> HIDE DEF x
  <2> QED BY <1>2, <1>3, <1>5, <2>1, <2>3
<1>6. CASE ~again /\ ~hold
  <2> DEFINE x == [s EXCEPT !.at = "done", !.told = told, !.attempt = 0, !.held = 0]
  <2>1. submits' = [submits EXCEPT ![r] = x]
    BY <1>1, <1>6 DEF Takes, Ends
  <2>2. pending' = IF answer = "ok" THEN pending ELSE pending \ {r}
    BY <1>6 DEF Takes
  <2>3. told \in {"accepted", "not_answered", "unknown", "not_sent", "refused"}
        /\ (told = "not_sent" => answer = "unauthenticated" /\ s.attempt = 1)
        /\ (answer = "ok" => told = "accepted")
    BY DEF NotSent
  <2>4. 0 \in 0..(maxSubmitAttempts + maxHoldAttempts) /\ 0 \in 0..maxHoldAttempts
    OBVIOUS
  <2> HIDE DEF told
  <2>5. x \in PlayLines /\ x.by = s.by /\ x.sess = s.sess /\ x.at = "done" /\ x.told = told
    BY <1>1, <2>3, <2>4 DEF PlayLines
  <2> HIDE DEF x
  <2> QED BY <1>3, <2>1, <2>2, <2>3, <2>5
<1> QED BY <1>4, <1>5, <1>6

(* A submit is answered, or its deadline passes. *)
LEMMA PlayAnswers ==
  ASSUME PlayInv, NEW r \in Refs, Answer(r) \/ DeadlinePasses(r)
  PROVE  PlayInv'
<1> USE PlayAssumption
<1>1. submits[r].at = "wait" /\ UNCHANGED <<sessionID, looked, entered, left, shown>>
  BY DEF Answer, DeadlinePasses
<1>2. submits[r] \in PlayLines /\ submits \in [Refs -> PlayLines] /\ LineHolds(r)
  BY DEF PlayInv, PlayTypes
<1>3. PICK s \in PlaySessions : s = submits[r].sess
  BY <1>1, <1>2 DEF LineHolds, PlayLines
<1>4. PICK answer \in {"ok", "refused", "held", "outcome_unknown", "unauthenticated", "deadline"} :
        /\ Takes(r, answer)
        /\ served' \in SUBSET PlaySessions
        /\ taken' = taken \/ (taken' = taken \cup {<<s, r>>} /\ answer \in {"ok", "outcome_unknown", "refused"})
        /\ onTheWay' = onTheWay \/ (onTheWay' = onTheWay \cup {<<s, r>>} /\ answer = "deadline")
  <2>1. CASE DeadlinePasses(r)
    BY <2>1, <1>3 DEF DeadlinePasses, PlayInv, PlayTypes
  <2>2. CASE Answer(r)
    <3>1. served \in SUBSET PlaySessions
      BY DEF PlayInv, PlayTypes
    <3>2. CASE Takes(r, "unauthenticated") /\ UNCHANGED worldSide
      BY <3>1, <3>2 DEF worldSide
    <3>3. CASE Takes(r, "ok") /\ TakesLine(r) /\ UNCHANGED <<served, onTheWay>>
      BY <3>1, <3>3, <1>3 DEF TakesLine
    <3>4. CASE Takes(r, "refused") /\ UNCHANGED worldSide
      BY <3>1, <3>4 DEF worldSide
    <3>5. CASE Takes(r, "held") /\ UNCHANGED worldSide
      BY <3>1, <3>5 DEF worldSide
    <3>6. CASE Takes(r, "outcome_unknown") /\ MaybeTaken(r) /\ UNCHANGED <<served, onTheWay>>
      BY <3>1, <3>6, <1>3 DEF TakesLine, MaybeTaken
    <3>7. CASE Takes(r, "refused") /\ MaybeTaken(r)
               /\ served' = served \ {submits[r].sess} /\ UNCHANGED onTheWay
      BY <3>1, <3>7, <1>3 DEF TakesLine, MaybeTaken
    <3> QED BY <2>2, <3>2, <3>3, <3>4, <3>5, <3>6, <3>7 DEF Answer
  <2> QED BY <2>1, <2>2
<1>5. PICK x \in PlayLines :
        /\ submits' = [submits EXCEPT ![r] = x]
        /\ x.by = submits[r].by /\ x.sess = submits[r].sess
        /\ \/ /\ answer = "deadline" /\ x.at = "check" /\ x.told = "none" /\ x.held = submits[r].held
              /\ x.attempt = submits[r].attempt + 1 /\ x.attempt <= maxSubmitAttempts
              /\ pending' = pending
           \/ /\ answer = "held" /\ x.at = "hold" /\ x.told = "none" /\ x.held = submits[r].held + 1
              /\ x.attempt = submits[r].attempt /\ pending' = pending
           \/ /\ x.at = "done"
              /\ x.told = "not_sent" => answer = "unauthenticated" /\ submits[r].attempt = 1
              /\ \/ answer = "ok" /\ x.told = "accepted" /\ pending' = pending
                 \/ answer # "ok" /\ pending' = pending \ {r}
  BY <1>1, <1>4, PlayTakes
<1>6. streamAt' = streamAt \/ streamAt' = "lost"
  BY <1>1, <1>4, PlayTakes
<1>7. taken' \in SUBSET (PlaySessions \X Refs) /\ onTheWay' \in SUBSET (PlaySessions \X Refs)
  BY <1>4 DEF PlayInv, PlayTypes
<1>8. \A t \in PlaySessions : \A j \in Refs :
        /\ j # r \/ t # s => (<<t, j>> \in taken' <=> <<t, j>> \in taken)
                             /\ (<<t, j>> \in onTheWay' <=> <<t, j>> \in onTheWay)
  BY <1>4
<1>9. answer \in {"unauthenticated", "held"} => taken' = taken /\ onTheWay' = onTheWay
  BY <1>4
<1>10. submits'[r] = x
  BY <1>2, <1>5
<1>11. x.attempt \in Nat /\ x.held \in Nat /\ submits[r].attempt \in Nat /\ submits[r].held \in Nat
       /\ submits[r].attempt >= 1 /\ submits[r].attempt <= maxSubmitAttempts + submits[r].held
       /\ submits[r].sess # 0 /\ submits[r].told = "none" /\ sessionID # 0
       /\ (r \in pending => r \notin shown /\ submits[r].sess = sessionID)
       /\ (submits[r].attempt = 1 => Nowhere(r))
  BY <1>1, <1>2 DEF LineHolds, PlayLines
<1>12. \A t \in PlaySessions : <<t, r>> \in taken' \/ <<t, r>> \in onTheWay' => t = x.sess
  BY <1>2, <1>3, <1>5, <1>8 DEF LineHolds
<1>13. LineHolds(r)'
  <2>1. CASE x.at = "check"
    <3>1. x.attempt > 1 /\ x.attempt <= maxSubmitAttempts + x.held /\ pending' = pending /\ x.told = "none"
      BY <1>5, <1>11, <2>1
    <3> QED BY <1>1, <1>5, <1>10, <1>11, <1>12, <2>1, <3>1 DEF LineHolds
  <2>2. CASE x.at = "hold"
    <3>1. x.attempt >= 1 /\ x.attempt < maxSubmitAttempts + x.held /\ pending' = pending /\ x.told = "none"
      BY <1>5, <1>11, <2>2
    <3> QED BY <1>1, <1>5, <1>10, <1>11, <1>12, <2>2, <3>1 DEF LineHolds
  <2>3. CASE x.at = "done"
    <3>1. x.told = "not_sent" => Nowhere(r)'
      BY <1>5, <1>9, <1>11, <2>3 DEF Nowhere
    <3>2. r \in pending' => r \in pending /\ x.told = "accepted"
      BY <1>5, <2>3
    <3> QED BY <1>1, <1>5, <1>10, <1>11, <1>12, <2>3, <3>1, <3>2 DEF LineHolds
  <2> QED BY <1>5, <2>1, <2>2, <2>3
<1>14. x.at # "none" /\ (pending' = pending \/ pending' = pending \ {r})
  BY <1>5
<1> QED BY <1>1, <1>4, <1>5, <1>6, <1>7, <1>8, <1>13, <1>14, PlayLineMoves

(* A submit reads the Session, is sent, or waits to be sent again. *)
LEMMA PlaySubmits ==
  ASSUME PlayInv, NEW r \in Refs, ReadSession(r) \/ Attempt(r) \/ HoldEnds(r)
  PROVE  PlayInv'
<1> USE PlayAssumption
<1>1. submits[r] \in PlayLines /\ submits \in [Refs -> PlayLines] /\ LineHolds(r)
  BY DEF PlayInv, PlayTypes
<1>2. UNCHANGED <<sessionID, looked, entered, left, streamAt, served, taken, onTheWay, shown>>
  BY DEF ReadSession, Attempt, HoldEnds, playerVars, worldSide
<1>3. served' \in SUBSET PlaySessions /\ taken' \in SUBSET (PlaySessions \X Refs)
      /\ onTheWay' \in SUBSET (PlaySessions \X Refs) /\ sessionID \in 0..MaxPlaySessions
  BY <1>2 DEF PlayInv, PlayTypes
<1>4. Nowhere(r)' <=> Nowhere(r)
  BY <1>2 DEF Nowhere
<1>5. CASE ReadSession(r)
  <2> DEFINE x == [submits[r] EXCEPT !.at = "check", !.sess = sessionID, !.attempt = 1]
  <2>1. submits' = [submits EXCEPT ![r] = x] /\ submits[r].at = "expected" /\ pending' = pending
    BY <1>1, <1>5 DEF ReadSession, playerVars
  <2>2. 1 \in 0..(maxSubmitAttempts + maxHoldAttempts) /\ sessionID \in PlaySessions /\ sessionID # 0
    BY <1>1, <1>3, <2>1 DEF LineHolds, PlaySessions
  <2>3. x \in PlayLines /\ x.at = "check" /\ x.sess = sessionID /\ x.attempt = 1 /\ x.by = submits[r].by
        /\ x.held = submits[r].held /\ x.told = submits[r].told
    BY <1>1, <2>2 DEF PlayLines
  <2> HIDE DEF x
  <2>4. submits'[r] = x
    BY <1>1, <2>1
  <2>5. x.held = 0 /\ x.told = "none" /\ Nowhere(r) /\ r \notin shown /\ 1 <= maxSubmitAttempts + 0
    BY <1>1, <2>1, <2>3 DEF LineHolds
  <2>6. LineHolds(r)'
    BY <1>2, <1>4, <2>1, <2>2, <2>3, <2>4, <2>5 DEF LineHolds, Nowhere
  <2> QED BY <1>2, <1>3, <2>1, <2>3, <2>6, PlayLineMoves
<1>6. CASE HoldEnds(r)
  <2> DEFINE x == [submits[r] EXCEPT !.at = "check", !.attempt = submits[r].attempt + 1]
  <2>1. submits' = [submits EXCEPT ![r] = x] /\ submits[r].at = "hold" /\ pending' = pending
    BY <1>1, <1>6 DEF HoldEnds, Again, playerVars
  <2>2. submits[r].attempt \in Nat /\ submits[r].held \in 0..maxHoldAttempts
        /\ submits[r].attempt < maxSubmitAttempts + submits[r].held /\ submits[r].attempt >= 1
    BY <1>1, <2>1 DEF LineHolds, PlayLines
  <2>3. submits[r].attempt + 1 \in 0..(maxSubmitAttempts + maxHoldAttempts)
        /\ submits[r].attempt + 1 <= maxSubmitAttempts + submits[r].held /\ submits[r].attempt + 1 > 1
    BY <2>2
  <2>4. x \in PlayLines /\ x.at = "check" /\ x.sess = submits[r].sess /\ x.attempt = submits[r].attempt + 1
        /\ x.by = submits[r].by /\ x.held = submits[r].held /\ x.told = submits[r].told
    BY <1>1, <2>3 DEF PlayLines
  <2> HIDE DEF x
  <2>5. submits'[r] = x
    BY <1>1, <2>1
  <2>6. LineHolds(r)'
    BY <1>1, <1>2, <1>4, <2>1, <2>3, <2>4, <2>5 DEF LineHolds
  <2> QED BY <1>2, <1>3, <2>1, <2>4, <2>6, PlayLineMoves
<1>7. CASE Attempt(r) /\ submits[r].sess = sessionID
  <2> DEFINE x == [submits[r] EXCEPT !.at = "wait"]
  <2>1. submits' = [submits EXCEPT ![r] = x] /\ submits[r].at = "check" /\ pending' = pending
    BY <1>1, <1>7 DEF Attempt, SendOrGiveUp
  <2>2. x \in PlayLines /\ x.at = "wait" /\ x.sess = submits[r].sess /\ x.attempt = submits[r].attempt
        /\ x.by = submits[r].by /\ x.held = submits[r].held /\ x.told = submits[r].told
    BY <1>1 DEF PlayLines
  <2> HIDE DEF x
  <2>3. submits'[r] = x
    BY <1>1, <2>1
  <2>4. LineHolds(r)'
    BY <1>1, <1>2, <1>4, <2>1, <2>2, <2>3 DEF LineHolds
  <2> QED BY <1>2, <1>3, <2>1, <2>2, <2>4, PlayLineMoves
<1>8. CASE Attempt(r) /\ submits[r].sess # sessionID
  <2> DEFINE x == [submits[r] EXCEPT !.at = "done", !.told = "unknown", !.attempt = 0, !.held = 0]
  <2>1. submits' = [submits EXCEPT ![r] = x] /\ submits[r].at = "check" /\ pending' = pending \ {r}
    BY <1>1, <1>8 DEF Attempt, SendOrGiveUp, Ends
  <2>2. 0 \in 0..(maxSubmitAttempts + maxHoldAttempts) /\ 0 \in 0..maxHoldAttempts
    OBVIOUS
  <2>3. x \in PlayLines /\ x.at = "done" /\ x.sess = submits[r].sess /\ x.by = submits[r].by /\ x.told = "unknown"
    BY <1>1, <2>2 DEF PlayLines
  <2> HIDE DEF x
  <2>4. submits'[r] = x /\ r \notin pending'
    BY <1>1, <2>1
  <2>5. LineHolds(r)'
    BY <1>1, <1>2, <2>1, <2>3, <2>4 DEF LineHolds
  <2> QED BY <1>2, <1>3, <2>1, <2>3, <2>5, PlayLineMoves
<1> QED BY <1>5, <1>6, <1>7, <1>8

(* The refs are given out in order. *)
LEMMA PlayNextRef ==
  ASSUME PlayInv
  PROVE  /\ NextRef \in Nat \ {0}
         /\ \A r \in Refs : submits[r].at # "none" <=> r < NextRef
<1> USE PlayAssumption
<1>1. PICK n \in 0..MaxRefs : \A r \in Refs : submits[r].at # "none" <=> r <= n
  BY DEF PlayInv
<1>2. Used = 1..n
  BY <1>1 DEF Used, Refs
<1>3. Cardinality(1..n) = n
  BY FS_Interval
<1>4. NextRef = n + 1
  BY <1>2, <1>3 DEF NextRef
<1> QED BY <1>1, <1>4 DEF Refs

(* A line is expected to be submitted. *)
LEMMA PlayExpects ==
  ASSUME PlayInv, NEW by \in {"repl", "first", "look"}, Expect(by), sessionID # 0,
         UNCHANGED <<sessionID, entered, left, served, taken, onTheWay, shown>>,
         looked' \in BOOLEAN,
         streamAt' \in {"open", "enter", "subscribe", "read", "lost", "fatal", "returned"},
         (streamAt' = "read" \/ looked') => FirstLook \/ by = "first"
  PROVE  PlayInv'
<1> USE PlayAssumption
<1>1. PICK q \in Refs : q = NextRef
  BY DEF Expect
<1>2. submits[q].at = "none" /\ \A r \in Refs : submits[r].at # "none" <=> r < q
  BY <1>1, PlayNextRef DEF Refs
<1> DEFINE x == [NoLine EXCEPT !.by = by, !.at = "expected"]
<1>3. submits' = [submits EXCEPT ![q] = x] /\ pending' = pending \cup {q}
  BY <1>1 DEF Expect
<1>4. x \in PlayLines /\ x.by = by /\ x.at = "expected" /\ x.attempt = 0 /\ x.held = 0 /\ x.told = "none"
  <2>1. 0 \in 0..(maxSubmitAttempts + maxHoldAttempts) /\ 0 \in 0..maxHoldAttempts
    OBVIOUS
  <2>2. NoLine \in PlayLines /\ NoLine.attempt = 0 /\ NoLine.held = 0 /\ NoLine.told = "none"
    BY <2>1 DEF NoLine, PlayLines
  <2> QED BY <2>2 DEF PlayLines
<1> HIDE DEF x
<1>5. submits' \in [Refs -> PlayLines] /\ submits'[q] = x /\ \A j \in Refs \ {q} : submits'[j] = submits[j]
  BY <1>3, <1>4 DEF PlayInv, PlayTypes
<1>6. PlayTypes'
  BY <1>3, <1>5 DEF PlayInv, PlayTypes
<1>7. (\A j \in Refs : LineHolds(j))'
  <2> SUFFICES ASSUME NEW j \in Refs PROVE LineHolds(j)'
    OBVIOUS
  <2>1. LineHolds(j) /\ (Nowhere(j)' <=> Nowhere(j))
    BY DEF PlayInv, Nowhere
  <2>2. CASE j = q
    <3>1. Nowhere(j) /\ j \notin shown
      BY <1>2, <2>1, <2>2 DEF LineHolds
    <3> QED BY <1>4, <1>5, <2>1, <2>2, <3>1 DEF LineHolds, Nowhere
  <2>3. CASE j # q
    <3>1. submits'[j] = submits[j] /\ (j \in pending' <=> j \in pending)
      BY <1>3, <1>5, <2>3
    <3> QED BY <2>1, <3>1 DEF LineHolds
  <2> QED BY <2>2, <2>3
<1>8. q \in 0..MaxRefs /\ \A j \in Refs : submits'[j].at # "none" <=> j <= q
  BY <1>2, <1>4, <1>5 DEF Refs
<1>9. (FirstLook => FirstLook') /\ (by = "first" => FirstLook')
  BY <1>2, <1>4, <1>5 DEF FirstLook
<1>10. shown' # {} => FirstLook
  BY DEF PlayInv
<1> QED BY <1>6, <1>7, <1>8, <1>9, <1>10 DEF PlayInv

(* A line is typed, or the stream attached. *)
LEMMA PlayTypesAndAttaches ==
  ASSUME PlayInv, TypeLine \/ Attached
  PROVE  PlayInv'
<1> USE PlayAssumption
<1>1. PlayTypes
  BY DEF PlayInv
<1>2. CASE TypeLine
  <2>1. Expect("repl") /\ UNCHANGED <<sessionID, looked, entered, left, streamAt, served, taken, onTheWay, shown>>
    BY <1>2 DEF TypeLine, worldSide
  <2>2. \E r \in Refs : submits[r].at # "none"
    BY <1>2 DEF TypeLine, Ready, Used
  <2>3. sessionID # 0
    BY <2>2 DEF PlayInv, LineHolds
  <2>4. streamAt = "read" \/ looked => FirstLook
    BY DEF PlayInv
  <2> QED BY <1>1, <2>1, <2>3, <2>4, PlayExpects DEF PlayTypes
<1>3. CASE Attached
  <2>1. UNCHANGED <<sessionID, entered, left, served, taken, onTheWay, shown>> /\ sessionID \in served
        /\ looked' = TRUE /\ streamAt' = "read"
    BY <1>3 DEF Attached, worldSide
  <2>2. sessionID # 0
    BY <1>1, <2>1 DEF PlayTypes, PlaySessions
  <2>3. looked \/ LastSeen => FirstLook
    BY DEF PlayInv, LastSeen
  <2>4. CASE Expect("first")
    BY <2>1, <2>2, <2>4, PlayExpects
  <2>5. CASE LastSeen /\ Expect("look")
    BY <2>1, <2>2, <2>3, <2>5, PlayExpects
  <2>6. CASE (looked \/ LastSeen) /\ UNCHANGED <<submits, pending>>
    <3>1. PlayTypes'
      BY <1>1, <2>1, <2>6 DEF PlayTypes
    <3>2. \A r \in pending' : r \notin shown'
      BY <1>1, <2>1, <2>6 DEF PlayInv, LineHolds, PlayTypes
    <3> QED BY <2>1, <2>3, <2>6, <3>1, <3>2, PlayFrame
  <2> QED BY <1>3, <2>4, <2>5, <2>6 DEF Attached
<1> QED BY <1>2, <1>3

(* The stream loop: a Session ends, another is opened and entered, or none *)
(* can be.                                                                 *)
LEMMA PlayLoops ==
  ASSUME PlayInv, Arrives \/ SessionEnds \/ OpensSession \/ OpenFatal \/ Enters \/ LoopDecides
  PROVE  PlayInv'
<1> USE PlayAssumption
<1>1. PlayTypes /\ \A r \in pending : r \notin shown
  BY DEF PlayInv, LineHolds, PlayTypes
<1>2. UNCHANGED <<submits, shown>>
  BY DEF Arrives, SessionEnds, OpensSession, OpenFatal, Enters, LoopDecides
<1>3. streamAt = "read" \/ looked \/ shown # {} => FirstLook
  BY DEF PlayInv
<1>4. CASE Arrives
  <2>1. PICK m \in onTheWay : onTheWay' = onTheWay \ {m} /\ (taken' = taken \cup {m} \/ UNCHANGED taken)
    BY <1>4 DEF Arrives
  <2>2. UNCHANGED <<sessionID, pending, looked, entered, left, streamAt, served>>
    BY <1>4 DEF Arrives, playerVars
  <2>3. PlayTypes'
    BY <1>1, <1>2, <2>1, <2>2 DEF PlayTypes
  <2>4. \A t \in PlaySessions : \A r \in Refs : <<t, r>> \in taken' \/ <<t, r>> \in onTheWay'
          => <<t, r>> \in taken \/ <<t, r>> \in onTheWay
    BY <2>1
  <2> QED BY <1>1, <1>2, <1>3, <2>2, <2>3, <2>4, PlayFrame
<1>5. CASE SessionEnds \/ OpenFatal \/ LoopDecides \/ Enters
  <2>1. UNCHANGED <<sessionID, pending, looked, taken, onTheWay>> /\ streamAt' \in {streamAt, "subscribe", "lost", "fatal", "returned"}
    BY <1>5 DEF SessionEnds, OpenFatal, LoopDecides, Enters, playerVars, worldSide
  <2>2. served' \in SUBSET PlaySessions
    BY <1>1, <1>5 DEF SessionEnds, OpenFatal, LoopDecides, Enters, playerVars, worldSide, PlayTypes
  <2>3. entered' \in BOOLEAN /\ left' \in BOOLEAN
    <3>1. entered' \in {entered, TRUE} /\ left' \in {left, TRUE}
      BY <1>5 DEF SessionEnds, OpenFatal, LoopDecides, Enters, playerVars, worldSide
    <3> QED BY <1>1, <3>1 DEF PlayTypes
  <2>4. PlayTypes'
    BY <1>1, <1>2, <2>1, <2>2, <2>3 DEF PlayTypes
  <2>5. streamAt' = "read" => streamAt = "read"
    BY <2>1
  <2> QED BY <1>1, <1>2, <1>3, <2>1, <2>4, <2>5, PlayFrame
<1>6. CASE OpensSession
  <2>1. sessionID' = sessionID + 1 /\ looked' = FALSE /\ pending' = {} /\ sessionID < MaxPlaySessions
        /\ served' = served \cup {sessionID + 1} /\ streamAt' = "enter"
        /\ UNCHANGED <<entered, left, taken, onTheWay>>
    BY <1>6 DEF OpensSession, Opened
  <2>2. sessionID' \in 0..MaxPlaySessions /\ sessionID' # 0 /\ sessionID + 1 \in PlaySessions
    BY <1>1, <2>1 DEF PlayTypes, PlaySessions
  <2>3. PlayTypes'
    BY <1>1, <1>2, <2>1, <2>2 DEF PlayTypes
  <2> QED BY <1>2, <1>3, <2>1, <2>2, <2>3, PlayFrame
<1> QED BY <1>4, <1>5, <1>6

(* The client takes an Event. *)
LEMMA PlayHandlesEvent ==
  ASSUME PlayInv, HandleEvent
  PROVE  PlayInv'
<1>1. PlayTypes
  BY DEF PlayInv
<1>2. PICK q \in Refs : <<sessionID, q>> \in taken /\ q \notin shown
                        /\ shown' = shown \cup {q} /\ pending' = pending \ {q}
  BY DEF HandleEvent
<1>3. UNCHANGED <<sessionID, looked, entered, left, streamAt, submits, served, taken, onTheWay>> /\ streamAt = "read"
  BY DEF HandleEvent, worldSide
<1>4. PlayTypes'
  BY <1>1, <1>2, <1>3 DEF PlayTypes
<1>5. \A r \in pending' : r \notin shown'
  BY <1>1, <1>2 DEF PlayInv, LineHolds, PlayTypes
<1>6. sessionID \in PlaySessions
  BY <1>1, <1>2 DEF PlayTypes
<1>7. FirstLook
  BY <1>3 DEF PlayInv
<1> QED BY <1>2, <1>3, <1>4, <1>5, <1>6, <1>7, PlayFrame

(* The client leaves. *)
LEMMA PlayLeaves ==
  ASSUME PlayInv, Leaves
  PROVE  PlayInv'
<1> USE PlayAssumption
<1> DEFINE cut == {r \in Used : submits[r].at # "done"}
<1>1. PlayTypes
  BY DEF PlayInv
<1>2. /\ submits' = [r \in Refs |-> IF r \in cut THEN [submits[r] EXCEPT !.at = "done"] ELSE submits[r]]
      /\ pending' = pending \ cut
      /\ onTheWay' = onTheWay \cup {<<submits[r].sess, r>> : r \in {q \in cut : submits[q].at = "wait"}}
      /\ served' = served \ {sessionID} /\ streamAt' = "returned" /\ left' = TRUE
      /\ UNCHANGED <<sessionID, looked, entered, taken, shown>>
  BY DEF Leaves
<1>3. \A r \in Refs : r \in cut <=> submits[r].at \notin {"none", "done"}
  BY DEF Used
<1> HIDE DEF cut
<1>4. \A r \in Refs : submits[r] \in PlayLines /\ [submits[r] EXCEPT !.at = "done"] \in PlayLines
  BY <1>1 DEF PlayTypes, PlayLines
<1>5. submits' \in [Refs -> PlayLines]
  BY <1>2, <1>4
<1>6. \A r \in Refs :
        /\ submits'[r].by = submits[r].by /\ submits'[r].sess = submits[r].sess
        /\ submits'[r].told = submits[r].told /\ submits'[r].attempt = submits[r].attempt
        /\ submits'[r].held = submits[r].held
        /\ submits'[r].at = IF submits[r].at = "none" THEN "none" ELSE "done"
  BY <1>2, <1>3, <1>4 DEF PlayLines
<1>7. \A r \in Refs : submits[r].at = "wait" => submits[r].sess \in PlaySessions
  BY <1>4 DEF PlayInv, LineHolds, PlayLines
<1>8. onTheWay' \in SUBSET (PlaySessions \X Refs)
  BY <1>1, <1>2, <1>7 DEF PlayTypes, Used, cut
<1>9. \A r \in Refs : \A s \in PlaySessions : <<s, r>> \in onTheWay'
        => <<s, r>> \in onTheWay \/ (submits[r].at = "wait" /\ s = submits[r].sess)
  BY <1>2
<1>10. PlayTypes'
  <2>1. left' \in BOOLEAN /\ looked' \in BOOLEAN /\ entered' \in BOOLEAN
    BY <1>1, <1>2 DEF PlayTypes
  <2> QED BY <1>1, <1>2, <1>5, <1>8, <2>1 DEF PlayTypes
<1>11. (\A r \in Refs : LineHolds(r))'
  <2> SUFFICES ASSUME NEW r \in Refs PROVE LineHolds(r)'
    OBVIOUS
  <2>1. LineHolds(r)
    BY DEF PlayInv
  <2>2. Nowhere(r) /\ submits[r].at # "wait" => Nowhere(r)'
    BY <1>2, <1>9 DEF Nowhere
  <2>3. submits[r].told = "not_sent" => submits[r].at = "done" \/ submits[r].at = "none"
    BY <2>1, <1>4 DEF LineHolds, PlayLines
  <2>4. r \in pending' => r \in pending /\ submits[r].at = "done"
    BY <1>2, <1>3, <2>1 DEF LineHolds
  <2>5. submits'[r].told = "not_sent" => Nowhere(r)'
    BY <1>6, <2>1, <2>2, <2>3 DEF LineHolds
  <2>6. \A s \in PlaySessions : <<s, r>> \in taken' \/ <<s, r>> \in onTheWay' => s = submits'[r].sess
    BY <1>2, <1>6, <1>9, <2>1 DEF LineHolds
  <2>7. submits'[r].at = "none" => submits[r].at = "none" /\ Nowhere(r)'
    BY <1>6, <2>1, <2>2 DEF LineHolds
  <2>8. submits'[r].at \in {"none", "done"} /\ (submits'[r].at = "done" <=> submits[r].at # "none")
    BY <1>6
  <2> QED BY <1>2, <1>6, <2>1, <2>4, <2>5, <2>6, <2>7, <2>8 DEF LineHolds
<1>12. \A r \in Refs : submits'[r].at # "none" <=> submits[r].at # "none"
  BY <1>6
<1>13. \E n \in 0..MaxRefs : \A r \in Refs : submits'[r].at # "none" <=> r <= n
  BY <1>12 DEF PlayInv
<1>14. FirstLook => FirstLook'
  BY <1>6 DEF FirstLook
<1> QED BY <1>2, <1>10, <1>11, <1>13, <1>14 DEF PlayInv

(* Every step of the client and of the server it meets keeps the invariant. *)
LEMMA PlayStep ==
  ASSUME PlayInv, [PlayNext]_playVars
  PROVE  PlayInv'
<1>1. CASE UNCHANGED playVars
  <2>1. UNCHANGED <<sessionID, pending, looked, entered, left, streamAt, submits, served, taken, onTheWay, shown>>
    BY <1>1 DEF playVars, playerVars, worldSide
  <2>2. PlayTypes' /\ \A r \in pending' : r \notin shown'
    BY <2>1 DEF PlayInv, LineHolds, PlayTypes
  <2>3. streamAt = "read" \/ looked \/ shown # {} => FirstLook
    BY DEF PlayInv
  <2> QED BY <2>1, <2>2, <2>3, PlayFrame
<1>2. CASE PlayNext
  BY <1>2, PlayAnswers, PlaySubmits, PlayTypesAndAttaches, PlayLoops, PlayHandlesEvent, PlayLeaves
     DEF PlayNext
<1> QED BY <1>1, <1>2

(* What it says of types, lines and prompts. *)
LEMMA PlayInvSafe ==
  ASSUME PlayInv
  PROVE  PlayTypeOK /\ LineTakenOnce /\ NotSentIsNotTaken /\ AwaitsWhatMayCome /\ PromptWillCome
<1> USE PlayAssumption
<1>1. PlayTypes /\ \A r \in Refs : LineHolds(r)
  BY DEF PlayInv
<1>2. PlayTypeOK
  <2>1. sessionID \in PlaySessions \cup {0}
    BY <1>1 DEF PlayTypes, PlaySessions
  <2> QED BY <1>1, <2>1 DEF PlayTypes, PlayTypeOK, PlayLines
<1>3. LineTakenOnce
  <2> SUFFICES ASSUME NEW r \in Refs
               PROVE  Cardinality({s \in PlaySessions : <<s, r>> \in taken \cup onTheWay}) <= 1
    BY DEF LineTakenOnce
  <2> DEFINE on == {s \in PlaySessions : <<s, r>> \in taken \cup onTheWay}
  <2>1. on \in SUBSET {submits[r].sess}
    BY <1>1 DEF LineHolds
  <2>2. IsFiniteSet({submits[r].sess}) /\ Cardinality({submits[r].sess}) = 1
    BY FS_Singleton
  <2> HIDE DEF on
  <2>3. Cardinality(on) <= 1
    BY <2>1, <2>2, FS_Subset
  <2> QED BY <2>3 DEF on
<1>4. NotSentIsNotTaken
  BY <1>1 DEF NotSentIsNotTaken, LineHolds, Nowhere
<1>5. AwaitsWhatMayCome
  BY <1>1 DEF AwaitsWhatMayCome, LineHolds, PlayTypes
<1>6. PromptWillCome
  BY DEF PlayInv, PromptWillCome, FirstLook, Used
<1> QED BY <1>2, <1>3, <1>4, <1>5, <1>6

-------------------------------------------------------------------------------
(* The process. *)

(* run's stages: before the loop, from the reconcile to the Gateway, and with *)
(* the spawn Room checked.                                                    *)
BeforeLoop == {"load", "verbs", "accounts", "admin", "ingress", "roster", "recover", "linger"}
Marked == {"unmarked", "marking", "serve", "drain", "draining", "drained"}
Checked == {"gateway", "listen", "mark"} \cup Marked
Reconciled == {"seed", "check"} \cup Checked
Stopping == {"halt", "close", "exited"}

BootTypes ==
  /\ main \in BeforeLoop \cup {"await"} \cup Reconciled \cup Stopping
  /\ loop \in {"none", "running", "stopping", "ended"}
  /\ reconciling \in {"none", "running", "ok", "failed", "lost"}
  /\ leaving \in {"no", "leave", "left", "mark"}
  /\ gateway \in {"none", "up", "down"}
  /\ heldFinding \in {"none", "held", "settled"} /\ reports \in 0..1
  /\ started \in BOOLEAN /\ waiting \in BOOLEAN /\ ready \in BOOLEAN /\ draining \in BOOLEAN
  /\ ticked \in BOOLEAN /\ signaled \in BOOLEAN /\ spawnKnown \in BOOLEAN /\ everZones \in BOOLEAN
  /\ inEffect \in [digest : 0..MaxSwapLog, zones : BOOLEAN]
  /\ swapLog \in Seq([base : Nat, digest : 0..MaxSwapLog, zones : BOOLEAN])
  /\ consumed \in 0..Len(swapLog)

(* Where run is says what has been started and settled. *)
StageShape ==
  /\ main \in BeforeLoop =>
       /\ loop = "none" /\ reconciling = "none" /\ leaving = "no" /\ reports = 0
       /\ ~started /\ ~waiting /\ ~ready /\ ~draining
  /\ main \in Reconciled => reconciling = "ok"
  /\ main \in Marked => started
  /\ started => main \in Marked \cup Stopping /\ reconciling \in {"ok", "none"}
  /\ draining => main \in {"draining", "drained"} \cup Stopping
  /\ waiting => reconciling \in {"ok", "none"}
  /\ reconciling = "none" => main \in BeforeLoop \cup {"close", "exited"}
  /\ loop \in {"running", "stopping"} => main \notin BeforeLoop \cup {"close", "exited"}
  /\ main \in {"drain", "draining", "drained"} /\ why = "loop" => loop = "ended"
  /\ main = "exited" =>
       /\ leaving = "no" /\ reconciling = "none" /\ gateway \in {"none", "down"}
       /\ exitCode = ExitOf(why) /\ heldFinding # "held"

(* The wait is left once, by a World that has the spawn Room; whoever comes   *)
(* second, the loop or main, sees the other's flag.                           *)
ReadyShape ==
  /\ everZones <=> inEffect.zones
  /\ leaving # "no" => inEffect.zones /\ spawnKnown /\ reconciling = "ok"
  /\ leaving = "leave" => waiting
  /\ leaving \in {"left", "mark"} => ~waiting
  /\ leaving = "mark" => started
  /\ main \in Checked => waiting \/ (inEffect.zones /\ spawnKnown)
  /\ main = "marking" => ~waiting
  /\ ready => started /\ ~waiting /\ inEffect.zones /\ spawnKnown
  /\ main = "serve" /\ ~waiting => ready \/ leaving \in {"left", "mark"}

(* The held finding is settled before the process waits or serves. *)
HeldFindingShape ==
  /\ reports = 1 => heldFinding = "settled"
  /\ waiting \/ started \/ reconciling = "ok" => reports = 0 /\ heldFinding # "held"
  /\ reconciling = "running" => reports = 0
  /\ reconciling = "lost" => everZones

(* Until a World has had Zones, the walk over what was met holds what is in   *)
(* effect.                                                                    *)
WalkShape == ~everZones => \A w \in Walks(consumed) : w[consumed] = inEffect

BootInv == BootTypes /\ StageShape /\ ReadyShape /\ HeldFindingShape /\ WalkShape

(* run has begun, nothing is started. *)
LEMMA BootInitInv == BootInit => BootInv
<1> SUFFICES ASSUME BootInit PROVE BootInv
  OBVIOUS
<1> USE BootAssumption
<1>1. inEffect = [digest |-> 0, zones |-> FALSE] /\ inEffect \in [digest : 0..MaxSwapLog, zones : BOOLEAN]
  BY DEF BootInit, NoZones
<1>2. swapLog \in Seq([base : Nat, digest : 0..MaxSwapLog, zones : BOOLEAN]) /\ consumed \in 0..Len(swapLog)
  BY DEF BootInit
<1>3. /\ started \in BOOLEAN /\ waiting \in BOOLEAN /\ ready \in BOOLEAN /\ draining \in BOOLEAN
      /\ ticked \in BOOLEAN /\ signaled \in BOOLEAN /\ spawnKnown \in BOOLEAN /\ everZones \in BOOLEAN
  BY Zenon DEF BootInit
<1>4. BootTypes
  BY <1>1, <1>2, <1>3 DEF BootInit, BootTypes, BeforeLoop
<1>5. StageShape
  BY DEF BootInit, StageShape, BeforeLoop, Marked, Checked, Reconciled, Stopping
<1>6. ReadyShape
  BY <1>1 DEF BootInit, ReadyShape, Marked, Checked
<1>7. HeldFindingShape
  BY DEF BootInit, HeldFindingShape
<1>8. WalkShape
  BY <1>1 DEF BootInit, WalkShape, Walks, NoZones
<1> QED BY <1>4, <1>5, <1>6, <1>7, <1>8 DEF BootInv

(* The World, its log and the wait's end left alone. *)
LEMMA BootWalkSame ==
  ASSUME WalkShape, UNCHANGED <<swapLog, consumed, inEffect, everZones>>
  PROVE  WalkShape'
BY DEF WalkShape, Walks

(* run's own steps, up to the loop. *)
LEMMA BootOpens ==
  ASSUME BootInv,
         LoadContent \/ LoadVerbs \/ OpenAccounts \/ OpenContentAdmin \/ StartIngress \/ StartRoster
           \/ StartTickLoop \/ HoldMismatch
  PROVE  BootInv'
<1> USE DEF BootInv
<1>1. UNCHANGED <<signaled, exitCode, boots, loopErr, ticked, leaving, gateway, started, waiting, ready, draining,
                  reports, swapLog, consumed, inEffect, everZones, spawnKnown>>
      /\ main \in BeforeLoop
      /\ heldFinding' \in {heldFinding, "none", "held"} /\ (main # "load" => heldFinding' = heldFinding)
  BY DEF LoadContent, LoadVerbs, OpenAccounts, OpenContentAdmin, StartIngress, StartRoster, StartTickLoop,
         HoldMismatch, Opens, Stop, LoadSettles, BeforeLoop, loopVars, bootFlags, serverVars, heldVars, bootWorld
<1>2. \/ main' \in BeforeLoop \cup {"close"} /\ UNCHANGED <<loop, reconciling>>
      \/ main' = "await" /\ loop' = "running" /\ reconciling' = "running"
  BY DEF LoadContent, LoadVerbs, OpenAccounts, OpenContentAdmin, StartIngress, StartRoster, StartTickLoop,
         HoldMismatch, Opens, Stop, BeforeLoop, loopVars, bootFlags, serverVars, heldVars, bootWorld
<1>3. loop = "none" /\ reconciling = "none" /\ leaving = "no" /\ reports = 0
      /\ ~started /\ ~waiting /\ ~ready /\ ~draining
  BY <1>1 DEF StageShape
<1>4. BootTypes'
  BY <1>1, <1>2, <1>3 DEF BootTypes, Stopping
<1>5. StageShape'
  BY <1>1, <1>2, <1>3 DEF StageShape, BeforeLoop, Marked, Checked, Reconciled, Stopping
<1>6. ReadyShape'
  BY <1>1, <1>2, <1>3 DEF ReadyShape, BeforeLoop, Marked, Checked
<1>7. HeldFindingShape'
  BY <1>1, <1>2, <1>3 DEF HeldFindingShape
<1>8. WalkShape'
  BY <1>1, BootWalkSame
<1> QED BY <1>4, <1>5, <1>6, <1>7, <1>8

(* run's own steps, from the reconcile to its exit, but for the flags. *)
LEMMA BootServes ==
  ASSUME BootInv,
         Signal \/ AwaitReconcile \/ Seed \/ CheckSpawn \/ NewGateway \/ StartGateway \/ ServeProbes
           \/ GatewayShutdown \/ Halt
  PROVE  BootInv'
<1> USE DEF BootInv
<1>1. UNCHANGED <<exitCode, boots, loopErr, ticked, leaving, reconciling, started, waiting, ready, draining,
                  heldFinding, reports, swapLog, consumed, inEffect, everZones, spawnKnown>>
  BY DEF Signal, AwaitReconcile, Seed, CheckSpawn, NewGateway, StartGateway, ServeProbes,
         GatewayShutdown, Halt, Stop, loopVars, bootFlags, serverVars, heldVars, bootWorld
<1>2. signaled' \in BOOLEAN /\ gateway' \in {"none", "up", "down"}
      /\ (main' \in {"close", "exited"} /\ main # main' => main # "exited")
  BY DEF Signal, AwaitReconcile, Seed, CheckSpawn, NewGateway, StartGateway, ServeProbes,
         GatewayShutdown, Halt, Stop, loopVars, bootFlags, serverVars, heldVars, bootWorld, BootTypes
<1>3. CASE Signal
  <2>1. UNCHANGED <<main, why, loop, gateway>>
    BY <1>3 DEF Signal, loopVars, serverVars
  <2>2. ExitOf(why)' = ExitOf(why)
    BY <1>1, <2>1 DEF ExitOf, LoopExit
  <2> QED BY <1>1, <1>2, <2>1, <2>2, BootWalkSame DEF BootTypes, StageShape, ReadyShape, HeldFindingShape
<1>4. CASE AwaitReconcile
  <2>1. main = "await" /\ UNCHANGED <<loop, gateway, signaled>>
        /\ \/ reconciling = "ok" /\ main' = "seed"
           \/ main' = "halt"
           \/ loop = "ended" /\ main' = "close"
    BY <1>4 DEF AwaitReconcile, Stop, loopVars, serverVars
  <2>2. BootTypes'
    BY <1>1, <2>1 DEF BootTypes, Reconciled, Stopping
  <2>3. StageShape'
    BY <1>1, <2>1 DEF StageShape, BeforeLoop, Marked, Checked, Reconciled, Stopping
  <2>4. ReadyShape'
    BY <1>1, <2>1 DEF ReadyShape, Marked, Checked
  <2>5. HeldFindingShape'
    BY <1>1, <2>1 DEF HeldFindingShape
  <2> QED BY <1>1, <2>2, <2>3, <2>4, <2>5, BootWalkSame
<1>5. CASE Seed \/ CheckSpawn \/ NewGateway \/ StartGateway
  <2>1. main \in {"seed", "check", "gateway", "listen"} /\ UNCHANGED <<loop, signaled>>
        /\ \/ main = "seed" /\ main' = "check"
           \/ main = "check" /\ main' = "gateway" /\ (waiting \/ (everZones /\ spawnKnown))
           \/ main = "gateway" /\ main' = "listen"
           \/ main = "listen" /\ main' = "mark"
           \/ main' = "halt"
    BY <1>5 DEF Seed, CheckSpawn, NewGateway, StartGateway, Stop, loopVars, serverVars
  <2>2. BootTypes'
    BY <1>1, <1>2, <2>1 DEF BootTypes, Reconciled, Checked, Stopping
  <2>3. StageShape'
    BY <1>1, <2>1 DEF StageShape, BeforeLoop, Marked, Checked, Reconciled, Stopping
  <2>4. ReadyShape'
    BY <1>1, <2>1 DEF ReadyShape, Marked, Checked
  <2>5. HeldFindingShape'
    BY <1>1, <2>1 DEF HeldFindingShape
  <2> QED BY <1>1, <2>2, <2>3, <2>4, <2>5, BootWalkSame
<1>6. CASE ServeProbes \/ GatewayShutdown \/ Halt
  <2>1. /\ main \in {"serve", "drained", "halt"} /\ UNCHANGED <<signaled>>
        /\ \/ main = "serve" /\ main' = "drain" /\ (why' = "loop" => loop = "ended") /\ UNCHANGED loop
           \/ main' = "halt" /\ UNCHANGED loop
           \/ main' = "halt" /\ main = "halt" /\ loop = "running" /\ loop' = "stopping"
           \/ main = "drained" /\ why = "loop" /\ main' = "close" /\ UNCHANGED loop
           \/ main = "halt" /\ loop = "ended" /\ main' = "close" /\ UNCHANGED loop
    BY <1>6 DEF ServeProbes, GatewayShutdown, Halt, Stop, loopVars, serverVars
  <2>2. BootTypes'
    BY <1>1, <1>2, <2>1 DEF BootTypes, Reconciled, Checked, Marked, Stopping
  <2>3. StageShape'
    BY <1>1, <2>1 DEF StageShape, BeforeLoop, Marked, Checked, Reconciled, Stopping
  <2>4. ReadyShape'
    BY <1>1, <2>1 DEF ReadyShape, Marked, Checked
  <2>5. HeldFindingShape'
    BY <1>1, <2>1 DEF HeldFindingShape
  <2> QED BY <1>1, <2>2, <2>3, <2>4, <2>5, BootWalkSame
<1> QED BY <1>3, <1>4, <1>5, <1>6

(* The stores and loads of the flags: MarkStarted, leaveWait and Drain. *)
LEMMA BootFlagsMove ==
  ASSUME BootInv, MarkStarted \/ LeaveWait \/ Drain
  PROVE  BootInv'
<1> USE DEF BootInv
<1>1. UNCHANGED <<why, signaled, exitCode, boots, loop, loopErr, ticked, reconciling, gateway, heldFinding,
                  reports, swapLog, consumed, inEffect, everZones, spawnKnown>>
  BY DEF MarkStarted, LeaveWait, Drain, mainVars, loopVars, serverVars, heldVars, bootWorld
<1>2. WalkShape'
  BY <1>1, BootWalkSame
<1>3. CASE MarkStarted
  <2>1. UNCHANGED <<leaving, waiting, draining>>
        /\ \/ main = "mark" /\ started' = TRUE /\ main' = "unmarked" /\ UNCHANGED ready
           \/ main = "unmarked" /\ UNCHANGED <<started, ready>> /\ ~waiting /\ main' = "marking"
           \/ main = "unmarked" /\ UNCHANGED <<started, ready>> /\ (waiting \/ draining) /\ main' = "serve"
           \/ main = "marking" /\ ready' = TRUE /\ main' = "serve" /\ UNCHANGED started
    BY <1>3 DEF MarkStarted, loopVars
  <2>0. started' \in BOOLEAN /\ waiting' \in BOOLEAN /\ ready' \in BOOLEAN /\ draining' \in BOOLEAN
    <3>1. started' \in {started, TRUE} /\ waiting' \in {waiting, FALSE} /\ ready' \in {ready, TRUE, FALSE}
          /\ draining' \in {draining, TRUE}
      BY <2>1
    <3> QED BY <3>1 DEF BootTypes
  <2>2. BootTypes'
    BY <1>1, <2>0, <2>1 DEF BootTypes, Reconciled, Checked, Marked
  <2>3. StageShape'
    BY <1>1, <2>1 DEF StageShape, BeforeLoop, Marked, Checked, Reconciled, Stopping
  <2>4. main = "unmarked" => ~draining
    BY DEF StageShape, Stopping
  <2>5. main \in {"mark", "unmarked", "marking"} => waiting \/ (inEffect.zones /\ spawnKnown)
    BY DEF ReadyShape, Checked, Marked
  <2>6. ReadyShape'
    BY <1>1, <2>1, <2>4, <2>5 DEF ReadyShape, StageShape, Marked, Checked
  <2>7. HeldFindingShape'
    BY <1>1, <2>1 DEF HeldFindingShape, StageShape, Reconciled, Checked, Marked
  <2> QED BY <1>2, <2>2, <2>3, <2>6, <2>7
<1>4. CASE LeaveWait
  <2>1. UNCHANGED <<main, started, draining>>
        /\ \/ leaving = "leave" /\ waiting' = FALSE /\ leaving' = "left" /\ UNCHANGED ready
           \/ leaving = "left" /\ started /\ ~draining /\ leaving' = "mark" /\ UNCHANGED <<waiting, ready>>
           \/ leaving = "left" /\ (~started \/ draining) /\ leaving' = "no" /\ UNCHANGED <<waiting, ready>>
           \/ leaving = "mark" /\ ready' = TRUE /\ leaving' = "no" /\ UNCHANGED waiting
    BY <1>4 DEF LeaveWait, mainVars
  <2>0. started' \in BOOLEAN /\ waiting' \in BOOLEAN /\ ready' \in BOOLEAN /\ draining' \in BOOLEAN
    <3>1. started' \in {started, TRUE} /\ waiting' \in {waiting, FALSE} /\ ready' \in {ready, TRUE, FALSE}
          /\ draining' \in {draining, TRUE}
      BY <2>1
    <3> QED BY <3>1 DEF BootTypes
  <2>2. BootTypes'
    BY <1>1, <2>0, <2>1 DEF BootTypes
  <2>3. ExitOf(why)' = ExitOf(why) /\ main # "exited"
    BY <1>1, <2>1 DEF ExitOf, LoopExit, StageShape
  <2>4. StageShape'
    BY <1>1, <2>1, <2>3 DEF StageShape, BeforeLoop, Marked, Checked, Reconciled, Stopping
  <2>5. main = "serve" => started /\ ~draining
    BY DEF StageShape, Marked, Stopping
  <2>6. ReadyShape'
    BY <1>1, <2>1, <2>5 DEF ReadyShape
  <2>7. HeldFindingShape'
    BY <1>1, <2>1 DEF HeldFindingShape
  <2> QED BY <1>2, <2>2, <2>4, <2>6, <2>7
<1>5. CASE Drain
  <2>1. UNCHANGED <<leaving, waiting, started>>
        /\ \/ main = "drain" /\ main' = "draining" /\ draining' = TRUE /\ UNCHANGED ready
           \/ main = "draining" /\ main' = "drained" /\ ready' = FALSE /\ UNCHANGED draining
    BY <1>5 DEF Drain, loopVars
  <2>0. started' \in BOOLEAN /\ waiting' \in BOOLEAN /\ ready' \in BOOLEAN /\ draining' \in BOOLEAN
    <3>1. started' \in {started, TRUE} /\ waiting' \in {waiting, FALSE} /\ ready' \in {ready, TRUE, FALSE}
          /\ draining' \in {draining, TRUE}
      BY <2>1
    <3> QED BY <3>1 DEF BootTypes
  <2>2. BootTypes'
    BY <1>1, <2>0, <2>1 DEF BootTypes, Reconciled, Checked, Marked
  <2>3. StageShape'
    BY <1>1, <2>1 DEF StageShape, BeforeLoop, Marked, Checked, Reconciled, Stopping
  <2>4. ReadyShape'
    BY <1>1, <2>1 DEF ReadyShape, Marked, Checked
  <2>5. HeldFindingShape'
    BY <1>1, <2>1 DEF HeldFindingShape
  <2> QED BY <1>2, <2>2, <2>3, <2>4, <2>5
<1> QED BY <1>3, <1>4, <1>5

(* ReconcileContent's ends. *)
LEMMA BootReconciles ==
  ASSUME BootInv, ReconcileFails \/ ReconcileWaits \/ ReconcileServes
  PROVE  BootInv'
<1> USE DEF BootInv
<1>1. UNCHANGED <<main, why, signaled, exitCode, boots, loop, loopErr, ticked, leaving, gateway, started, ready,
                  draining, swapLog, consumed, inEffect, everZones, spawnKnown>> /\ reconciling = "running"
  BY DEF ReconcileFails, ReconcileWaits, ReconcileServes, BarrierReached, mainVars, loopVars, bootFlags,
         serverVars, bootWorld
<1>2. /\ \/ reconciling' = "failed" /\ UNCHANGED waiting
         \/ reconciling' = "lost" /\ UNCHANGED waiting /\ WorldHadZones /\ consumed = Len(swapLog)
         \/ reconciling' = "ok" /\ UNCHANGED waiting /\ heldFinding' # "held" /\ UNCHANGED reports
         \/ reconciling' = "ok" /\ waiting' = TRUE /\ heldFinding' # "held" /\ UNCHANGED reports
      /\ \/ UNCHANGED <<heldFinding, reports>>
         \/ heldFinding = "held" /\ heldFinding' = "settled" /\ reports' \in {reports, reports + 1}
  BY DEF ReconcileFails, ReconcileWaits, ReconcileServes, BarrierReached, ReconcileDone, EnterWait, DropHeld,
         ReportHeld, ExitHeld, heldVars, bootFlags
<1>3. ~started /\ ~waiting /\ ~ready /\ leaving = "no" /\ reports = 0 /\ main \notin BeforeLoop \cup Reconciled \cup {"exited"}
  BY <1>1 DEF StageShape, ReadyShape, HeldFindingShape
<1>4. reconciling' = "lost" => everZones
  <2> SUFFICES ASSUME reconciling' = "lost", ~everZones PROVE FALSE
    BY DEF BootTypes
  <2>1. PICK w \in Walks(Len(swapLog)) : w[Len(swapLog)].zones
    BY <1>2 DEF WorldHadZones
  <2>2. w[consumed] = inEffect /\ consumed = Len(swapLog)
    BY <1>2, <2>1 DEF WalkShape
  <2> QED BY <2>1, <2>2 DEF ReadyShape
<1>5. waiting' \in BOOLEAN
  <2>1. waiting' \in {waiting, TRUE}
    BY <1>2
  <2> QED BY <2>1 DEF BootTypes
<1>6. BootTypes'
  BY <1>1, <1>2, <1>3, <1>5 DEF BootTypes
<1>7. StageShape'
  BY <1>1, <1>2, <1>3 DEF StageShape, BeforeLoop, Reconciled, Checked, Marked, Stopping
<1>8. ReadyShape'
  BY <1>1, <1>2, <1>3 DEF ReadyShape, Reconciled, Checked, Marked
<1>9. HeldFindingShape'
  BY <1>1, <1>2, <1>3, <1>4 DEF HeldFindingShape
<1> QED BY <1>1, <1>6, <1>7, <1>8, <1>9, BootWalkSame

(* A swap is produced: what has been met stays as it is. *)
LEMMA BootProduces ==
  ASSUME BootInv, NEW base \in 0..Len(swapLog), NEW zones \in BOOLEAN, ProduceSwap(base, zones)
  PROVE  BootInv'
<1> USE BootAssumption DEF BootInv
<1>1. UNCHANGED <<main, why, signaled, exitCode, boots, loop, loopErr, ticked, leaving, reconciling, gateway,
                  started, waiting, ready, draining, heldFinding, reports, consumed, inEffect, everZones, spawnKnown>>
  BY DEF ProduceSwap, mainVars, loopVars, bootFlags, serverVars, heldVars
<1> DEFINE swap == [base |-> base, digest |-> Len(swapLog) + 1, zones |-> zones]
<1>2. swapLog' = Append(swapLog, swap) /\ Len(swapLog) < MaxSwapLog
  BY DEF ProduceSwap
<1>3. swapLog \in Seq([base : Nat, digest : 0..MaxSwapLog, zones : BOOLEAN]) /\ Len(swapLog) \in Nat
      /\ consumed \in 0..Len(swapLog)
  BY DEF BootTypes
<1>4. swap \in [base : Nat, digest : 0..MaxSwapLog, zones : BOOLEAN]
  BY <1>2, <1>3
<1> HIDE DEF swap
<1>5. swapLog' \in Seq([base : Nat, digest : 0..MaxSwapLog, zones : BOOLEAN]) /\ consumed' \in 0..Len(swapLog')
      /\ \A i \in 1..Len(swapLog) : swapLog'[i] = swapLog[i]
  BY <1>1, <1>2, <1>3, <1>4
<1>6. BootTypes'
  BY <1>1, <1>5 DEF BootTypes
<1>7. ExitOf(why)' = ExitOf(why)
  BY <1>1 DEF ExitOf, LoopExit
<1>8. StageShape' /\ ReadyShape' /\ HeldFindingShape'
  BY <1>1, <1>7 DEF StageShape, ReadyShape, HeldFindingShape
<1>9. Walks(consumed)' = Walks(consumed)
  <2>1. \A i \in 1..consumed : swapLog'[i] = swapLog[i]
    BY <1>3, <1>5
  <2> QED BY <1>1, <2>1 DEF Walks
<1>10. WalkShape'
  BY <1>1, <1>9 DEF WalkShape
<1> QED BY <1>6, <1>8, <1>10

(* The Engine meets the next swap: Zones stay, and the walk keeps up with it. *)
LEMMA BootSwaps ==
  ASSUME BootInv, LoopSwaps
  PROVE  BootInv'
<1> USE BootAssumption DEF BootInv
<1>1. UNCHANGED <<main, why, signaled, exitCode, boots, loop, loopErr, reconciling, gateway,
                  started, waiting, ready, draining, heldFinding, reports, swapLog, spawnKnown>>
      /\ loop = "running" /\ leaving = "no" /\ consumed < Len(swapLog) /\ consumed' = consumed + 1
      /\ ticked' = TRUE /\ inEffect' = ContentApplied
  BY DEF LoopSwaps, mainVars, bootFlags, serverVars, heldVars
<1>2. everZones' = (everZones \/ ContentApplied.zones)
      /\ leaving' = IF waiting /\ ContentApplied.zones /\ spawnKnown THEN "leave" ELSE "no"
  BY DEF LoopSwaps
<1>3. swapLog \in Seq([base : Nat, digest : 0..MaxSwapLog, zones : BOOLEAN]) /\ Len(swapLog) \in Nat
      /\ consumed \in 0..Len(swapLog) /\ inEffect \in [digest : 0..MaxSwapLog, zones : BOOLEAN]
  BY DEF BootTypes
<1>4. PICK s \in [base : Nat, digest : 0..MaxSwapLog, zones : BOOLEAN] : s = swapLog[consumed + 1]
  <2>1. consumed + 1 \in 1..Len(swapLog)
    BY <1>1, <1>3
  <2> DEFINE R == [base : Nat, digest : 0..MaxSwapLog, zones : BOOLEAN]
  <2>2. swapLog \in Seq(R)
    BY <1>3
  <2> HIDE DEF R
  <2>3. swapLog[consumed + 1] \in R
    BY <2>1, <2>2
  <2> QED BY <2>3 DEF R
<1>5. inEffect' = IF s.base = inEffect.digest /\ (inEffect.zones => s.zones)
                  THEN [digest |-> s.digest, zones |-> s.zones] ELSE inEffect
  BY <1>1, <1>4 DEF ContentApplied, SwapsApplied, AppliesTo
<1>6. inEffect' \in [digest : 0..MaxSwapLog, zones : BOOLEAN] /\ (inEffect.zones => inEffect'.zones)
  BY <1>3, <1>5
<1>7. everZones' \in BOOLEAN /\ (everZones' <=> inEffect'.zones)
  <2>1. inEffect'.zones \in BOOLEAN /\ everZones \in BOOLEAN /\ (everZones <=> inEffect.zones)
        /\ everZones' = (everZones \/ inEffect'.zones)
    BY <1>1, <1>2, <1>6 DEF BootTypes, ReadyShape
  <2> QED BY <1>6, <2>1
<1>8. leaving' = "no" \/ (leaving' = "leave" /\ waiting /\ inEffect'.zones /\ spawnKnown)
  BY <1>1, <1>2
<1>9. waiting => reconciling = "ok"
  BY <1>1 DEF StageShape
<1>10. BootTypes'
  <2>1. consumed' \in 0..Len(swapLog') /\ leaving' \in {"no", "leave", "left", "mark"} /\ ticked' \in BOOLEAN
    BY <1>1, <1>3, <1>8
  <2> QED BY <1>1, <1>6, <1>7, <2>1 DEF BootTypes
<1>11. main # "exited" /\ main \notin BeforeLoop
  BY <1>1 DEF StageShape
<1>12. StageShape'
  BY <1>1, <1>11 DEF StageShape
<1>13. ReadyShape'
  BY <1>1, <1>6, <1>7, <1>8, <1>9 DEF ReadyShape
<1>14. HeldFindingShape'
  <2>1. everZones => everZones'
    BY <1>6, <1>7 DEF ReadyShape
  <2> QED BY <1>1, <2>1 DEF HeldFindingShape
<1>15. WalkShape'
  <2> SUFFICES ASSUME ~everZones', NEW w \in Walks(consumed)' PROVE w[consumed'] = inEffect'
    BY DEF WalkShape
  <2>1. ~everZones /\ ~inEffect.zones /\ ~inEffect'.zones
    BY <1>6, <1>7 DEF ReadyShape
  <2>2. w \in [0..(consumed + 1) -> [digest : 0..MaxSwapLog, zones : BOOLEAN]] /\ w[0] = NoZones
        /\ \A i \in 1..(consumed + 1) : w[i] = Walked(w[i - 1], swapLog[i])
    BY <1>1 DEF Walks
  <2> DEFINE v == [i \in 0..consumed |-> w[i]]
  <2>3. v \in [0..consumed -> [digest : 0..MaxSwapLog, zones : BOOLEAN]] /\ v[0] = NoZones
    BY <1>3, <2>2
  <2>4. \A i \in 1..consumed : v[i] = Walked(v[i - 1], swapLog[i])
    <3> SUFFICES ASSUME NEW i \in 1..consumed PROVE v[i] = Walked(v[i - 1], swapLog[i])
      OBVIOUS
    <3>1. i \in 1..(consumed + 1) /\ i \in 0..consumed /\ i - 1 \in 0..consumed
      BY <1>3
    <3>2. v[i] = w[i] /\ v[i - 1] = w[i - 1]
      BY <3>1
    <3> HIDE DEF v
    <3> QED BY <2>2, <3>1, <3>2
  <2>5. v[consumed] = w[consumed]
    BY <1>3
  <2> HIDE DEF v
  <2>6. v \in Walks(consumed)
    BY <2>3, <2>4 DEF Walks
  <2>7. w[consumed] = inEffect
    BY <2>1, <2>5, <2>6 DEF WalkShape
  <2>8. w[consumed + 1] = Walked(w[consumed], swapLog[consumed + 1])
    <3>1. consumed + 1 \in 1..(consumed + 1) /\ (consumed + 1) - 1 = consumed
      BY <1>3
    <3> QED BY <2>2, <3>1
  <2>9. w[consumed + 1] = IF s.base # inEffect.digest THEN inEffect ELSE [digest |-> s.digest, zones |-> s.zones]
    BY <1>4, <2>1, <2>7, <2>8 DEF Walked
  <2> QED BY <1>1, <1>5, <2>1, <2>9
<1> QED BY <1>10, <1>12, <1>13, <1>14, <1>15

(* The loop ticks, and returns. *)
LEMMA BootLoops ==
  ASSUME BootInv, LoopTicks \/ \E e \in {"nil", "lost", "fail"} : LoopEnds(e)
  PROVE  BootInv'
<1> USE DEF BootInv
<1>1. UNCHANGED <<main, why, signaled, exitCode, boots, leaving, reconciling, gateway, started, waiting, ready,
                  draining, heldFinding, reports, swapLog, consumed, inEffect, everZones, spawnKnown>>
      /\ loop \in {"running", "stopping"} /\ loop' \in {loop, "ended"} /\ ticked' \in {ticked, TRUE}
  BY DEF LoopTicks, LoopEnds, mainVars, bootFlags, serverVars, heldVars, bootWorld
<1>2. main \notin BeforeLoop \cup {"exited", "close"}
  BY <1>1 DEF StageShape
<1>3. ticked' \in BOOLEAN
  BY <1>1 DEF BootTypes
<1>4. BootTypes'
  BY <1>1, <1>3 DEF BootTypes
<1>5. StageShape'
  BY <1>1, <1>2 DEF StageShape
<1>6. ReadyShape' /\ HeldFindingShape'
  BY <1>1 DEF ReadyShape, HeldFindingShape
<1> QED BY <1>1, <1>4, <1>5, <1>6, BootWalkSame

(* The process exits, and another is started. *)
LEMMA BootExits ==
  ASSUME BootInv, Exits \/ BootsAgain
  PROVE  BootInv'
<1> USE DEF BootInv
<1>1. CASE Exits
  <2>1. UNCHANGED <<why, signaled, boots, loop, loopErr, ticked, started, waiting, ready, draining, swapLog,
                    consumed, inEffect, everZones, spawnKnown>>
        /\ main = "close" /\ main' = "exited" /\ exitCode' = ExitOf(why)
        /\ gateway' = (IF gateway = "none" THEN "none" ELSE "down") /\ reconciling' = "none" /\ leaving' = "no"
    BY <1>1 DEF Exits, bootFlags, bootWorld
  <2>2. \/ heldFinding # "held" /\ UNCHANGED <<heldFinding, reports>>
        \/ heldFinding = "held" /\ heldFinding' = "settled" /\ reports' \in {reports, reports + 1}
    BY <1>1 DEF Exits, ReportHeld, DropHeld
  <2>3. heldFinding = "held" => reports = 0 /\ ~waiting /\ ~started
    BY DEF HeldFindingShape, BootTypes
  <2>4. ExitOf(why)' = ExitOf(why)
    BY <2>1 DEF ExitOf, LoopExit
  <2>5. BootTypes'
    BY <2>1, <2>2, <2>3 DEF BootTypes, Stopping
  <2>6. StageShape'
    BY <2>1, <2>2, <2>4 DEF StageShape, BeforeLoop, Reconciled, Checked, Marked, Stopping
  <2>7. ReadyShape'
    BY <2>1 DEF ReadyShape, Checked, Marked
  <2>8. HeldFindingShape'
    BY <2>1, <2>2, <2>3 DEF HeldFindingShape
  <2> QED BY <2>1, <2>5, <2>6, <2>7, <2>8, BootWalkSame
<1>2. CASE BootsAgain
  <2>1. /\ main' = "load" /\ signaled' = FALSE /\ loop' = "none" /\ ticked' = FALSE /\ leaving' = "no"
        /\ reconciling' = "none" /\ gateway' = "none" /\ heldFinding' = "none" /\ reports' = 0
        /\ started' = FALSE /\ waiting' = FALSE /\ ready' = FALSE /\ draining' = FALSE
        /\ spawnKnown' \in BOOLEAN /\ UNCHANGED <<swapLog, consumed, inEffect, everZones>>
    BY <1>2 DEF BootsAgain, WorldRecovered
  <2>2. /\ started' \in BOOLEAN /\ waiting' \in BOOLEAN /\ ready' \in BOOLEAN /\ draining' \in BOOLEAN
        /\ ticked' \in BOOLEAN /\ signaled' \in BOOLEAN
    BY <2>1, Zenon
  <2>3. BootTypes'
    BY <2>1, <2>2 DEF BootTypes, BeforeLoop
  <2>4. StageShape'
    BY <2>1 DEF StageShape, BeforeLoop, Reconciled, Checked, Marked, Stopping
  <2>5. ReadyShape'
    BY <2>1 DEF ReadyShape, Checked, Marked
  <2>6. HeldFindingShape'
    BY <2>1 DEF HeldFindingShape
  <2> QED BY <2>1, <2>3, <2>4, <2>5, <2>6, BootWalkSame
<1> QED BY <1>1, <1>2

(* Every step of the process keeps the invariant. *)
LEMMA BootStep ==
  ASSUME BootInv, [BootNext]_bootVars
  PROVE  BootInv'
<1>1. CASE UNCHANGED bootVars
  <2>1. UNCHANGED <<main, why, signaled, exitCode, loop, loopErr, ticked, leaving, reconciling, gateway, started,
                    waiting, ready, draining, heldFinding, reports, swapLog, consumed, inEffect, everZones, spawnKnown>>
    BY <1>1 DEF bootVars, mainVars, loopVars, bootFlags, serverVars, heldVars, bootWorld
  <2>2. ExitOf(why)' = ExitOf(why)
    BY <2>1 DEF ExitOf, LoopExit
  <2>3. BootTypes' /\ StageShape' /\ ReadyShape' /\ HeldFindingShape'
    BY <2>1, <2>2 DEF BootInv, BootTypes, StageShape, ReadyShape, HeldFindingShape
  <2> QED BY <2>1, <2>3, BootWalkSame DEF BootInv
<1>2. CASE BootNext
  BY <1>2, BootOpens, BootServes, BootFlagsMove, BootReconciles, BootProduces, BootSwaps, BootLoops, BootExits
     DEF BootNext
<1> QED BY <1>1, <1>2

(* What it says of types, readiness and exit codes. *)
LEMMA BootInvSafe ==
  ASSUME BootInv
  PROVE  BootTypeOK /\ ReadyTruthful /\ ExitTruthful
<1> USE DEF BootInv
<1>1. BootTypeOK
  BY DEF BootTypes, BootTypeOK, BeforeLoop, Reconciled, Checked, Marked, Stopping
<1>2. ReadyTruthful
  BY DEF ReadyTruthful, ReadyShape, ReadyNow
<1>3. ExitTruthful
  <2>1. main = "exited" /\ exitCode = ExitOK => loopErr = "nil"
    BY DEF StageShape, ExitOf, ExitOK, ExitFail, ExitMismatch, ExitBoundaryLost, LoopExit
  <2>2. main = "exited" /\ exitCode = ExitBoundaryLost => loopErr = "lost"
    BY DEF StageShape, ExitOf, ExitOK, ExitFail, ExitMismatch, ExitBoundaryLost, LoopExit
  <2> QED BY <2>1, <2>2 DEF ExitTruthful, StageShape, HeldFindingShape
<1> QED BY <1>1, <1>2, <1>3

-------------------------------------------------------------------------------
(* The configuration. *)

(* The value a key has in a layer that sets it. *)
ReadAs(layer, k) == IF layers[layer][k] = <<>> THEN FALSE ELSE layers[layer][k][1]

(* What each layer may hold. *)
LayerShape ==
  /\ DOMAIN layers = {"file", "env", "flags"}
  /\ \A l \in {"file", "env", "flags"} :
       /\ DOMAIN layers[l] \subseteq ConfigKeys
       /\ l # "flags" => DOMAIN layers[l] \subseteq FileKeys
       /\ \A k \in DOMAIN layers[l] \cap NumberKeys : WrittenNumber(layers[l][k])

(* A binary that was started made of the layers what Parse makes of them     *)
(* still: once the server is started nothing is written.                     *)
StartShape ==
  /\ startedWith \in [{"server", "projector"} -> {NotStarted, Parse, ParseProjector}]
  /\ startedWith["server"] \in {NotStarted, Parse}
  /\ startedWith["projector"] \in {NotStarted, ParseProjector}
  /\ startedWith["server"].is = "no" => startedWith["projector"] = NotStarted

ConfigInv == LayerShape /\ path \in Paths /\ StartShape

(* What Parse answers. *)
LEMMA ParseAnswers ==
  /\ Parse.is \in {"refused", "accepted"} /\ ParseProjector.is \in {"refused", "accepted"}
  /\ NotStarted.is = "no"
  BY DEF Parse, ParseProjector, TurnedDown, NotStarted

(* The invariant holds at the start. *)
LEMMA ConfigInitInv == ConfigInit => ConfigInv
<1> SUFFICES ASSUME ConfigInit PROVE ConfigInv
  OBVIOUS
<1>1. LayerShape
  <2>1. layers = [file |-> Unset, env |-> Deployed, flags |-> Unset] /\ DOMAIN Unset = {}
    BY DEF ConfigInit, Unset
  <2>2. FileKeys \subseteq ConfigKeys
    BY DEF ConfigKeys
  <2>3. \A k \in DOMAIN Deployed \cap NumberKeys : WrittenNumber(Deployed[k])
    BY ConfigAssumption, Zenon
  <2> QED BY <2>1, <2>2, <2>3, ConfigAssumption DEF LayerShape
<1>2. StartShape
  <2>1. startedWith = [server |-> NotStarted, projector |-> NotStarted]
    BY DEF ConfigInit
  <2> QED BY <2>1, ParseAnswers DEF StartShape
<1> QED BY <1>1, <1>2 DEF ConfigInv, ConfigInit

(* A key is written: nothing has been started, and no layer sets a key it    *)
(* has no place for or a number that is none.                                *)
LEMMA ConfigWrites ==
  ASSUME ConfigInv, NEW layer \in {"file", "env", "flags"}, NEW k \in ConfigKeys,
         NEW raw \in WrittenLayers[k], Write(layer, k, raw)
  PROVE  ConfigInv'
<1>1. /\ UNCHANGED <<path, startedWith>> /\ startedWith["server"].is = "no"
      /\ k \in (IF layer = "flags" THEN ConfigKeys ELSE FileKeys)
      /\ layers' = [layers EXCEPT ![layer] =
                      [j \in DOMAIN layers[layer] \cup {k} |-> IF j = k THEN raw ELSE layers[layer][j]]]
  BY DEF Write
<1> DEFINE g == [j \in DOMAIN layers[layer] \cup {k} |-> IF j = k THEN raw ELSE layers[layer][j]]
<1>2. DOMAIN g = DOMAIN layers[layer] \cup {k} /\ g[k] = raw
      /\ \A j \in DOMAIN layers[layer] : j # k => g[j] = layers[layer][j]
  OBVIOUS
<1>3. layers' = [layers EXCEPT ![layer] = g]
  BY <1>1
<1> HIDE DEF g
<1>4. DOMAIN layers' = DOMAIN layers /\ layers'[layer] = g
      /\ \A l \in {"file", "env", "flags"} : l # layer => layers'[l] = layers[l]
  BY <1>3 DEF ConfigInv, LayerShape
<1>5. LayerShape'
  <2>1. \A l \in {"file", "env", "flags"} : l # layer =>
          /\ DOMAIN layers'[l] \subseteq ConfigKeys
          /\ l # "flags" => DOMAIN layers'[l] \subseteq FileKeys
          /\ \A j \in DOMAIN layers'[l] \cap NumberKeys : WrittenNumber(layers'[l][j])
    BY <1>4 DEF ConfigInv, LayerShape
  <2>2. DOMAIN g \subseteq ConfigKeys /\ (layer # "flags" => DOMAIN g \subseteq FileKeys)
    BY <1>1, <1>2 DEF ConfigInv, LayerShape
  <2>3. \A j \in DOMAIN g \cap NumberKeys : WrittenNumber(g[j])
    <3>1. k \in NumberKeys => WrittenNumber(raw)
      BY ConfigAssumption, Zenon
    <3> QED BY <1>2, <3>1 DEF ConfigInv, LayerShape
  <2>4. \A l \in {"file", "env", "flags"} :
          /\ DOMAIN layers'[l] \subseteq ConfigKeys
          /\ l # "flags" => DOMAIN layers'[l] \subseteq FileKeys
          /\ \A j \in DOMAIN layers'[l] \cap NumberKeys : WrittenNumber(layers'[l][j])
    BY <1>4, <2>1, <2>2, <2>3
  <2> QED BY <1>4, <2>4 DEF ConfigInv, LayerShape
<1>6. StartShape'
  BY <1>1, ParseAnswers DEF ConfigInv, StartShape
<1> QED BY <1>1, <1>5, <1>6 DEF ConfigInv

(* The invariant is kept by every step. *)
LEMMA ConfigStep ==
  ASSUME ConfigInv, [ConfigNext]_configVars
  PROVE  ConfigInv'
<1>1. ASSUME UNCHANGED <<layers, path>>
      PROVE  LayerShape' /\ path' \in Paths /\ Parse' = Parse /\ ParseProjector' = ParseProjector
  <2>1. layers' = layers /\ path' = path
    BY <1>1
  <2>2. LayerShape' /\ path' \in Paths
    BY <2>1 DEF ConfigInv, LayerShape
  <2>3. ApplyFile(ConfigDefaults)' = ApplyFile(ConfigDefaults)
    BY <2>1, Zenon DEF ApplyFile, FileServing, FileAccounts, FileSim, Overlay, ConfigPath
  <2>4. ApplyEnv(ApplyFile(ConfigDefaults))' = ApplyEnv(ApplyFile(ConfigDefaults))
    BY <2>1, <2>3, Zenon DEF ApplyEnv, EnvServing, EnvAccounts, EnvSim, Overlay
  <2>5. /\ ApplyFlags(ApplyEnv(ApplyFile(ConfigDefaults)), ConfigKeys)'
           = ApplyFlags(ApplyEnv(ApplyFile(ConfigDefaults)), ConfigKeys)
        /\ ApplyFlags(ApplyEnv(ApplyFile(ConfigDefaults)), ProjectorFlags)'
           = ApplyFlags(ApplyEnv(ApplyFile(ConfigDefaults)), ProjectorFlags)
    BY <2>1, <2>4, Zenon DEF ApplyFlags, Overlay
  <2>6. /\ FileReadable' = FileReadable /\ CanRead("env", FileKeys)' = CanRead("env", FileKeys)
        /\ CanRead("flags", ConfigKeys)' = CanRead("flags", ConfigKeys)
        /\ CanRead("flags", ProjectorFlags)' = CanRead("flags", ProjectorFlags)
    BY <2>1, Zenon DEF FileReadable, CanRead, ConfigPath
  <2>7. Parse' = Parse
    BY <2>1, <2>5, <2>6, Zenon DEF Parse
  <2>8. ParseProjector' = ParseProjector
    BY <2>1, <2>5, <2>6, Zenon DEF ParseProjector
  <2> QED BY <2>2, <2>7, <2>8
<1>2. CASE UNCHANGED configVars
  <2>1. UNCHANGED <<layers, path>> /\ startedWith' = startedWith
    BY <1>2 DEF configVars
  <2> QED BY <1>1, <2>1 DEF ConfigInv, StartShape
<1>3. ASSUME NEW layer \in {"file", "env", "flags"}, NEW k \in ConfigKeys,
             NEW raw \in WrittenLayers[k], Write(layer, k, raw)
      PROVE  ConfigInv'
  BY <1>3, ConfigWrites
<1>4. CASE StartServer
  <2>1. UNCHANGED <<layers, path>> /\ startedWith["server"].is = "no"
        /\ startedWith' = [startedWith EXCEPT !["server"] = Parse]
    BY <1>4 DEF StartServer
  <2> QED BY <1>1, <2>1, ParseAnswers DEF ConfigInv, StartShape
<1>5. CASE StartProjector
  <2>1. UNCHANGED <<layers, path>> /\ startedWith["server"].is # "no"
        /\ startedWith' = [startedWith EXCEPT !["projector"] = ParseProjector]
    BY <1>5 DEF StartProjector
  <2> QED BY <1>1, <2>1, ParseAnswers DEF ConfigInv, StartShape
<1> QED BY <1>2, <1>3, <1>4, <1>5 DEF ConfigNext

(* What a key has once a layer is laid over a configuration. *)
LEMMA OverlayAt ==
  ASSUME NEW c, NEW layer, NEW keys, NEW k \in ConfigKeys
  PROVE  Overlay(c, layer, keys)[k] =
           IF k \in keys /\ k \in DOMAIN layers[layer] THEN ReadAs(layer, k) ELSE c[k]
  BY DEF Overlay, ReadAs

(* applyFile and applyEnv, whatever the order of their blocks. *)
LEMMA LayersAt ==
  ASSUME NEW c, NEW k \in ConfigKeys, LayerShape
  PROVE  /\ ApplyFile(c)[k] = IF ConfigPath # NoValue /\ k \in DOMAIN layers["file"]
                              THEN ReadAs("file", k) ELSE c[k]
         /\ ApplyEnv(c)[k] = IF k \in DOMAIN layers["env"] THEN ReadAs("env", k) ELSE c[k]
<1>1. DOMAIN layers["file"] \subseteq FileKeys /\ DOMAIN layers["env"] \subseteq FileKeys
  BY DEF LayerShape
<1>2. ApplyFile(c)[k] = IF ConfigPath # NoValue /\ k \in DOMAIN layers["file"]
                        THEN ReadAs("file", k) ELSE c[k]
  <2>1. FileServing(c)[k] = IF k \in ServingKeys /\ k \in DOMAIN layers["file"] THEN ReadAs("file", k) ELSE c[k]
    BY OverlayAt DEF FileServing
  <2>2. FileAccounts(FileServing(c))[k] =
          IF k \in AccountKeys /\ k \in DOMAIN layers["file"] THEN ReadAs("file", k) ELSE FileServing(c)[k]
    BY OverlayAt DEF FileAccounts
  <2>3. FileSim(FileAccounts(FileServing(c)))[k] =
          IF k \in SimKeys /\ k \in DOMAIN layers["file"] THEN ReadAs("file", k)
          ELSE FileAccounts(FileServing(c))[k]
    BY OverlayAt DEF FileSim
  <2>4. k \in DOMAIN layers["file"] => k \in ServingKeys \cup AccountKeys \cup SimKeys
    BY <1>1 DEF FileKeys
  <2> QED BY <2>1, <2>2, <2>3, <2>4 DEF ApplyFile
<1>3. ApplyEnv(c)[k] = IF k \in DOMAIN layers["env"] THEN ReadAs("env", k) ELSE c[k]
  <2> DEFINE s1 == ServingKeys \cup {"deadline", "idem"}
             s2 == AccountKeys \cup {"store", "bucket", "interval", "upload"}
             s3 == SimKeys \ {"deadline", "idem", "store", "bucket", "interval", "upload"}
  <2>1. EnvServing(c)[k] = IF k \in s1 /\ k \in DOMAIN layers["env"] THEN ReadAs("env", k) ELSE c[k]
    BY OverlayAt DEF EnvServing
  <2>2. EnvAccounts(EnvServing(c))[k] =
          IF k \in s2 /\ k \in DOMAIN layers["env"] THEN ReadAs("env", k) ELSE EnvServing(c)[k]
    BY OverlayAt DEF EnvAccounts
  <2>3. EnvSim(EnvAccounts(EnvServing(c)))[k] =
          IF k \in s3 /\ k \in DOMAIN layers["env"] THEN ReadAs("env", k)
          ELSE EnvAccounts(EnvServing(c))[k]
    BY OverlayAt DEF EnvSim
  <2>4. k \in DOMAIN layers["env"] => k \in s1 \cup s2 \cup s3
    BY <1>1 DEF FileKeys
  <2> HIDE DEF s1, s2, s3
  <2> QED BY <2>1, <2>2, <2>3, <2>4 DEF ApplyEnv
<1> QED BY <1>2, <1>3

(* The configuration the layers make, with the flags of one binary. *)
Resolved(keys) == ApplyFlags(ApplyEnv(ApplyFile(ConfigDefaults)), keys)

(* A key's value there. *)
LEMMA ResolvedAt ==
  ASSUME NEW keys, NEW k \in ConfigKeys, LayerShape
  PROVE  Resolved(keys)[k] =
           IF k \in keys /\ k \in DOMAIN layers["flags"] THEN ReadAs("flags", k)
           ELSE IF k \in DOMAIN layers["env"] THEN ReadAs("env", k)
           ELSE IF ConfigPath # NoValue /\ k \in DOMAIN layers["file"] THEN ReadAs("file", k)
           ELSE ConfigDefaults[k]
<1>1. Resolved(keys)[k] = IF k \in keys /\ k \in DOMAIN layers["flags"] THEN ReadAs("flags", k)
                          ELSE ApplyEnv(ApplyFile(ConfigDefaults))[k]
  BY OverlayAt DEF Resolved, ApplyFlags
<1>2. ApplyEnv(ApplyFile(ConfigDefaults))[k] =
        IF k \in DOMAIN layers["env"] THEN ReadAs("env", k) ELSE ApplyFile(ConfigDefaults)[k]
  BY LayersAt
<1>3. ApplyFile(ConfigDefaults)[k] = IF ConfigPath # NoValue /\ k \in DOMAIN layers["file"]
                                     THEN ReadAs("file", k) ELSE ConfigDefaults[k]
  BY LayersAt
<1> QED BY <1>1, <1>2, <1>3

(* What an accepted binary runs with. *)
LEMMA AcceptedIsResolved ==
  ASSUME ConfigInv, NEW b \in {"server", "projector"}, Accepted(b)
  PROVE  /\ startedWith[b].conf = Resolved(IF b = "server" THEN ConfigKeys ELSE ProjectorFlags)
         /\ FileReadable /\ CanRead("env", FileKeys)
         /\ b = "server" => CanRead("flags", ConfigKeys) /\ ValidServer(startedWith[b].conf)
<1>1. b = "server" => startedWith[b] = Parse /\ Parse.is = "accepted"
  BY ParseAnswers DEF ConfigInv, StartShape, Accepted, NotStarted
<1>2. b = "projector" => startedWith[b] = ParseProjector /\ ParseProjector.is = "accepted"
  BY ParseAnswers DEF ConfigInv, StartShape, Accepted, NotStarted
<1>3. Parse.is = "accepted" =>
        /\ FileReadable /\ CanRead("env", FileKeys) /\ CanRead("flags", ConfigKeys)
        /\ ValidServer(Resolved(ConfigKeys)) /\ Parse.conf = Resolved(ConfigKeys)
  BY DEF Parse, TurnedDown, Resolved
<1>4. ParseProjector.is = "accepted" =>
        /\ FileReadable /\ CanRead("env", FileKeys)
        /\ ParseProjector.conf = Resolved(ProjectorFlags)
  BY DEF ParseProjector, TurnedDown, Resolved
<1> QED BY <1>1, <1>2, <1>3, <1>4

(* Parse resolves flag over environment over file over default. *)
LEMMA ConfigHighest ==
  ASSUME ConfigInv
  PROVE  HighestLayerWins
<1> SUFFICES ASSUME NEW b \in {"server", "projector"}, Accepted(b), NEW k \in ConfigKeys
             PROVE  LET set == Setting(k, b = "server" \/ k \in ProjectorFlags)
                        top == IF "flags" \in set THEN "flags" ELSE IF "env" \in set THEN "env" ELSE "file"
                        v   == startedWith[b].conf[k]
                    IN IF set = {} THEN v = ConfigDefaults[k]
                       ELSE IF layers[top][k] = <<>> THEN v = FALSE
                       ELSE v = layers[top][k][1]
  BY DEF HighestLayerWins
<1> DEFINE flags == b = "server" \/ k \in ProjectorFlags
           keys == IF b = "server" THEN ConfigKeys ELSE ProjectorFlags
           set == Setting(k, flags)
           top == IF "flags" \in set THEN "flags" ELSE IF "env" \in set THEN "env" ELSE "file"
           v   == startedWith[b].conf[k]
<1>1. v = Resolved(keys)[k]
  BY AcceptedIsResolved
<1>2. (k \in keys) <=> flags
  OBVIOUS
<1>3. v = IF k \in keys /\ k \in DOMAIN layers["flags"] THEN ReadAs("flags", k)
          ELSE IF k \in DOMAIN layers["env"] THEN ReadAs("env", k)
          ELSE IF ConfigPath # NoValue /\ k \in DOMAIN layers["file"] THEN ReadAs("file", k)
          ELSE ConfigDefaults[k]
  BY <1>1, ResolvedAt DEF ConfigInv
<1>4. ConfigPath # NoValue <=> path.env # NoValue \/ (path.flag # NoValue /\ path.dashes = 2)
  BY DEF ConfigInv, Paths, ConfigPath, NoValue
<1>5. /\ ("flags" \in set) <=> (k \in keys /\ k \in DOMAIN layers["flags"])
      /\ ("env" \in set) <=> k \in DOMAIN layers["env"]
      /\ ("file" \in set) <=> (ConfigPath # NoValue /\ k \in DOMAIN layers["file"])
      /\ set \subseteq {"file", "env", "flags"}
  BY <1>2, <1>4 DEF Setting
<1> HIDE DEF flags, keys, set, v
<1>6. IF set = {} THEN v = ConfigDefaults[k] ELSE v = ReadAs(top, k)
  BY <1>3, <1>5
<1>7. IF set = {} THEN v = ConfigDefaults[k]
      ELSE IF layers[top][k] = <<>> THEN v = FALSE
      ELSE v = layers[top][k][1]
  BY <1>6 DEF ReadAs
<1> QED BY <1>7 DEF set, flags, v

(* A number an accepted layer sets is one. *)
LEMMA ReadNumber ==
  ASSUME LayerShape, NEW layer \in {"file", "env", "flags"}, NEW keys, CanRead(layer, keys),
         NEW k \in NumberKeys, k \in keys, k \in DOMAIN layers[layer]
  PROVE  ReadAs(layer, k) \in Int
<1>1. ~Lenient(layer, k)
  BY DEF Lenient, NumberKeys, AccountKeys, SimKeys
<1>2. layers[layer][k] # <<>>
  BY <1>1 DEF CanRead
<1>3. WrittenNumber(layers[layer][k])
  BY DEF LayerShape
<1>4. layers[layer][k][1] \in Int
  BY <1>2, <1>3 DEF WrittenNumber
<1> QED BY <1>2, <1>4 DEF ReadAs

(* The counts and durations of an accepted server are numbers. *)
LEMMA ServerNumbers ==
  ASSUME ConfigInv, Accepted("server"), NEW k \in NumberKeys
  PROVE  startedWith["server"].conf[k] \in Int
<1>1. startedWith["server"].conf = Resolved(ConfigKeys) /\ FileReadable /\ CanRead("env", FileKeys)
      /\ CanRead("flags", ConfigKeys)
  BY AcceptedIsResolved
<1>2. k \in ConfigKeys /\ k \in FileKeys /\ LayerShape
  BY DEF ConfigInv, NumberKeys, ConfigKeys, FileKeys, ServingKeys, AccountKeys, SimKeys
<1>3. k \in DOMAIN layers["flags"] => ReadAs("flags", k) \in Int
  BY <1>1, <1>2, ReadNumber
<1>4. k \in DOMAIN layers["env"] => ReadAs("env", k) \in Int
  BY <1>1, <1>2, ReadNumber
<1>5. ConfigPath # NoValue /\ k \in DOMAIN layers["file"] => ReadAs("file", k) \in Int
  <2>1. ConfigPath # NoValue => CanRead("file", FileKeys)
    BY <1>1 DEF FileReadable
  <2> QED BY <1>2, <2>1, ReadNumber
<1>6. ConfigDefaults[k] \in Int
  BY ConfigAssumption
<1> QED BY <1>1, <1>2, <1>3, <1>4, <1>5, <1>6, ResolvedAt

(* A duration in ticks, rounded up: it covers the duration, and one tick     *)
(* less does not.                                                            *)
LEMMA TicksCover ==
  ASSUME NEW d \in Int, NEW per \in Int, per > 0, NEW q \in Int, q = (d + per - 1) \div per
  PROVE  q * per >= d /\ (q - 1) * per < d
<1>1. PICK r \in Int : r = (d + per - 1) % per /\ 0 <= r /\ r < per /\ d + per - 1 = per * q + r
  OBVIOUS
<1>2. per * q = q * per /\ (q - 1) * per = q * per - per /\ q * per \in Int
  OBVIOUS
<1> QED BY <1>1, <1>2

(* More to cover takes no fewer ticks. *)
LEMMA TicksMonotone ==
  ASSUME NEW d \in Int, NEW e \in Int, d <= e, NEW per \in Int, per > 0,
         NEW m \in Int, m * per >= e, NEW n \in Int, (n - 1) * per < d
  PROVE  n <= m
<1> SUFFICES ASSUME n - 1 >= m PROVE FALSE
  OBVIOUS
<1>1. (n - 1) * per >= m * per
  OBVIOUS
<1>2. (n - 1) * per \in Int /\ m * per \in Int
  OBVIOUS
<1> QED BY <1>1, <1>2

(* What the relations of an accepted server mean in the units it runs in. *)
LEMMA ConfigRuns ==
  ASSUME ConfigInv
  PROVE  RunsAsConfigured
<1> SUFFICES ASSUME Accepted("server") PROVE RunsAsConfigured
  BY DEF RunsAsConfigured
<1> DEFINE c == startedWith["server"].conf
           per == TickInterval(c)
           grace == LinkdeadTicks(c, c.grace)
           max == LinkdeadTicks(c, c.max)
<1>1. /\ c.rate \in Int /\ c.budget \in Int /\ c.grace \in Int /\ c.max \in Int /\ c.rto \in Int
      /\ c.ttl \in Int /\ c.window \in Int /\ c.eventRate \in Int /\ c.idem \in Int /\ c.deadline \in Int
  <2>1. {"rate", "budget", "grace", "max", "rto", "ttl", "window", "eventRate", "idem", "deadline"}
          \subseteq NumberKeys
    BY DEF NumberKeys, AccountKeys, SimKeys
  <2> QED BY <2>1, ServerNumbers
<1>2. ValidSim(c) /\ ValidLinkdead(c)
  BY AcceptedIsResolved DEF ValidServer
<1>3. per \in Int /\ per > 0 /\ per >= c.budget /\ Second \in Int
  <2>1. c.rate >= 1 /\ c.budget > 0 /\ c.budget <= per /\ Second \in Int
    BY <1>2, ConfigAssumption DEF ValidSim
  <2>2. per \in Int
    BY <1>1, <2>1 DEF TickInterval
  <2> QED BY <1>1, <2>1, <2>2
<1>4. /\ c.grace > c.rto /\ c.rto > 0 /\ c.max >= c.grace /\ c.ttl > c.max /\ c.eventRate >= 1
      /\ c.window * Second >= c.max * c.eventRate /\ c.idem > c.deadline
  BY <1>2 DEF ValidSim, ValidLinkdead
<1>5. /\ grace = (c.grace + per - 1) \div per /\ max = (c.max + per - 1) \div per
  BY DEF LinkdeadTicks
<1> HIDE DEF per, grace, max
<1>6. grace \in Int /\ max \in Int
  BY <1>1, <1>3, <1>5
<1>7. grace * per >= c.grace /\ (grace - 1) * per < c.grace
  BY <1>1, <1>3, <1>5, <1>6, TicksCover
<1>8. max * per >= c.max /\ (max - 1) * per < c.max
  BY <1>1, <1>3, <1>5, <1>6, TicksCover
<1>9. grace <= max
  BY <1>1, <1>3, <1>4, <1>6, <1>7, <1>8, TicksMonotone
<1>10. grace * per \in Int /\ (max - 1) * per \in Int
  BY <1>3, <1>6
<1>11. 1 <= grace
  <2> SUFFICES ASSUME grace <= 0 PROVE FALSE
    BY <1>6
  <2>1. grace * per <= 0
    BY <1>3, <1>6
  <2> QED BY <1>1, <1>4, <1>7, <1>10, <2>1
<1>12. c.window * Second >= (max - 1) * per * c.eventRate
  <2>1. PICK a \in Int : a = (max - 1) * per
    BY <1>10
  <2>2. a <= c.max
    BY <1>1, <1>8, <2>1
  <2>3. a * c.eventRate <= c.max * c.eventRate
    BY <1>1, <1>4, <2>2
  <2>4. a * c.eventRate \in Int /\ c.max * c.eventRate \in Int /\ c.window * Second \in Int
    BY <1>1, <1>3
  <2> QED BY <1>4, <2>1, <2>3, <2>4
<1>13. grace * per > c.rto /\ c.ttl > (max - 1) * per
  BY <1>1, <1>4, <1>7, <1>8, <1>10
<1> QED BY <1>3, <1>4, <1>9, <1>11, <1>12, <1>13 DEF RunsAsConfigured, per, grace, max

(* What the invariant gives. *)
LEMMA ConfigInvSafe == ConfigInv => ConfigTypeOK /\ HighestLayerWins /\ RunsAsConfigured
<1> SUFFICES ASSUME ConfigInv PROVE ConfigTypeOK /\ HighestLayerWins /\ RunsAsConfigured
  OBVIOUS
<1>1. ConfigTypeOK
  BY ParseAnswers DEF ConfigInv, LayerShape, StartShape, ConfigTypeOK
<1> QED BY <1>1, ConfigHighest, ConfigRuns

-------------------------------------------------------------------------------
(* The accounts. *)

(* The maps of some keys of S to values of R. *)
PartialMaps(S, R) == UNION {[D -> R] : D \in SUBSET S}

(* Where a secret can be in a record. *)
SecretKinds == {"token", "invite"}

SecretsOf(acc, kind) == IF kind = "token" THEN acc.toks ELSE acc.invites

SecretMaps == PartialMaps(1..MaxSecrets, {"live", "revoked", "redeemed"})
CharMaps == PartialMaps(1..MaxChars, [name : Names, st : {"active", "deleted", "purged"}])
AccountSet == [user : Usernames, op : BOOLEAN, active : BOOLEAN, toks : SecretMaps,
               invites : SecretMaps, chars : CharMaps]
AccountMaps == PartialMaps(1..MaxAccounts, AccountSet)
NameMaps == PartialMaps(Names, [char : Nat, account : Nat])
StoreSet == [accts : AccountMaps, names : NameMaps, mode : {"closed", "invite", "open"}]

(* The record of Account i in a store holds the secret s, and holds it live. *)
SecretHeld(store, kind, i, s) ==
  i \in DOMAIN store.accts /\ s \in DOMAIN SecretsOf(store.accts[i], kind)

SecretLive(store, kind, i, s) ==
  SecretHeld(store, kind, i, s) /\ SecretsOf(store.accts[i], kind)[s] = "live"

(* No two Accounts share a username, and each Character's name is reserved   *)
(* for it.                                                                   *)
NamesKept(store) ==
  /\ \A i, j \in DOMAIN store.accts : store.accts[i].user = store.accts[j].user => i = j
  /\ \A i \in DOMAIN store.accts : \A c \in DOMAIN store.accts[i].chars :
       /\ store.accts[i].chars[c].name \in DOMAIN store.names
       /\ store.names[store.accts[i].chars[c].name] = [char |-> c, account |-> i]

(* Some Account of the store is an active operator's. *)
HasOperator(store) == \E i \in DOMAIN store.accts : store.accts[i].op /\ store.accts[i].active

AccountTypes ==
  /\ topic \in StoreSet /\ index \in StoreSet /\ running \in BOOLEAN /\ agreed \in BOOLEAN
  /\ governed \in BOOLEAN
  /\ made \in [account : 0..MaxAccounts, secret : 0..MaxSecrets, char : 0..MaxChars]
  /\ issued \subseteq 1..MaxSecrets /\ expired \subseteq 1..MaxSecrets
  /\ logins \subseteq 1..MaxAccounts /\ spent \in [1..MaxSecrets -> {0, 1}]
  /\ appendFaults \in 0..MaxAppendFaults /\ writes \in 0..MaxWrites

(* A secret is in one Account's record, in one place of it, wherever that    *)
(* record is kept, and one that was honoured is nowhere live.                *)
SecretShape ==
  /\ \A x, y \in {topic, index}, kind, other \in SecretKinds, i, j \in 1..MaxAccounts, s \in 1..MaxSecrets :
       SecretHeld(x, kind, i, s) =>
         s <= made.secret /\ (SecretHeld(y, other, j, s) => other = kind /\ i = j)
  /\ \A s \in 1..MaxSecrets : spent[s] = 1 =>
       /\ s <= made.secret
       /\ \A x \in {topic, index}, kind \in SecretKinds, i \in 1..MaxAccounts : ~SecretLive(x, kind, i, s)

(* The index against the topic. *)
IndexShape ==
  /\ \A x \in {topic, index} : DOMAIN x.accts \subseteq 1..made.account
  /\ ~running => index = EmptyStore
  /\ running => (governed => HasOperator(index)) /\ logins \subseteq DOMAIN index.accts
  /\ agreed /\ governed => HasOperator(topic)
  /\ agreed /\ running => index = topic
  /\ agreed => NamesKept(topic)

AccountsInv == AccountTypes /\ SecretShape /\ IndexShape

(*-------------------------------------------------------------------------*)

(* A partial map is a map of some of the keys, and such a map is one. *)
LEMMA MapIs ==
  ASSUME NEW S, NEW R, NEW f \in PartialMaps(S, R)
  PROVE  f = [x \in DOMAIN f |-> f[x]] /\ DOMAIN f \subseteq S /\ \A x \in DOMAIN f : f[x] \in R
<1>1. PICK D \in SUBSET S : f \in [D -> R]
  BY DEF PartialMaps
<1> QED BY <1>1

(* ... and a map of them is one. *)
LEMMA IsMap ==
  ASSUME NEW S, NEW R, NEW D, D \subseteq S, NEW f \in [D -> R]
  PROVE  f \in PartialMaps(S, R)
  BY DEF PartialMaps

(* The empty map. *)
LEMMA EmptyMap ==
  ASSUME NEW S, NEW R
  PROVE  <<>> \in PartialMaps(S, R) /\ DOMAIN <<>> = {}
<1>1. <<>> \in [{} -> R] /\ DOMAIN <<>> = {}
  OBVIOUS
<1> QED BY <1>1, IsMap

(* g is f with k set to v, and f without the keys of K. *)
SetIn(S, R, f, k, v, g) ==
  /\ g \in PartialMaps(S, R) /\ DOMAIN g = DOMAIN f \cup {k}
  /\ g[k] = v /\ \A j \in DOMAIN f : j # k => g[j] = f[j]

LeftOut(S, R, f, K, g) ==
  g \in PartialMaps(S, R) /\ DOMAIN g = DOMAIN f \ K /\ \A j \in DOMAIN f \ K : g[j] = f[j]

(* A map with a key set. *)
LEMMA WithMap ==
  ASSUME NEW S, NEW R, NEW f \in PartialMaps(S, R), NEW k \in S, NEW v \in R
  PROVE  SetIn(S, R, f, k, v, With(f, k, v))
<1>1. DOMAIN f \subseteq S /\ \A x \in DOMAIN f : f[x] \in R
  BY MapIs
<1>2. With(f, k, v) \in [DOMAIN f \cup {k} -> R]
  BY <1>1 DEF With
<1>3. With(f, k, v) \in PartialMaps(S, R)
  BY <1>1, <1>2, IsMap
<1> QED BY <1>3 DEF With, SetIn

(* A map with keys left out. *)
LEMMA WithoutMap ==
  ASSUME NEW S, NEW R, NEW f \in PartialMaps(S, R), NEW K
  PROVE  LeftOut(S, R, f, K, Without(f, K))
<1>1. DOMAIN f \subseteq S /\ \A x \in DOMAIN f : f[x] \in R
  BY MapIs
<1>2. Without(f, K) \in [DOMAIN f \ K -> R]
  BY <1>1 DEF Without
<1>3. Without(f, K) \in PartialMaps(S, R)
  BY <1>1, <1>2, IsMap
<1> QED BY <1>3 DEF Without, LeftOut

(* A map with a value replaced. *)
LEMMA ExceptMap ==
  ASSUME NEW S, NEW R, NEW f \in PartialMaps(S, R), NEW k \in DOMAIN f, NEW v \in R
  PROVE  SetIn(S, R, f, k, v, [f EXCEPT ![k] = v])
<1>1. DOMAIN f \subseteq S /\ \A x \in DOMAIN f : f[x] \in R
  BY MapIs
<1>2. [f EXCEPT ![k] = v] \in [DOMAIN f -> R]
  BY <1>1
<1>3. [f EXCEPT ![k] = v] \in PartialMaps(S, R)
  BY <1>1, <1>2, IsMap
<1>4. DOMAIN f = DOMAIN f \cup {k}
  OBVIOUS
<1> QED BY <1>3, <1>4 DEF SetIn

(* All the tokens of an Account revoked. *)
LEMMA RevokedMap ==
  ASSUME NEW f \in SecretMaps
  PROVE  /\ RevokeAll(f) \in SecretMaps /\ DOMAIN RevokeAll(f) = DOMAIN f
         /\ \A s \in DOMAIN f : RevokeAll(f)[s] = "revoked"
<1>1. DOMAIN f \subseteq 1..MaxSecrets
  BY MapIs, ZenonT(40) DEF SecretMaps
<1>2. RevokeAll(f) \in [DOMAIN f -> {"live", "revoked", "redeemed"}]
  BY DEF RevokeAll
<1>3. RevokeAll(f) \in SecretMaps
  BY <1>1, <1>2, IsMap DEF SecretMaps
<1> QED BY <1>3 DEF RevokeAll

(*-------------------------------------------------------------------------*)

(* An Account's record, and a store's. *)
LEMMA AccountIs ==
  ASSUME NEW acc \in AccountSet
  PROVE  /\ acc.user \in Usernames /\ acc.op \in BOOLEAN /\ acc.active \in BOOLEAN
         /\ acc.toks \in SecretMaps /\ acc.invites \in SecretMaps /\ acc.chars \in CharMaps
         /\ DOMAIN acc.toks \subseteq 1..MaxSecrets /\ DOMAIN acc.invites \subseteq 1..MaxSecrets
         /\ DOMAIN acc.chars \subseteq 1..MaxChars
<1>1. /\ acc.user \in Usernames /\ acc.op \in BOOLEAN /\ acc.active \in BOOLEAN
      /\ acc.toks \in SecretMaps /\ acc.invites \in SecretMaps /\ acc.chars \in CharMaps
  BY DEF AccountSet
<1>2. \A f \in SecretMaps : DOMAIN f \subseteq 1..MaxSecrets
  BY MapIs, ZenonT(40) DEF SecretMaps
<1>3. \A f \in CharMaps : DOMAIN f \subseteq 1..MaxChars
  BY MapIs, ZenonT(40) DEF CharMaps
<1> QED BY <1>1, <1>2, <1>3

(* What a store is made of. *)
LEMMA StoreIs ==
  ASSUME NEW store \in StoreSet
  PROVE  /\ store.accts \in AccountMaps /\ store.names \in NameMaps
         /\ store.mode \in {"closed", "invite", "open"}
         /\ DOMAIN store.accts \subseteq 1..MaxAccounts /\ DOMAIN store.names \subseteq Names
         /\ \A id \in DOMAIN store.accts : store.accts[id] \in AccountSet
<1>1. store.accts \in AccountMaps /\ store.names \in NameMaps /\ store.mode \in {"closed", "invite", "open"}
  BY DEF StoreSet
<1>2. \A f \in AccountMaps : DOMAIN f \subseteq 1..MaxAccounts /\ \A x \in DOMAIN f : f[x] \in AccountSet
  BY MapIs DEF AccountMaps
<1>3. \A f \in NameMaps : DOMAIN f \subseteq Names
  BY MapIs DEF NameMaps
<1> QED BY <1>1, <1>2, <1>3

(* A store with one Account's record written. *)
LEMMA PutStore ==
  ASSUME NEW store \in StoreSet, NEW id \in 1..MaxAccounts, NEW acc \in AccountSet
  PROVE  /\ Put(store, id, acc) \in StoreSet
         /\ DOMAIN Put(store, id, acc).accts = DOMAIN store.accts \cup {id}
         /\ Put(store, id, acc).accts[id] = acc
         /\ \A j \in DOMAIN store.accts : j # id => Put(store, id, acc).accts[j] = store.accts[j]
         /\ Put(store, id, acc).names = store.names /\ Put(store, id, acc).mode = store.mode
<1>1. store.accts \in AccountMaps
  BY StoreIs
<1> DEFINE m == With(store.accts, id, acc)
<1>2. /\ m \in AccountMaps /\ DOMAIN m = DOMAIN store.accts \cup {id} /\ m[id] = acc
      /\ \A j \in DOMAIN store.accts : j # id => m[j] = store.accts[j]
  <2>1. store.accts \in PartialMaps(1..MaxAccounts, AccountSet)
    BY <1>1 DEF AccountMaps
  <2>2. SetIn(1..MaxAccounts, AccountSet, store.accts, id, acc, m)
    BY <2>1, WithMap
  <2> QED BY <2>2 DEF AccountMaps, SetIn
<1>3. Put(store, id, acc) = [store EXCEPT !.accts = m]
  BY DEF Put
<1> HIDE DEF m
<1>4. Put(store, id, acc) \in StoreSet /\ Put(store, id, acc).accts = m
      /\ Put(store, id, acc).names = store.names /\ Put(store, id, acc).mode = store.mode
  BY <1>2, <1>3 DEF StoreSet
<1> QED BY <1>2, <1>4

(* A record that holds no secret its base does not, but for one, and none    *)
(* live that its base does not hold live, but for that one.                  *)
SecretsFrom(acc, base, kind, new) ==
  \A k \in SecretKinds, s \in 1..MaxSecrets :
    /\ s \in DOMAIN SecretsOf(acc, k) => s \in DOMAIN SecretsOf(base, k) \/ (s = new /\ k = kind)
    /\ s \in DOMAIN SecretsOf(acc, k) /\ SecretsOf(acc, k)[s] = "live" =>
         \/ s \in DOMAIN SecretsOf(base, k) /\ SecretsOf(base, k)[s] = "live"
         \/ s = new /\ k = kind

(* The same of a store, against the topic and the index. *)
StoreFrom(store, id, kind, new) ==
  \A k \in SecretKinds, i \in 1..MaxAccounts, s \in 1..MaxSecrets :
    /\ SecretHeld(store, k, i, s) =>
         SecretHeld(topic, k, i, s) \/ SecretHeld(index, k, i, s) \/ (s = new /\ k = kind /\ i = id)
    /\ SecretLive(store, k, i, s) =>
         SecretLive(topic, k, i, s) \/ SecretLive(index, k, i, s) \/ (s = new /\ k = kind /\ i = id)

(* A record with the username and the Characters' names of its base. *)
SameNames(acc, base) ==
  /\ acc.user = base.user /\ DOMAIN acc.chars = DOMAIN base.chars
  /\ \A c \in DOMAIN base.chars : acc.chars[c].name = base.chars[c].name

(* What the topic may become, and the index. *)
MayBeTopic(store, n, id, kind, new) ==
  /\ store \in StoreSet /\ DOMAIN store.accts \subseteq 1..n
  /\ StoreFrom(store, id, kind, new) /\ (agreed => NamesKept(store))
  /\ agreed /\ governed => HasOperator(store)

MayBeIndex(store, n, id, kind, new) ==
  /\ store \in StoreSet /\ DOMAIN store.accts \subseteq 1..n
  /\ StoreFrom(store, id, kind, new) /\ (governed => HasOperator(store)) /\ DOMAIN index.accts \subseteq DOMAIN store.accts

(* A record written over its own Account's: the secrets of the store. *)
LEMMA PutFrom ==
  ASSUME AccountsInv, NEW store \in StoreSet, NEW kind, NEW new, NEW id \in DOMAIN index.accts,
         StoreFrom(store, id, kind, new), NEW acc \in AccountSet,
         SecretsFrom(acc, index.accts[id], kind, new)
  PROVE  StoreFrom(Put(store, id, acc), id, kind, new)
<1>1. id \in 1..MaxAccounts
  BY StoreIs DEF AccountsInv, AccountTypes
<1> SUFFICES ASSUME NEW k \in SecretKinds, NEW i \in 1..MaxAccounts, NEW s \in 1..MaxSecrets
             PROVE  /\ SecretHeld(Put(store, id, acc), k, i, s) =>
                         SecretHeld(topic, k, i, s) \/ SecretHeld(index, k, i, s)
                         \/ (s = new /\ k = kind /\ i = id)
                    /\ SecretLive(Put(store, id, acc), k, i, s) =>
                         SecretLive(topic, k, i, s) \/ SecretLive(index, k, i, s)
                         \/ (s = new /\ k = kind /\ i = id)
  BY DEF StoreFrom
<1> DEFINE p == Put(store, id, acc)
<1>2. /\ DOMAIN p.accts = DOMAIN store.accts \cup {id} /\ p.accts[id] = acc
      /\ \A j \in DOMAIN store.accts : j # id => p.accts[j] = store.accts[j]
  BY <1>1, PutStore
<1> HIDE DEF p
<1>3. CASE i = id
  <2>1. SecretHeld(p, k, i, s) => s \in DOMAIN SecretsOf(acc, k)
    BY <1>2, <1>3 DEF SecretHeld
  <2>2. SecretLive(p, k, i, s) => s \in DOMAIN SecretsOf(acc, k) /\ SecretsOf(acc, k)[s] = "live"
    BY <1>2, <1>3 DEF SecretLive, SecretHeld
  <2>3. s \in DOMAIN SecretsOf(index.accts[id], k) => SecretHeld(index, k, i, s)
    BY <1>3 DEF SecretHeld
  <2>4. s \in DOMAIN SecretsOf(index.accts[id], k) /\ SecretsOf(index.accts[id], k)[s] = "live"
        => SecretLive(index, k, i, s)
    BY <1>3 DEF SecretLive, SecretHeld
  <2> QED BY <1>3, <2>1, <2>2, <2>3, <2>4 DEF SecretsFrom, p
<1>4. CASE i # id
  <2>1. SecretHeld(p, k, i, s) => SecretHeld(store, k, i, s)
    BY <1>2, <1>4 DEF SecretHeld
  <2>2. SecretLive(p, k, i, s) => SecretLive(store, k, i, s)
    BY <1>2, <1>4 DEF SecretLive, SecretHeld
  <2> QED BY <2>1, <2>2 DEF StoreFrom, p
<1> QED BY <1>3, <1>4

(* A new Account's record, which holds no secret. *)
LEMMA PutNewFrom ==
  ASSUME NEW store \in StoreSet, NEW kind, NEW new, NEW who, NEW id \in 1..MaxAccounts,
         StoreFrom(store, who, kind, new), NEW acc \in AccountSet,
         DOMAIN acc.toks = {}, DOMAIN acc.invites = {}
  PROVE  StoreFrom(Put(store, id, acc), who, kind, new)
<1> DEFINE p == Put(store, id, acc)
<1>1. /\ DOMAIN p.accts = DOMAIN store.accts \cup {id} /\ p.accts[id] = acc
      /\ \A j \in DOMAIN store.accts : j # id => p.accts[j] = store.accts[j]
  BY PutStore
<1> HIDE DEF p
<1>2. ASSUME NEW k \in SecretKinds, NEW i \in 1..MaxAccounts, NEW s \in 1..MaxSecrets, SecretHeld(p, k, i, s)
      PROVE  SecretHeld(store, k, i, s) /\ (SecretLive(p, k, i, s) => SecretLive(store, k, i, s))
  <2>1. i # id
    BY <1>1, <1>2 DEF SecretHeld, SecretsOf
  <2> QED BY <1>1, <1>2, <2>1 DEF SecretHeld, SecretLive
<1>3. \A k \in SecretKinds, i \in 1..MaxAccounts, s \in 1..MaxSecrets :
        SecretLive(p, k, i, s) => SecretHeld(p, k, i, s)
  BY DEF SecretLive
<1>4. StoreFrom(p, who, kind, new)
  BY <1>2, <1>3 DEF StoreFrom
<1> QED BY <1>4 DEF p

(* The names of a store, a record with the same names written over its own. *)
LEMMA PutNames ==
  ASSUME NEW store \in StoreSet, NamesKept(store), NEW id \in DOMAIN store.accts, NEW acc \in AccountSet,
         SameNames(acc, store.accts[id])
  PROVE  NamesKept(Put(store, id, acc))
<1>1. id \in 1..MaxAccounts
  BY StoreIs
<1> DEFINE p == Put(store, id, acc)
<1>2. /\ DOMAIN p.accts = DOMAIN store.accts /\ p.accts[id] = acc /\ p.names = store.names
      /\ \A j \in DOMAIN store.accts : j # id => p.accts[j] = store.accts[j]
  <2>1. DOMAIN store.accts \cup {id} = DOMAIN store.accts
    OBVIOUS
  <2> QED BY <1>1, <2>1, PutStore, ZenonT(40)
<1> HIDE DEF p
<1>3. \A j \in DOMAIN store.accts :
        /\ p.accts[j].user = store.accts[j].user /\ DOMAIN p.accts[j].chars = DOMAIN store.accts[j].chars
        /\ \A c \in DOMAIN store.accts[j].chars : p.accts[j].chars[c].name = store.accts[j].chars[c].name
  BY <1>2 DEF SameNames
<1>4. NamesKept(p)
  BY <1>2, <1>3 DEF NamesKept
<1> QED BY <1>4 DEF p

(* The names of a store, a new Account written. *)
LEMMA PutNewNames ==
  ASSUME NEW store \in StoreSet, NamesKept(store), NEW id \in 1..MaxAccounts, id \notin DOMAIN store.accts,
         NEW acc \in AccountSet, DOMAIN acc.chars = {},
         \A j \in DOMAIN store.accts : store.accts[j].user # acc.user
  PROVE  NamesKept(Put(store, id, acc))
<1> DEFINE p == Put(store, id, acc)
<1>1. /\ DOMAIN p.accts = DOMAIN store.accts \cup {id} /\ p.accts[id] = acc /\ p.names = store.names
      /\ \A j \in DOMAIN store.accts : p.accts[j] = store.accts[j]
  BY PutStore
<1> HIDE DEF p
<1>2. NamesKept(p)
  BY <1>1 DEF NamesKept
<1> QED BY <1>2 DEF p

(* A write that takes no active operator, or not the last. *)
LEMMA PutOperator ==
  ASSUME NEW store \in StoreSet, NEW id \in 1..MaxAccounts, NEW acc \in AccountSet,
         \E j \in DOMAIN store.accts :
           store.accts[j].op /\ store.accts[j].active /\ (j = id => acc.op /\ acc.active)
  PROVE  HasOperator(Put(store, id, acc))
<1>1. /\ DOMAIN Put(store, id, acc).accts = DOMAIN store.accts \cup {id} /\ Put(store, id, acc).accts[id] = acc
      /\ \A j \in DOMAIN store.accts : j # id => Put(store, id, acc).accts[j] = store.accts[j]
  BY PutStore
<1> QED BY <1>1 DEF HasOperator

(* The stores as they are may stay. *)
LEMMA StaysAsIs ==
  ASSUME AccountsInv, running, NEW n \in Nat, n >= made.account, NEW id, NEW kind, NEW new
  PROVE  MayBeTopic(topic, n, id, kind, new) /\ MayBeIndex(index, n, id, kind, new)
<1>1. StoreFrom(topic, id, kind, new) /\ StoreFrom(index, id, kind, new)
  BY DEF StoreFrom
<1>2. DOMAIN topic.accts \subseteq 1..made.account /\ DOMAIN index.accts \subseteq 1..made.account
  BY DEF AccountsInv, IndexShape
<1>3. made.account \in Nat
  BY AccountsAssumption DEF AccountsInv, AccountTypes
<1>4. DOMAIN topic.accts \subseteq 1..n /\ DOMAIN index.accts \subseteq 1..n
  BY <1>2, <1>3
<1> QED BY <1>1, <1>4 DEF MayBeTopic, MayBeIndex, AccountsInv, AccountTypes, IndexShape

(* A record written over its own Account's, in both. *)
LEMMA Rewritten ==
  ASSUME AccountsInv, running, NEW kind, NEW new, NEW id \in DOMAIN index.accts, NEW acc \in AccountSet,
         SecretsFrom(acc, index.accts[id], kind, new), SameNames(acc, index.accts[id]),
         \/ index.accts[id].op /\ index.accts[id].active => acc.op /\ acc.active
         \/ ActiveOperators(index) # {id}
  PROVE  /\ MayBeTopic(Put(topic, id, acc), made.account, id, kind, new)
         /\ MayBeIndex(Put(index, id, acc), made.account, id, kind, new)
<1>1. topic \in StoreSet /\ index \in StoreSet /\ DOMAIN topic.accts \subseteq 1..made.account
      /\ DOMAIN index.accts \subseteq 1..made.account /\ (governed => HasOperator(index))
      /\ (agreed => index = topic /\ NamesKept(topic))
  BY DEF AccountsInv, AccountTypes, IndexShape
<1>2. id \in 1..MaxAccounts
  BY <1>1, StoreIs
<1>3. StoreFrom(topic, id, kind, new) /\ StoreFrom(index, id, kind, new)
  BY DEF StoreFrom
<1>4. StoreFrom(Put(topic, id, acc), id, kind, new) /\ StoreFrom(Put(index, id, acc), id, kind, new)
  BY <1>1, <1>3, PutFrom
<1>5. governed => HasOperator(Put(index, id, acc))
  <2> SUFFICES ASSUME governed PROVE HasOperator(Put(index, id, acc))
    OBVIOUS
  <2>1. \E j \in DOMAIN index.accts :
           index.accts[j].op /\ index.accts[j].active /\ (j = id => acc.op /\ acc.active)
    <3>1. PICK j \in DOMAIN index.accts : index.accts[j].op /\ index.accts[j].active
      BY <1>1 DEF HasOperator
    <3>2. CASE index.accts[id].op /\ index.accts[id].active => acc.op /\ acc.active
      BY <3>1, <3>2
    <3>3. CASE ActiveOperators(index) # {id}
      <4>1. j \in ActiveOperators(index)
        BY <3>1 DEF ActiveOperators
      <4>2. PICK q \in ActiveOperators(index) : q # id
        BY <3>3, <4>1
      <4> QED BY <4>2 DEF ActiveOperators
    <3> QED BY <3>2, <3>3
  <2> QED BY <1>1, <1>2, <2>1, PutOperator
<1>6. agreed => NamesKept(Put(topic, id, acc))
  BY <1>1, PutNames
<1>7. /\ Put(topic, id, acc) \in StoreSet /\ DOMAIN Put(topic, id, acc).accts = DOMAIN topic.accts \cup {id}
      /\ Put(index, id, acc) \in StoreSet /\ DOMAIN Put(index, id, acc).accts = DOMAIN index.accts \cup {id}
  BY <1>1, <1>2, PutStore
<1>8. agreed /\ governed => HasOperator(Put(topic, id, acc))
  BY <1>1, <1>5
<1> QED BY <1>1, <1>4, <1>5, <1>6, <1>7, <1>8 DEF MayBeTopic, MayBeIndex

(* The invariant holds at the start. *)
LEMMA AccountsInitInv == AccountsInit => AccountsInv
<1> SUFFICES ASSUME AccountsInit PROVE AccountsInv
  OBVIOUS
<1> USE AccountsAssumption
<1>1. /\ topic = EmptyStore /\ index = EmptyStore /\ running = FALSE
      /\ made = [account |-> 0, secret |-> 0, char |-> 0]
      /\ issued = {} /\ expired = {} /\ spent = [s \in 1..MaxSecrets |-> 0] /\ logins = {}
      /\ writes = 0 /\ appendFaults = 0 /\ agreed = TRUE /\ governed = FALSE
  BY DEF AccountsInit
<1>2. EmptyStore \in StoreSet /\ DOMAIN EmptyStore.accts = {}
  <2>1. <<>> \in AccountMaps /\ <<>> \in NameMaps /\ DOMAIN <<>> = {}
    BY EmptyMap DEF AccountMaps, NameMaps
  <2> QED BY <2>1 DEF EmptyStore, StoreSet
<1>3. AccountTypes
  <2>1. running \in BOOLEAN /\ agreed \in BOOLEAN /\ governed \in BOOLEAN
    BY <1>1, Zenon
  <2>2. spent \in [1..MaxSecrets -> {0, 1}] /\ writes \in 0..MaxWrites /\ appendFaults \in 0..MaxAppendFaults
    BY <1>1
  <2>3. made \in [account : 0..MaxAccounts, secret : 0..MaxSecrets, char : 0..MaxChars]
    BY <1>1
  <2> QED BY <1>1, <1>2, <2>1, <2>2, <2>3 DEF AccountTypes
<1>4. SecretShape
  BY <1>1, <1>2 DEF SecretShape, SecretHeld
<1>5. IndexShape
  BY <1>1, <1>2 DEF IndexShape, NamesKept
<1> QED BY <1>3, <1>4, <1>5 DEF AccountsInv

(* What the invariant gives. *)
LEMMA AccountsInvSafe == AccountsInv => AccountsTypeOK /\ SpentOnce /\ NamesForGood /\ OperatorRemains
<1> SUFFICES ASSUME AccountsInv PROVE AccountsTypeOK /\ SpentOnce /\ NamesForGood /\ OperatorRemains
  OBVIOUS
<1> USE DEF AccountsInv
<1>1. SpentOnce
  BY DEF SpentOnce, AccountTypes
<1>2. NamesForGood
  <2>1. agreed => index = topic \/ index = EmptyStore
    BY DEF IndexShape
  <2>2. NamesKept(EmptyStore)
    BY EmptyMap DEF NamesKept, EmptyStore
  <2>3. agreed => NamesKept(topic) /\ NamesKept(index)
    BY <2>1, <2>2 DEF IndexShape
  <2> QED BY <2>3 DEF NamesForGood, NamesKept, Stores
<1>3. OperatorRemains
  BY DEF IndexShape, OperatorRemains, ActiveOperators, HasOperator
<1>4. AccountsTypeOK
  <2>1. \A store \in Stores :
          /\ DOMAIN store.accts \subseteq 1..MaxAccounts
          /\ \A id \in DOMAIN store.accts : store.accts[id] \in AccountSet
          /\ DOMAIN store.names \subseteq Names
          /\ store.mode \in {"closed", "invite", "open"}
    <3> SUFFICES ASSUME NEW store \in Stores
                 PROVE  /\ DOMAIN store.accts \subseteq 1..MaxAccounts
                        /\ \A id \in DOMAIN store.accts : store.accts[id] \in AccountSet
                        /\ DOMAIN store.names \subseteq Names
                        /\ store.mode \in {"closed", "invite", "open"}
      OBVIOUS
    <3>1. store \in StoreSet
      BY DEF AccountTypes, Stores
    <3> QED BY <3>1, StoreIs
  <2>2. \A acc \in AccountSet :
          /\ acc.user \in Usernames /\ acc.op \in BOOLEAN /\ acc.active \in BOOLEAN
          /\ DOMAIN acc.toks \cup DOMAIN acc.invites \subseteq 1..MaxSecrets
          /\ DOMAIN acc.chars \subseteq 1..MaxChars
    BY AccountIs
  <2> QED BY <2>1, <2>2 DEF AccountsTypeOK, AccountTypes
<1> QED BY <1>1, <1>2, <1>3, <1>4

(* How a write ends: the topic at one of some stages, the index at one of    *)
(* its own or gone with the process, and the two agreeing unless an append   *)
(* taken for failed landed.                                                  *)
WriteEnds(T, I) ==
  /\ topic' \in T /\ running' \in BOOLEAN
  /\ running' => index' \in I
  /\ ~running' => index' = EmptyStore
  /\ agreed' \in BOOLEAN /\ (agreed' => agreed) /\ (agreed' /\ running' => index' = topic')
  /\ governed' = governed
  /\ writes' \in 0..MaxWrites /\ appendFaults' \in 0..MaxAppendFaults

(* The secrets of a step: made so far, and the ones it honours. *)
SecretsMove(new) ==
  /\ made'.secret \in Nat /\ made.secret <= made'.secret
  /\ new \in 1..MaxSecrets => new = made.secret + 1 /\ made'.secret = new

(* A write that is acknowledged. *)
LEMMA DoneEnds ==
  ASSUME AccountsInv, running, NEW t, NEW i, agreed => t = i, Done(t, i)
  PROVE  WriteEnds({t}, {i}) /\ topic' = t /\ index' = i /\ running' = running
<1>1. topic' = t /\ index' = i /\ running' = running /\ agreed' = agreed /\ appendFaults' = appendFaults
      /\ governed' = governed /\ writes < MaxWrites /\ writes' = writes + 1
  BY DEF Done, Writes
<1>2. running \in BOOLEAN /\ agreed \in BOOLEAN /\ writes \in Nat /\ MaxWrites \in Nat
      /\ appendFaults \in 0..MaxAppendFaults
  BY AccountsAssumption DEF AccountsInv, AccountTypes
<1>3. running' \in BOOLEAN /\ agreed' \in BOOLEAN
  BY <1>1, <1>2
<1>4. writes' \in 0..MaxWrites
  BY <1>1, <1>2
<1> QED BY <1>1, <1>2, <1>3, <1>4 DEF WriteEnds

(* One that is not. *)
LEMMA FailEnds ==
  ASSUME AccountsInv, running, NEW t, NEW i, NEW t2, agreed => t = i, AppendFails(t, i, t2)
  PROVE  WriteEnds({t, t2}, {i})
<1>1. appendFaults < MaxAppendFaults /\ appendFaults' = appendFaults + 1
      /\ writes < MaxWrites /\ writes' = writes + 1 /\ governed' = governed
  BY DEF AppendFails, Writes
<1>2. running \in BOOLEAN /\ agreed \in BOOLEAN /\ writes \in Nat /\ MaxWrites \in Nat
      /\ appendFaults \in Nat /\ MaxAppendFaults \in Nat
  BY AccountsAssumption DEF AccountsInv, AccountTypes
<1>3. writes' \in 0..MaxWrites /\ appendFaults' \in 0..MaxAppendFaults
  BY <1>1, <1>2
<1>4. CASE topic' = t /\ index' = i /\ running' = running /\ agreed' = agreed
  <2>1. running' \in BOOLEAN /\ agreed' \in BOOLEAN
    BY <1>2, <1>4
  <2> QED BY <1>1, <1>3, <1>4, <2>1 DEF WriteEnds
<1>5. CASE topic' = t2 /\ index' = i /\ running' = running /\ agreed' = (agreed /\ t2 = t)
  <2>1. running' \in BOOLEAN /\ agreed' \in BOOLEAN /\ (agreed' => agreed /\ t2 = t)
    BY <1>2, <1>5
  <2> QED BY <1>1, <1>3, <1>5, <2>1 DEF WriteEnds
<1>6. CASE topic' \in {t, t2} /\ index' = EmptyStore /\ running' = FALSE /\ agreed' = agreed
  <2>1. running' \in BOOLEAN /\ agreed' \in BOOLEAN /\ ~running'
    BY <1>2, <1>6
  <2> QED BY <1>1, <1>3, <1>6, <2>1 DEF WriteEnds
<1> QED BY <1>4, <1>5, <1>6 DEF AppendFails

(* More stages change nothing. *)
LEMMA EndsMore ==
  ASSUME NEW T, NEW I, NEW T2, NEW I2, T \subseteq T2, I \subseteq I2, WriteEnds(T, I)
  PROVE  WriteEnds(T2, I2)
  BY DEF WriteEnds

(* A store with nothing in it. *)
LEMMA EmptyHoldsNone ==
  /\ EmptyStore \in StoreSet /\ DOMAIN EmptyStore.accts = {}
  /\ \A kind, i, s : ~SecretHeld(EmptyStore, kind, i, s) /\ ~SecretLive(EmptyStore, kind, i, s)
<1>1. <<>> \in AccountMaps /\ <<>> \in NameMaps /\ DOMAIN <<>> = {}
  BY EmptyMap DEF AccountMaps, NameMaps
<1>2. EmptyStore \in StoreSet /\ DOMAIN EmptyStore.accts = {}
  BY <1>1 DEF EmptyStore, StoreSet
<1> QED BY <1>2 DEF SecretHeld, SecretLive

(* However a write ends, the invariant holds if every stage may be. *)
LEMMA AccountsWritten ==
  ASSUME AccountsInv, running, NEW T, NEW I, NEW n \in 0..MaxAccounts, NEW id, NEW kind, NEW new,
         \A t \in T : MayBeTopic(t, n, id, kind, new), \A i \in I : MayBeIndex(i, n, id, kind, new),
         WriteEnds(T, I), SecretsMove(new), made'.account = n,
         made' \in [account : 0..MaxAccounts, secret : 0..MaxSecrets, char : 0..MaxChars],
         issued' \subseteq 1..MaxSecrets, expired' = expired, logins' \subseteq logins,
         spent' \in [1..MaxSecrets -> {0, 1}],
         \A s \in 1..MaxSecrets : spent'[s] = 1 =>
           \/ spent[s] = 1
           \/ /\ s <= made.secret
              /\ \A x \in {topic', index'}, k \in SecretKinds, i \in 1..MaxAccounts : ~SecretLive(x, k, i, s)
  PROVE  AccountsInv'
<1>1. PICK t \in T : t = topic'
  BY DEF WriteEnds
<1>2. PICK i \in I \cup {EmptyStore} : i = index'
  BY DEF WriteEnds
<1>3. t \in StoreSet /\ DOMAIN t.accts \subseteq 1..n /\ StoreFrom(t, id, kind, new) /\ (agreed => NamesKept(t))
      /\ (agreed /\ governed => HasOperator(t))
  BY <1>1 DEF MayBeTopic
<1>4. i \in StoreSet /\ DOMAIN i.accts \subseteq 1..n /\ StoreFrom(i, id, kind, new)
  <2>1. StoreFrom(EmptyStore, id, kind, new)
    BY EmptyHoldsNone DEF StoreFrom
  <2> QED BY <1>2, <2>1, EmptyHoldsNone DEF MayBeIndex
<1>5. running' => (governed => HasOperator(i)) /\ DOMAIN index.accts \subseteq DOMAIN i.accts
  BY <1>2 DEF WriteEnds, MayBeIndex
<1>6. AccountTypes'
  <2>1. running' \in BOOLEAN /\ agreed' \in BOOLEAN /\ writes' \in 0..MaxWrites /\ appendFaults' \in 0..MaxAppendFaults
        /\ governed' \in BOOLEAN
    BY DEF WriteEnds, AccountsInv, AccountTypes
  <2>2. expired' \subseteq 1..MaxSecrets /\ logins' \subseteq 1..MaxAccounts
    BY DEF AccountsInv, AccountTypes
  <2>3. topic' \in StoreSet /\ index' \in StoreSet
    BY <1>1, <1>2, <1>3, <1>4
  <2> QED BY <2>1, <2>2, <2>3 DEF AccountTypes
<1>7. made.secret \in Nat /\ made'.secret \in Nat /\ MaxSecrets \in Nat
  BY AccountsAssumption DEF AccountsInv, AccountTypes, SecretsMove
<1>8. SecretShape'
  <2>1. ASSUME NEW x \in {t, i}, NEW y \in {t, i}, NEW k \in SecretKinds, NEW other \in SecretKinds,
               NEW a \in 1..MaxAccounts, NEW b \in 1..MaxAccounts, NEW s \in 1..MaxSecrets,
               SecretHeld(x, k, a, s)
        PROVE  s <= made'.secret /\ (SecretHeld(y, other, b, s) => other = k /\ a = b)
    <3>1. /\ \E u \in {topic, index} : SecretHeld(u, k, a, s) \/ (s = new /\ k = kind /\ a = id)
          /\ SecretHeld(y, other, b, s) =>
               \E v \in {topic, index} : SecretHeld(v, other, b, s) \/ (s = new /\ other = kind /\ b = id)
      BY <1>3, <1>4, <2>1 DEF StoreFrom
    <3>2. \A u \in {topic, index}, j \in 1..MaxAccounts, q \in SecretKinds :
            SecretHeld(u, q, j, s) => s <= made.secret
      BY DEF AccountsInv, SecretShape
    <3>3. s \in Nat /\ (s = new => s > made.secret /\ s <= made'.secret) /\ made.secret <= made'.secret
      BY <1>7 DEF SecretsMove
    <3>4. CASE s = new
      BY <1>7, <3>1, <3>2, <3>3, <3>4
    <3>5. CASE s # new
      <4>1. s <= made.secret
        BY <3>1, <3>2, <3>5
      <4>2. SecretHeld(y, other, b, s) => other = k /\ a = b
        BY <3>1, <3>5 DEF AccountsInv, SecretShape
      <4> QED BY <1>7, <3>3, <4>1, <4>2
    <3> QED BY <3>4, <3>5
  <2>2. ASSUME NEW s \in 1..MaxSecrets, spent'[s] = 1
        PROVE  /\ s <= made'.secret
               /\ \A x \in {t, i}, k \in SecretKinds, j \in 1..MaxAccounts : ~SecretLive(x, k, j, s)
    <3>1. CASE spent[s] = 1
      <4>1. s <= made.secret
            /\ \A x \in {topic, index}, k \in SecretKinds, j \in 1..MaxAccounts : ~SecretLive(x, k, j, s)
        BY <3>1 DEF AccountsInv, SecretShape
      <4>2. s # new /\ s <= made'.secret
        BY <1>7, <4>1 DEF SecretsMove
      <4> QED BY <1>3, <1>4, <4>1, <4>2 DEF StoreFrom
    <3>2. CASE spent[s] # 1
      BY <1>1, <1>2, <1>7, <2>2, <3>2 DEF SecretsMove
    <3> QED BY <3>1, <3>2
  <2>3. {topic', index'} = {t, i}
    BY <1>1, <1>2
  <2> QED BY <2>1, <2>2, <2>3 DEF SecretShape
<1>9. IndexShape'
  <2>1. running' => logins' \subseteq DOMAIN index'.accts
    BY <1>2, <1>5 DEF AccountsInv, IndexShape
  <2>2. agreed' => NamesKept(t)
    BY <1>3 DEF WriteEnds
  <2>3. running' => (governed' => HasOperator(index'))
    BY <1>2, <1>5 DEF WriteEnds
  <2>4. agreed' /\ governed' => HasOperator(topic')
    BY <1>1, <1>3 DEF WriteEnds
  <2> QED BY <1>1, <1>2, <1>3, <1>4, <2>1, <2>2, <2>3, <2>4 DEF IndexShape, WriteEnds
<1> QED BY <1>6, <1>8, <1>9 DEF AccountsInv

(* A record written over its Account's own, with no secret made. *)
LEMMA AccountRewritten ==
  ASSUME AccountsInv, running, NEW id \in DOMAIN index.accts, NEW acc \in AccountSet,
         SecretsFrom(acc, index.accts[id], "token", 0), SameNames(acc, index.accts[id]),
         \/ index.accts[id].op /\ index.accts[id].active => acc.op /\ acc.active
         \/ ActiveOperators(index) # {id},
         WriteAccount(id, acc), UNCHANGED <<made, issued, expired, spent, logins>>
  PROVE  AccountsInv'
<1> DEFINE T == {topic, Put(topic, id, acc)}
           I == {index, Put(index, id, acc)}
<1>1. made \in [account : 0..MaxAccounts, secret : 0..MaxSecrets, char : 0..MaxChars]
      /\ made.account \in 0..MaxAccounts /\ made.secret \in Nat
      /\ (agreed => index = topic /\ Put(topic, id, acc) = Put(index, id, acc))
      /\ issued \subseteq 1..MaxSecrets /\ spent \in [1..MaxSecrets -> {0, 1}]
  BY AccountsAssumption DEF AccountsInv, AccountTypes, IndexShape
<1>2. WriteEnds(T, I)
  <2>1. CASE Commit(id, acc)
    <3>1. WriteEnds({Put(topic, id, acc)}, {Put(index, id, acc)})
      BY <1>1, <2>1, DoneEnds DEF Commit
    <3>2. {Put(topic, id, acc)} \subseteq T /\ {Put(index, id, acc)} \subseteq I
      OBVIOUS
    <3> QED BY <3>1, <3>2, EndsMore
  <2>2. CASE CommitFails(id, acc)
    <3>1. WriteEnds({topic, Put(topic, id, acc)}, {index})
      BY <1>1, <2>2, FailEnds DEF CommitFails
    <3>2. {topic, Put(topic, id, acc)} \subseteq T /\ {index} \subseteq I
      OBVIOUS
    <3> QED BY <3>1, <3>2, EndsMore
  <2> QED BY <2>1, <2>2 DEF WriteAccount
<1>3. /\ \A t \in T : MayBeTopic(t, made.account, id, "token", 0)
      /\ \A i \in I : MayBeIndex(i, made.account, id, "token", 0)
  <2>1. made.account \in Nat /\ made.account >= made.account
    BY <1>1, AccountsAssumption
  <2>2. MayBeTopic(topic, made.account, id, "token", 0) /\ MayBeIndex(index, made.account, id, "token", 0)
    BY <2>1, StaysAsIs
  <2> QED BY <2>2, Rewritten
<1>4. SecretsMove(0) /\ made' = made /\ spent' = spent /\ issued' = issued
      /\ expired' = expired /\ logins' = logins
  BY <1>1 DEF SecretsMove
<1> HIDE DEF T, I
<1> QED BY <1>1, <1>2, <1>3, <1>4, AccountsWritten

(* A record whose tokens, or whose invites, are all that may have changed. *)
LEMMA TokensFrom ==
  ASSUME NEW acc \in AccountSet, NEW b \in AccountSet, NEW new,
         b.invites = acc.invites, b.user = acc.user, b.chars = acc.chars,
         \A s \in DOMAIN b.toks :
           /\ s \in DOMAIN acc.toks \/ s = new
           /\ b.toks[s] = "live" => (s \in DOMAIN acc.toks /\ acc.toks[s] = "live") \/ s = new
  PROVE  SecretsFrom(b, acc, "token", new) /\ SameNames(b, acc)
  BY DEF SecretsFrom, SecretsOf, SecretKinds, SameNames

(* ... the same of invites. *)
LEMMA InvitesFrom ==
  ASSUME NEW acc \in AccountSet, NEW b \in AccountSet, NEW new,
         b.toks = acc.toks, b.user = acc.user, b.chars = acc.chars,
         \A s \in DOMAIN b.invites :
           /\ s \in DOMAIN acc.invites \/ s = new
           /\ b.invites[s] = "live" => (s \in DOMAIN acc.invites /\ acc.invites[s] = "live") \/ s = new
  PROVE  SecretsFrom(b, acc, "invite", new) /\ SameNames(b, acc)
  BY DEF SecretsFrom, SecretsOf, SecretKinds, SameNames

(* With no secret made it does not matter where one would have been. *)
LEMMA NoneMadeFrom ==
  ASSUME NEW acc, NEW b, NEW kind, NEW other, SecretsFrom(b, acc, kind, 0)
  PROVE  SecretsFrom(b, acc, other, 0)
  BY DEF SecretsFrom

(* The record of an Account of the index. *)
LEMMA IndexedIs ==
  ASSUME AccountsInv, NEW id \in Ids
  PROVE  Acc(id) = index.accts[id] /\ Acc(id) \in AccountSet /\ id \in 1..MaxAccounts /\ id \in DOMAIN index.accts
<1>1. index \in StoreSet
  BY DEF AccountsInv, AccountTypes
<1> QED BY <1>1, StoreIs DEF Ids, Acc

(* A record with other tokens, and with other invites. *)
LEMMA OtherTokens ==
  ASSUME NEW acc \in AccountSet, NEW m \in SecretMaps
  PROVE  LET b == [acc EXCEPT !.toks = m]
         IN /\ b \in AccountSet /\ b.toks = m /\ b.invites = acc.invites /\ b.user = acc.user
            /\ b.chars = acc.chars /\ b.op = acc.op /\ b.active = acc.active
  BY DEF AccountSet

(* ... the same of the invites. *)
LEMMA OtherInvites ==
  ASSUME NEW acc \in AccountSet, NEW m \in SecretMaps
  PROVE  LET b == [acc EXCEPT !.invites = m]
         IN /\ b \in AccountSet /\ b.invites = m /\ b.toks = acc.toks /\ b.user = acc.user
            /\ b.chars = acc.chars /\ b.op = acc.op /\ b.active = acc.active
  BY DEF AccountSet

(* Secrets with one replaced, one added, some pruned. *)
LEMMA SecretSet ==
  ASSUME NEW m \in SecretMaps, NEW s \in DOMAIN m, NEW v \in {"live", "revoked", "redeemed"}
  PROVE  LET q == [m EXCEPT ![s] = v]
         IN /\ q \in SecretMaps /\ DOMAIN q = DOMAIN m /\ q[s] = v
            /\ \A x \in DOMAIN m : x # s => q[x] = m[x]
<1>1. SetIn(1..MaxSecrets, {"live", "revoked", "redeemed"}, m, s, v, [m EXCEPT ![s] = v])
  BY ExceptMap DEF SecretMaps
<1> QED BY <1>1 DEF SetIn, SecretMaps

AddedTo(m, s, K, q) ==
  /\ q \in SecretMaps /\ DOMAIN q = (DOMAIN m \ K) \cup {s} /\ q[s] = "live"
  /\ \A x \in DOMAIN m \ K : x # s => q[x] = m[x]

(* The record has the new secret, and the others as they were. *)
LEMMA SecretAdded ==
  ASSUME NEW m \in SecretMaps, NEW s \in 1..MaxSecrets, NEW K
  PROVE  AddedTo(m, s, K, With(Without(m, K), s, "live"))
<1> DEFINE V == {"live", "revoked", "redeemed"}
           w == Without(m, K)
<1>1. LeftOut(1..MaxSecrets, V, m, K, w)
  BY WithoutMap DEF SecretMaps
<1>2. w \in PartialMaps(1..MaxSecrets, V) /\ DOMAIN w = DOMAIN m \ K /\ \A x \in DOMAIN m \ K : w[x] = m[x]
  BY <1>1 DEF LeftOut
<1> HIDE DEF w
<1>3. SetIn(1..MaxSecrets, V, w, s, "live", With(w, s, "live"))
  BY <1>2, WithMap
<1>4. /\ With(w, s, "live") \in PartialMaps(1..MaxSecrets, V) /\ DOMAIN With(w, s, "live") = DOMAIN w \cup {s}
      /\ With(w, s, "live")[s] = "live"
      /\ \A x \in DOMAIN w : x # s => With(w, s, "live")[x] = w[x]
  BY <1>3 DEF SetIn
<1> QED BY <1>2, <1>4 DEF SecretMaps, w, AddedTo

(* A secret is made and its record committed, or not. *)
LEMMA SecretMade ==
  ASSUME AccountsInv, running, NEW id \in DOMAIN index.accts, NEW kind, NEW acc \in AccountSet,
         SecretsFrom(acc, index.accts[id], kind, made.secret + 1), SameNames(acc, index.accts[id]),
         acc.op = index.accts[id].op, acc.active = index.accts[id].active,
         MakeSecret(id, acc), expired' = expired, logins' \subseteq logins,
         spent' \in [1..MaxSecrets -> {0, 1}],
         \A s \in 1..MaxSecrets : spent'[s] = 1 =>
           \/ spent[s] = 1
           \/ /\ s <= made.secret
              /\ \A x \in {topic', index'}, k \in SecretKinds, i \in 1..MaxAccounts : ~SecretLive(x, k, i, s)
  PROVE  AccountsInv'
<1> DEFINE T == {topic, Put(topic, id, acc)}
           I == {index, Put(index, id, acc)}
           new == made.secret + 1
<1>1. made \in [account : 0..MaxAccounts, secret : 0..MaxSecrets, char : 0..MaxChars]
      /\ made.account \in 0..MaxAccounts /\ made.secret \in Nat /\ MaxSecrets \in Nat
      /\ (agreed => index = topic /\ Put(topic, id, acc) = Put(index, id, acc))
      /\ issued \subseteq 1..MaxSecrets
  BY AccountsAssumption DEF AccountsInv, AccountTypes, IndexShape
<1>2. made.secret < MaxSecrets /\ made' = [made EXCEPT !["secret"] = @ + 1]
  BY DEF MakeSecret, Make
<1>3. WriteEnds(T, I) /\ issued' \subseteq issued \cup {new}
  <2>1. CASE Commit(id, acc) /\ issued' = issued \cup {made.secret + 1}
    <3>1. WriteEnds({Put(topic, id, acc)}, {Put(index, id, acc)})
      BY <1>1, <2>1, DoneEnds DEF Commit
    <3>2. {Put(topic, id, acc)} \subseteq T /\ {Put(index, id, acc)} \subseteq I
      OBVIOUS
    <3> QED BY <2>1, <3>1, <3>2, EndsMore
  <2>2. CASE CommitFails(id, acc) /\ issued' = issued
    <3>1. WriteEnds({topic, Put(topic, id, acc)}, {index})
      BY <1>1, <2>2, FailEnds DEF CommitFails
    <3>2. {topic, Put(topic, id, acc)} \subseteq T /\ {index} \subseteq I
      OBVIOUS
    <3> QED BY <2>2, <3>1, <3>2, EndsMore
  <2> QED BY <2>1, <2>2 DEF MakeSecret
<1>4. /\ \A t \in T : MayBeTopic(t, made.account, id, kind, new)
      /\ \A i \in I : MayBeIndex(i, made.account, id, kind, new)
  <2>1. made.account \in Nat /\ made.account >= made.account
    BY <1>1, AccountsAssumption
  <2>2. MayBeTopic(topic, made.account, id, kind, new) /\ MayBeIndex(index, made.account, id, kind, new)
    BY <2>1, StaysAsIs
  <2>3. MayBeTopic(Put(topic, id, acc), made.account, id, kind, new)
        /\ MayBeIndex(Put(index, id, acc), made.account, id, kind, new)
    BY Rewritten
  <2> QED BY <2>2, <2>3
<1>5. made'.secret = new /\ made'.account = made.account /\ new \in 1..MaxSecrets
      /\ made' \in [account : 0..MaxAccounts, secret : 0..MaxSecrets, char : 0..MaxChars]
  BY <1>1, <1>2
<1>6. SecretsMove(new) /\ issued' \subseteq 1..MaxSecrets
  BY <1>1, <1>3, <1>5 DEF SecretsMove
<1> HIDE DEF T, I, new
<1> QED BY <1>1, <1>3, <1>4, <1>5, <1>6, AccountsWritten

(* issue, of an Account's record. *)
LEMMA IssuedIs ==
  ASSUME AccountsInv, NEW acc \in AccountSet, NEW s \in 1..MaxSecrets
  PROVE  LET b == Issued(acc, s)
         IN /\ b \in AccountSet /\ b.invites = acc.invites /\ b.user = acc.user /\ b.chars = acc.chars
            /\ b.op = acc.op /\ b.active = acc.active
            /\ DOMAIN b.toks = (DOMAIN acc.toks \ expired) \cup {s} /\ b.toks[s] = "live"
            /\ \A x \in DOMAIN acc.toks \ expired : x # s => b.toks[x] = acc.toks[x]
<1> DEFINE m == With(Without(acc.toks, expired), s, "live")
<1>1. acc.toks \in SecretMaps
  BY AccountIs
<1>2. /\ m \in SecretMaps /\ DOMAIN m = (DOMAIN acc.toks \ expired) \cup {s} /\ m[s] = "live"
      /\ \A x \in DOMAIN acc.toks \ expired : x # s => m[x] = acc.toks[x]
  <2>1. AddedTo(acc.toks, s, expired, m)
    BY <1>1, SecretAdded
  <2> QED BY <2>1 DEF AddedTo
<1>3. Issued(acc, s) = [acc EXCEPT !.toks = m]
  BY DEF Issued
<1> HIDE DEF m
<1> QED BY <1>2, <1>3, OtherTokens

(* Authenticate, inside the lock. *)
LEMMA AccountsAuthenticate ==
  ASSUME AccountsInv, NEW id, Authenticate(id)
  PROVE  AccountsInv'
<1>1. running /\ id \in logins /\ logins' = logins \ {id} /\ expired' = expired /\ spent' = spent
  BY DEF Authenticate
<1>2. id \in Ids /\ spent \in [1..MaxSecrets -> {0, 1}] /\ made.secret \in Nat /\ MaxSecrets \in Nat
  BY <1>1, AccountsAssumption DEF AccountsInv, AccountTypes, IndexShape, Ids
<1>3. Acc(id) = index.accts[id] /\ Acc(id) \in AccountSet /\ id \in DOMAIN index.accts
  BY <1>2, IndexedIs
<1>4. CASE MakeSecret(id, Issued(Acc(id), made.secret + 1))
  <2>1. made.secret + 1 \in 1..MaxSecrets
    BY <1>2, <1>4 DEF MakeSecret
  <2> DEFINE b == Issued(Acc(id), made.secret + 1)
  <2>2. /\ b \in AccountSet /\ b.invites = Acc(id).invites /\ b.user = Acc(id).user /\ b.chars = Acc(id).chars
        /\ b.op = Acc(id).op /\ b.active = Acc(id).active
        /\ DOMAIN b.toks = (DOMAIN Acc(id).toks \ expired) \cup {made.secret + 1}
        /\ \A x \in DOMAIN Acc(id).toks \ expired : x # made.secret + 1 => b.toks[x] = Acc(id).toks[x]
    BY <1>3, <2>1, IssuedIs
  <2> HIDE DEF b
  <2>3. SecretsFrom(b, Acc(id), "token", made.secret + 1) /\ SameNames(b, Acc(id))
    BY <1>3, <2>2, TokensFrom
  <2>4. MakeSecret(id, b)
    BY <1>4 DEF b
  <2>5. logins' \subseteq logins /\ spent' \in [1..MaxSecrets -> {0, 1}]
        /\ \A s \in 1..MaxSecrets : spent'[s] = 1 => spent[s] = 1
    BY <1>1, <1>2
  <2> QED BY <1>1, <1>3, <2>2, <2>3, <2>4, <2>5, SecretMade
<1>5. CASE UNCHANGED <<topic, index, running, made, issued, writes, appendFaults, agreed, governed>>
  <2>1. AccountTypes'
    BY <1>1, <1>5 DEF AccountsInv, AccountTypes
  <2>2. SecretShape' /\ IndexShape'
    BY <1>1, <1>5 DEF AccountsInv, SecretShape, IndexShape
  <2> QED BY <2>1, <2>2 DEF AccountsInv
<1> QED BY <1>4, <1>5 DEF Authenticate

(* A secret taken from the one record that holds it is nowhere live. *)
LEMMA TakenIsDead ==
  ASSUME AccountsInv, NEW id \in DOMAIN index.accts, NEW kind \in SecretKinds, NEW s \in 1..MaxSecrets,
         SecretHeld(index, kind, id, s), NEW new, new # s, NEW put, NEW acc \in AccountSet,
         SecretsFrom(acc, index.accts[id], put, new),
         s \in DOMAIN SecretsOf(acc, kind) => SecretsOf(acc, kind)[s] # "live",
         NEW x \in {topic, index}, NEW k \in SecretKinds, NEW i \in 1..MaxAccounts
  PROVE  ~SecretLive(Put(x, id, acc), k, i, s)
<1>1. x \in StoreSet /\ id \in 1..MaxAccounts
  BY StoreIs DEF AccountsInv, AccountTypes
<1> DEFINE p == Put(x, id, acc)
<1>2. /\ DOMAIN p.accts = DOMAIN x.accts \cup {id} /\ p.accts[id] = acc
      /\ \A j \in DOMAIN x.accts : j # id => p.accts[j] = x.accts[j]
  BY <1>1, PutStore
<1> HIDE DEF p
<1>3. \A q \in SecretKinds, j \in 1..MaxAccounts, y \in {topic, index} :
        SecretHeld(y, q, j, s) => q = kind /\ j = id
  BY <1>1 DEF AccountsInv, SecretShape
<1>4. CASE i # id
  <2>1. SecretHeld(p, k, i, s) => SecretHeld(x, k, i, s)
    BY <1>2, <1>4 DEF SecretHeld
  <2>2. ~SecretLive(p, k, i, s)
    BY <1>3, <1>4, <2>1 DEF SecretLive
  <2> QED BY <2>2 DEF p
<1>5. CASE i = id /\ k = kind
  <2>1. ~SecretLive(p, k, i, s)
    BY <1>2, <1>5 DEF SecretLive, SecretHeld
  <2> QED BY <2>1 DEF p
<1>6. CASE i = id /\ k # kind
  <2>1. s \in DOMAIN SecretsOf(acc, k) => s \in DOMAIN SecretsOf(index.accts[id], k)
    BY DEF SecretsFrom
  <2>2. s \in DOMAIN SecretsOf(index.accts[id], k) => SecretHeld(index, k, id, s)
    BY DEF SecretHeld
  <2>3. SecretHeld(p, k, i, s) => s \in DOMAIN SecretsOf(acc, k)
    BY <1>2, <1>6 DEF SecretHeld
  <2>4. ~SecretLive(p, k, i, s)
    BY <1>1, <1>3, <1>6, <2>1, <2>2, <2>3 DEF SecretLive
  <2> QED BY <2>4 DEF p
<1> QED BY <1>4, <1>5, <1>6

(* A secret that is live has not been honoured. *)
LEMMA LiveIsUnspent ==
  ASSUME AccountsInv, NEW kind \in SecretKinds, NEW id \in 1..MaxAccounts, NEW s \in 1..MaxSecrets,
         SecretLive(index, kind, id, s)
  PROVE  spent[s] = 0 /\ s <= made.secret /\ [spent EXCEPT ![s] = @ + 1] \in [1..MaxSecrets -> {0, 1}]
<1>1. spent \in [1..MaxSecrets -> {0, 1}] /\ spent[s] # 1
  BY DEF AccountsInv, AccountTypes, SecretShape
<1>2. spent[s] = 0
  BY <1>1
<1>3. SecretHeld(index, kind, id, s)
  BY DEF SecretLive
<1>4. s <= made.secret
  BY <1>3 DEF AccountsInv, SecretShape
<1> QED BY <1>1, <1>2, <1>4

(* Refresh: the token is revoked and its successor added in one record. *)
LEMMA AccountsRefresh ==
  ASSUME AccountsInv, NEW s \in 1..MaxSecrets, Refresh(s)
  PROVE  AccountsInv'
<1>1. PICK id \in SecretHolders(s) :
        /\ s \in DOMAIN Acc(id).toks /\ Acc(id).toks[s] = "live" /\ Acc(id).active
        /\ MakeSecret(id, Rotated(Acc(id), s))
  BY DEF Refresh
<1>2. running /\ expired' = expired /\ logins' = logins
      /\ spent' = IF issued' = issued THEN spent ELSE [spent EXCEPT ![s] = @ + 1]
  BY DEF Refresh
<1>3. id \in Ids /\ spent \in [1..MaxSecrets -> {0, 1}] /\ made.secret \in Nat /\ MaxSecrets \in Nat
  BY <1>1, AccountsAssumption DEF AccountsInv, AccountTypes, SecretHolders
<1>4. Acc(id) = index.accts[id] /\ Acc(id) \in AccountSet /\ id \in DOMAIN index.accts /\ id \in 1..MaxAccounts
  BY <1>3, IndexedIs
<1>5. SecretHeld(index, "token", id, s) /\ SecretLive(index, "token", id, s) /\ "token" \in SecretKinds
  BY <1>1, <1>4 DEF SecretHeld, SecretLive, SecretsOf, SecretKinds
<1>6. spent[s] = 0 /\ s <= made.secret /\ [spent EXCEPT ![s] = @ + 1] \in [1..MaxSecrets -> {0, 1}]
  BY <1>4, <1>5, LiveIsUnspent
<1>7. made.secret + 1 \in 1..MaxSecrets /\ made.secret + 1 # s
  BY <1>1, <1>3, <1>6 DEF MakeSecret
<1> DEFINE old == Acc(id)
           r == [old EXCEPT !.toks = [old.toks EXCEPT ![s] = "revoked"]]
           b == Issued(r, made.secret + 1)
<1>8. /\ r \in AccountSet /\ r.invites = old.invites /\ r.user = old.user /\ r.chars = old.chars
      /\ r.op = old.op /\ r.active = old.active /\ DOMAIN r.toks = DOMAIN old.toks
      /\ r.toks[s] = "revoked" /\ \A x \in DOMAIN old.toks : x # s => r.toks[x] = old.toks[x]
  <2> DEFINE m == [old.toks EXCEPT ![s] = "revoked"]
  <2>1. old.toks \in SecretMaps
    BY <1>4, AccountIs
  <2>2. /\ m \in SecretMaps /\ DOMAIN m = DOMAIN old.toks /\ m[s] = "revoked"
        /\ \A x \in DOMAIN old.toks : x # s => m[x] = old.toks[x]
    BY <1>1, <2>1, SecretSet
  <2>3. r = [old EXCEPT !.toks = m]
    OBVIOUS
  <2> HIDE DEF m, r
  <2> QED BY <1>4, <2>2, <2>3, OtherTokens
<1>9. Rotated(Acc(id), s) = b
  BY DEF Rotated
<1> HIDE DEF r
<1>10. /\ b \in AccountSet /\ b.invites = r.invites /\ b.user = r.user /\ b.chars = r.chars
       /\ b.op = r.op /\ b.active = r.active
       /\ DOMAIN b.toks = (DOMAIN r.toks \ expired) \cup {made.secret + 1}
       /\ \A x \in DOMAIN r.toks \ expired : x # made.secret + 1 => b.toks[x] = r.toks[x]
  BY <1>7, <1>8, IssuedIs
<1> HIDE DEF b, old
<1>11. SecretsFrom(b, old, "token", made.secret + 1) /\ SameNames(b, old)
  <2>1. old \in AccountSet
    BY <1>4 DEF old
  <2>2. \A x \in DOMAIN b.toks :
          /\ x \in DOMAIN old.toks \/ x = made.secret + 1
          /\ b.toks[x] = "live" => (x \in DOMAIN old.toks /\ old.toks[x] = "live") \/ x = made.secret + 1
    BY <1>8, <1>10
  <2> QED BY <1>8, <1>10, <2>1, <2>2, TokensFrom
<1>12. old = index.accts[id] /\ MakeSecret(id, b) /\ b.op = old.op /\ b.active = old.active
  BY <1>1, <1>4, <1>8, <1>9, <1>10 DEF old
<1>13. ASSUME issued' # issued
       PROVE  \A x \in {topic', index'}, k \in SecretKinds, i \in 1..MaxAccounts : ~SecretLive(x, k, i, s)
  <2>1. Commit(id, b)
    BY <1>12, <1>13 DEF MakeSecret
  <2>2. topic' = Put(topic, id, b) /\ index' = Put(index, id, b)
    BY <2>1 DEF Commit, Done
  <2>3. s \in DOMAIN SecretsOf(b, "token") => SecretsOf(b, "token")[s] # "live"
    BY <1>7, <1>8, <1>10 DEF SecretsOf
  <2>4. \A x \in {topic, index}, k \in SecretKinds, i \in 1..MaxAccounts : ~SecretLive(Put(x, id, b), k, i, s)
    BY <1>4, <1>5, <1>7, <1>10, <1>11, <1>12, <2>3, TakenIsDead
  <2> QED BY <2>2, <2>4
<1>14. /\ spent' \in [1..MaxSecrets -> {0, 1}]
       /\ \A q \in 1..MaxSecrets : spent'[q] = 1 =>
            \/ spent[q] = 1
            \/ /\ q <= made.secret
               /\ \A x \in {topic', index'}, k \in SecretKinds, i \in 1..MaxAccounts : ~SecretLive(x, k, i, q)
  <2>1. CASE issued' = issued
    BY <1>2, <1>3, <2>1
  <2>2. CASE issued' # issued
    <3>1. spent' = [spent EXCEPT ![s] = @ + 1]
      BY <1>2, <2>2
    <3>2. \A q \in 1..MaxSecrets : q # s => spent'[q] = spent[q]
      BY <1>3, <3>1
    <3> QED BY <1>6, <1>13, <2>2, <3>1, <3>2
  <2> QED BY <2>1, <2>2
<1>15. logins' \subseteq logins
  BY <1>2
<1> QED BY <1>2, <1>4, <1>10, <1>11, <1>12, <1>14, <1>15, SecretMade

(* IssueInvite. *)
LEMMA AccountsIssueInvite ==
  ASSUME AccountsInv, NEW id, IssueInvite(id)
  PROVE  AccountsInv'
<1> DEFINE stale == {s \in DOMAIN Acc(id).invites \cap expired : Acc(id).invites[s] # "redeemed"}
           m == With(Without(Acc(id).invites, stale), made.secret + 1, "live")
           b == [Acc(id) EXCEPT !.invites = m]
<1>1. running /\ id \in Ids /\ expired' = expired /\ spent' = spent /\ logins' = logins
      /\ MakeSecret(id, b)
  BY DEF IssueInvite, ActiveOperators, Ids
<1>2. spent \in [1..MaxSecrets -> {0, 1}] /\ made.secret \in Nat /\ MaxSecrets \in Nat
  BY AccountsAssumption DEF AccountsInv, AccountTypes
<1>3. Acc(id) = index.accts[id] /\ Acc(id) \in AccountSet /\ id \in DOMAIN index.accts
  BY <1>1, IndexedIs
<1>4. made.secret + 1 \in 1..MaxSecrets
  BY <1>1, <1>2 DEF MakeSecret
<1>5. Acc(id).invites \in SecretMaps
  BY <1>3, AccountIs
<1> HIDE DEF stale
<1>6. /\ m \in SecretMaps /\ DOMAIN m = (DOMAIN Acc(id).invites \ stale) \cup {made.secret + 1}
      /\ \A x \in DOMAIN Acc(id).invites \ stale : x # made.secret + 1 => m[x] = Acc(id).invites[x]
  <2>1. AddedTo(Acc(id).invites, made.secret + 1, stale, m)
    BY <1>4, <1>5, SecretAdded
  <2> QED BY <2>1 DEF AddedTo
<1> HIDE DEF m
<1>7. /\ b \in AccountSet /\ b.invites = m /\ b.toks = Acc(id).toks /\ b.user = Acc(id).user
      /\ b.chars = Acc(id).chars /\ b.op = Acc(id).op /\ b.active = Acc(id).active
  BY <1>3, <1>6, OtherInvites
<1> HIDE DEF b
<1>8. SecretsFrom(b, Acc(id), "invite", made.secret + 1) /\ SameNames(b, Acc(id))
  <2>1. \A s \in DOMAIN b.invites :
          /\ s \in DOMAIN Acc(id).invites \/ s = made.secret + 1
          /\ b.invites[s] = "live" =>
               (s \in DOMAIN Acc(id).invites /\ Acc(id).invites[s] = "live") \/ s = made.secret + 1
    BY <1>6, <1>7
  <2> QED BY <1>3, <1>7, <2>1, InvitesFrom
<1>9. logins' \subseteq logins /\ spent' \in [1..MaxSecrets -> {0, 1}]
      /\ \A s \in 1..MaxSecrets : spent'[s] = 1 => spent[s] = 1
  BY <1>1, <1>2
<1> QED BY <1>1, <1>3, <1>7, <1>8, <1>9, SecretMade

(* Revoke, of a token or of all. *)
LEMMA AccountsRevoke ==
  ASSUME AccountsInv, NEW s \in 1..MaxSecrets, NEW all \in BOOLEAN, Revoke(s, all)
  PROVE  AccountsInv'
<1>1. PICK id \in SecretHolders(s) :
        /\ s \in DOMAIN Acc(id).toks
        /\ WriteAccount(id, [Acc(id) EXCEPT !.toks = IF all THEN RevokeAll(Acc(id).toks)
                                                     ELSE [Acc(id).toks EXCEPT ![s] = "revoked"]])
  BY DEF Revoke
<1>2. running /\ UNCHANGED <<made, issued, expired, spent, logins>> /\ id \in Ids
  BY <1>1 DEF Revoke, SecretHolders
<1>3. Acc(id) = index.accts[id] /\ Acc(id) \in AccountSet /\ id \in DOMAIN index.accts
  BY <1>2, IndexedIs
<1> DEFINE m == IF all THEN RevokeAll(Acc(id).toks) ELSE [Acc(id).toks EXCEPT ![s] = "revoked"]
           b == [Acc(id) EXCEPT !.toks = m]
<1>4. m \in SecretMaps /\ DOMAIN m = DOMAIN Acc(id).toks
      /\ \A x \in DOMAIN m : m[x] = "live" => Acc(id).toks[x] = "live"
  <2>1. Acc(id).toks \in SecretMaps
    BY <1>3, AccountIs
  <2>2. CASE all
    <3>1. /\ RevokeAll(Acc(id).toks) \in SecretMaps /\ DOMAIN RevokeAll(Acc(id).toks) = DOMAIN Acc(id).toks
          /\ \A x \in DOMAIN Acc(id).toks : RevokeAll(Acc(id).toks)[x] = "revoked"
      BY <2>1, RevokedMap
    <3> QED BY <2>2, <3>1
  <2>3. CASE ~all
    <3> DEFINE q == [Acc(id).toks EXCEPT ![s] = "revoked"]
    <3>1. /\ q \in SecretMaps /\ DOMAIN q = DOMAIN Acc(id).toks /\ q[s] = "revoked"
          /\ \A x \in DOMAIN Acc(id).toks : x # s => q[x] = Acc(id).toks[x]
      BY <1>1, <2>1, SecretSet
    <3>2. m = q
      BY <2>3
    <3> HIDE DEF q, m
    <3> QED BY <3>1, <3>2
  <2> QED BY <2>2, <2>3
<1>5. WriteAccount(id, b)
  BY <1>1
<1> HIDE DEF m
<1>6. /\ b \in AccountSet /\ b.toks = m /\ b.invites = Acc(id).invites /\ b.user = Acc(id).user
      /\ b.chars = Acc(id).chars /\ b.op = Acc(id).op /\ b.active = Acc(id).active
  BY <1>3, <1>4, OtherTokens
<1> HIDE DEF b
<1>7. SecretsFrom(b, Acc(id), "token", 0) /\ SameNames(b, Acc(id))
  BY <1>3, <1>4, <1>6, TokensFrom
<1> QED BY <1>2, <1>3, <1>5, <1>6, <1>7, AccountRewritten

(* ResetPassword. *)
LEMMA AccountsResetPassword ==
  ASSUME AccountsInv, NEW id, ResetPassword(id)
  PROVE  AccountsInv'
<1> DEFINE m == RevokeAll(Acc(id).toks)
           b == [Acc(id) EXCEPT !.toks = m]
<1>1. running /\ UNCHANGED <<made, issued, expired, spent, logins>> /\ id \in Ids /\ WriteAccount(id, b)
  BY DEF ResetPassword
<1>2. Acc(id) = index.accts[id] /\ Acc(id) \in AccountSet /\ id \in DOMAIN index.accts
  BY <1>1, IndexedIs
<1>3. m \in SecretMaps /\ DOMAIN m = DOMAIN Acc(id).toks /\ \A x \in DOMAIN Acc(id).toks : m[x] = "revoked"
  BY <1>2, AccountIs, RevokedMap
<1> HIDE DEF m
<1>4. /\ b \in AccountSet /\ b.toks = m /\ b.invites = Acc(id).invites /\ b.user = Acc(id).user
      /\ b.chars = Acc(id).chars /\ b.op = Acc(id).op /\ b.active = Acc(id).active
  BY <1>2, <1>3, OtherTokens
<1> HIDE DEF b
<1>5. SecretsFrom(b, Acc(id), "token", 0) /\ SameNames(b, Acc(id))
  BY <1>2, <1>3, <1>4, TokensFrom
<1> QED BY <1>1, <1>2, <1>4, <1>5, AccountRewritten

(* SetRoles: not of the last active operator. *)
LEMMA AccountsSetRoles ==
  ASSUME AccountsInv, NEW id, NEW op \in BOOLEAN, SetRoles(id, op)
  PROVE  AccountsInv'
<1> DEFINE b == [Acc(id) EXCEPT !.op = op]
<1>1. running /\ UNCHANGED <<made, issued, expired, spent, logins>> /\ id \in Ids /\ WriteAccount(id, b)
      /\ (op \/ ActiveOperators(index) # {id})
  BY DEF SetRoles, LastOperator
<1>2. Acc(id) = index.accts[id] /\ Acc(id) \in AccountSet /\ id \in DOMAIN index.accts
  BY <1>1, IndexedIs
<1>3. /\ b \in AccountSet /\ b.toks = Acc(id).toks /\ b.invites = Acc(id).invites /\ b.user = Acc(id).user
      /\ b.chars = Acc(id).chars /\ b.op = op /\ b.active = Acc(id).active
  BY <1>2 DEF AccountSet
<1> HIDE DEF b
<1>4. SecretsFrom(b, Acc(id), "token", 0) /\ SameNames(b, Acc(id))
  BY <1>2, <1>3, TokensFrom
<1>5. \/ index.accts[id].op /\ index.accts[id].active => b.op /\ b.active
      \/ ActiveOperators(index) # {id}
  BY <1>1, <1>2, <1>3
<1> QED BY <1>1, <1>2, <1>3, <1>4, <1>5, AccountRewritten

(* SetAccountStatus: the last active operator stays. *)
LEMMA AccountsSetStatus ==
  ASSUME AccountsInv, NEW id, NEW active \in BOOLEAN, SetAccountStatus(id, active)
  PROVE  AccountsInv'
<1> DEFINE m == IF active THEN Acc(id).toks ELSE RevokeAll(Acc(id).toks)
           b == [Acc(id) EXCEPT !.active = active, !.toks = m]
<1>1. running /\ UNCHANGED <<made, issued, expired, spent, logins>> /\ id \in Ids /\ WriteAccount(id, b)
      /\ (active \/ ActiveOperators(index) # {id})
  BY DEF SetAccountStatus, LastOperator
<1>2. Acc(id) = index.accts[id] /\ Acc(id) \in AccountSet /\ id \in DOMAIN index.accts
  BY <1>1, IndexedIs
<1>3. m \in SecretMaps /\ DOMAIN m = DOMAIN Acc(id).toks
      /\ \A x \in DOMAIN Acc(id).toks : m[x] \in {Acc(id).toks[x], "revoked"}
  <2>1. Acc(id).toks \in SecretMaps
    BY <1>2, AccountIs
  <2>2. /\ RevokeAll(Acc(id).toks) \in SecretMaps /\ DOMAIN RevokeAll(Acc(id).toks) = DOMAIN Acc(id).toks
        /\ \A x \in DOMAIN Acc(id).toks : RevokeAll(Acc(id).toks)[x] = "revoked"
    BY <2>1, RevokedMap
  <2> QED BY <2>1, <2>2
<1> HIDE DEF m
<1>4. /\ b \in AccountSet /\ b.toks = m /\ b.invites = Acc(id).invites /\ b.user = Acc(id).user
      /\ b.chars = Acc(id).chars /\ b.op = Acc(id).op /\ b.active = active
  BY <1>2, <1>3 DEF AccountSet
<1> HIDE DEF b
<1>5. SecretsFrom(b, Acc(id), "token", 0) /\ SameNames(b, Acc(id))
  BY <1>2, <1>3, <1>4, TokensFrom
<1>6. \/ index.accts[id].op /\ index.accts[id].active => b.op /\ b.active
      \/ ActiveOperators(index) # {id}
  BY <1>1, <1>2, <1>4
<1> QED BY <1>1, <1>2, <1>4, <1>5, <1>6, AccountRewritten

(* RevokeInvite. *)
LEMMA AccountsRevokeInvite ==
  ASSUME AccountsInv, NEW s \in 1..MaxSecrets, RevokeInvite(s)
  PROVE  AccountsInv'
<1>1. PICK id \in SecretHolders(s) :
        /\ s \in DOMAIN Acc(id).invites
        /\ WriteAccount(id, [Acc(id) EXCEPT !.invites = [Acc(id).invites EXCEPT ![s] = "revoked"]])
  BY DEF RevokeInvite
<1>2. running /\ UNCHANGED <<made, issued, expired, spent, logins>> /\ id \in Ids
  BY <1>1 DEF RevokeInvite, SecretHolders
<1>3. Acc(id) = index.accts[id] /\ Acc(id) \in AccountSet /\ id \in DOMAIN index.accts
  BY <1>2, IndexedIs
<1> DEFINE m == [Acc(id).invites EXCEPT ![s] = "revoked"]
           b == [Acc(id) EXCEPT !.invites = m]
<1>4. /\ m \in SecretMaps /\ DOMAIN m = DOMAIN Acc(id).invites /\ m[s] = "revoked"
      /\ \A x \in DOMAIN Acc(id).invites : x # s => m[x] = Acc(id).invites[x]
  BY <1>1, <1>3, AccountIs, SecretSet
<1>5. WriteAccount(id, b)
  BY <1>1
<1> HIDE DEF m
<1>6. /\ b \in AccountSet /\ b.invites = m /\ b.toks = Acc(id).toks /\ b.user = Acc(id).user
      /\ b.chars = Acc(id).chars /\ b.op = Acc(id).op /\ b.active = Acc(id).active
  BY <1>3, <1>4, OtherInvites
<1> HIDE DEF b
<1>7. SecretsFrom(b, Acc(id), "invite", 0) /\ SameNames(b, Acc(id))
  <2>1. \A x \in DOMAIN b.invites :
          /\ x \in DOMAIN Acc(id).invites \/ x = 0
          /\ b.invites[x] = "live" => (x \in DOMAIN Acc(id).invites /\ Acc(id).invites[x] = "live") \/ x = 0
    BY <1>4, <1>6
  <2> QED BY <1>3, <1>6, <2>1, InvitesFrom
<1>8. SecretsFrom(b, Acc(id), "token", 0)
  BY <1>7, NoneMadeFrom
<1> QED BY <1>2, <1>3, <1>5, <1>6, <1>7, <1>8, AccountRewritten

(* The record written as it is. *)
LEMMA AccountsRewrite ==
  ASSUME AccountsInv, NEW id, Rewrite(id)
  PROVE  AccountsInv'
<1>1. running /\ UNCHANGED <<made, issued, expired, spent, logins>> /\ id \in Ids /\ WriteAccount(id, Acc(id))
  BY DEF Rewrite
<1>2. Acc(id) = index.accts[id] /\ Acc(id) \in AccountSet /\ id \in DOMAIN index.accts
  BY <1>1, IndexedIs
<1>3. SecretsFrom(Acc(id), Acc(id), "token", 0) /\ SameNames(Acc(id), Acc(id))
  BY <1>2, TokensFrom
<1> QED BY <1>1, <1>2, <1>3, AccountRewritten

(* A Character's status. *)
LEMMA AccountsStatusBecomes ==
  ASSUME AccountsInv, NEW id, NEW c, NEW from, NEW to \in {"active", "deleted", "purged"},
         StatusBecomes(id, c, from, to)
  PROVE  AccountsInv'
<1> DEFINE ch == Acc(id).chars[c]
           m == [Acc(id).chars EXCEPT ![c] = [ch EXCEPT !.st = to]]
           b == [Acc(id) EXCEPT !.chars = m]
<1>1. running /\ UNCHANGED <<made, issued, expired, spent, logins>> /\ id \in Ids /\ c \in DOMAIN Acc(id).chars
      /\ WriteAccount(id, b)
  BY DEF StatusBecomes
<1>2. Acc(id) = index.accts[id] /\ Acc(id) \in AccountSet /\ id \in DOMAIN index.accts
  BY <1>1, IndexedIs
<1>3. Acc(id).chars \in CharMaps
  BY <1>2, AccountIs
<1>4. ch \in [name : Names, st : {"active", "deleted", "purged"}]
  <2> DEFINE R == [name : Names, st : {"active", "deleted", "purged"}]
  <2>1. Acc(id).chars \in PartialMaps(1..MaxChars, R)
    BY <1>3 DEF CharMaps
  <2> HIDE DEF R
  <2>2. \A x \in DOMAIN Acc(id).chars : Acc(id).chars[x] \in R
    BY <2>1, MapIs
  <2> QED BY <1>1, <2>2 DEF R
<1> DEFINE d == [ch EXCEPT !.st = to]
<1>5. d \in [name : Names, st : {"active", "deleted", "purged"}] /\ d.name = ch.name
  BY <1>4
<1>6. m = [Acc(id).chars EXCEPT ![c] = d]
  OBVIOUS
<1> HIDE DEF d, m
<1>7. /\ m \in CharMaps /\ DOMAIN m = DOMAIN Acc(id).chars /\ m[c] = d
      /\ \A x \in DOMAIN Acc(id).chars : x # c => m[x] = Acc(id).chars[x]
  <2>1. SetIn(1..MaxChars, [name : Names, st : {"active", "deleted", "purged"}], Acc(id).chars, c, d,
              [Acc(id).chars EXCEPT ![c] = d])
    BY <1>1, <1>3, <1>5, ExceptMap DEF CharMaps
  <2>2. DOMAIN Acc(id).chars \cup {c} = DOMAIN Acc(id).chars
    BY <1>1
  <2> QED BY <1>6, <2>1, <2>2 DEF SetIn, CharMaps
<1>8. /\ b \in AccountSet /\ b.toks = Acc(id).toks /\ b.invites = Acc(id).invites /\ b.user = Acc(id).user
      /\ b.chars = m /\ b.op = Acc(id).op /\ b.active = Acc(id).active
  BY <1>2, <1>7 DEF AccountSet
<1> HIDE DEF b
<1>9. SecretsFrom(b, Acc(id), "token", 0)
  BY <1>8 DEF SecretsFrom, SecretsOf
<1>10. SameNames(b, Acc(id))
  BY <1>5, <1>7, <1>8 DEF SameNames
<1> QED BY <1>1, <1>2, <1>8, <1>9, <1>10, AccountRewritten

(* A new Account's record. *)
LEMMA AccountNew ==
  ASSUME NEW user \in Usernames, NEW op \in BOOLEAN
  PROVE  LET acc == Account(user, op)
         IN /\ acc \in AccountSet /\ acc.user = user
            /\ DOMAIN acc.toks = {} /\ DOMAIN acc.invites = {} /\ DOMAIN acc.chars = {}
<1>1. <<>> \in SecretMaps /\ <<>> \in CharMaps /\ DOMAIN <<>> = {}
  BY EmptyMap DEF SecretMaps, CharMaps
<1>2. TRUE \in BOOLEAN
  OBVIOUS
<1> QED BY <1>1, <1>2 DEF Account, AccountSet

(* A new Account written, its username free. *)
LEMMA NewWritten ==
  ASSUME AccountsInv, running, NEW user \in Usernames, NEW op \in BOOLEAN, made.account < MaxAccounts,
         NEW who, NEW kind, NEW new,
         NEW t, MayBeTopic(t, made.account, who, kind, new),
         agreed => \A j \in DOMAIN t.accts : t.accts[j].user # user,
         NEW i, MayBeIndex(i, made.account, who, kind, new)
  PROVE  /\ MayBeTopic(Put(t, made.account + 1, Account(user, op)), made.account + 1, who, kind, new)
         /\ MayBeIndex(Put(i, made.account + 1, Account(user, op)), made.account + 1, who, kind, new)
<1> DEFINE acc == Account(user, op)
           id == made.account + 1
<1>1. /\ acc \in AccountSet /\ acc.user = user
      /\ DOMAIN acc.toks = {} /\ DOMAIN acc.invites = {} /\ DOMAIN acc.chars = {}
  BY AccountNew
<1>2. made.account \in Nat /\ MaxAccounts \in Nat /\ id \in 1..MaxAccounts /\ id \in 1..id
      /\ id \notin 1..made.account /\ 1..made.account \subseteq 1..id
  BY AccountsAssumption DEF AccountsInv, AccountTypes
<1>3. t \in StoreSet /\ DOMAIN t.accts \subseteq 1..made.account /\ StoreFrom(t, who, kind, new)
      /\ (agreed => NamesKept(t)) /\ (agreed /\ governed => HasOperator(t))
  BY DEF MayBeTopic
<1>4. i \in StoreSet /\ DOMAIN i.accts \subseteq 1..made.account /\ StoreFrom(i, who, kind, new)
      /\ (governed => HasOperator(i)) /\ DOMAIN index.accts \subseteq DOMAIN i.accts
  BY DEF MayBeIndex
<1> HIDE DEF acc, id
<1>5. StoreFrom(Put(t, id, acc), who, kind, new) /\ StoreFrom(Put(i, id, acc), who, kind, new)
  BY <1>1, <1>2, <1>3, <1>4, PutNewFrom
<1>6. agreed => NamesKept(Put(t, id, acc))
  BY <1>1, <1>2, <1>3, PutNewNames
<1>7. /\ governed => HasOperator(Put(i, id, acc))
      /\ agreed /\ governed => HasOperator(Put(t, id, acc))
  <2>1. ASSUME NEW x \in {t, i}, HasOperator(x)
        PROVE  HasOperator(Put(x, id, acc))
    <3>1. \E j \in DOMAIN x.accts : x.accts[j].op /\ x.accts[j].active /\ (j = id => acc.op /\ acc.active)
      BY <1>2, <1>3, <1>4, <2>1 DEF HasOperator
    <3>2. x \in StoreSet
      BY <1>3, <1>4
    <3> QED BY <1>1, <1>2, <3>1, <3>2, PutOperator
  <2> QED BY <1>3, <1>4, <2>1
<1>8. /\ Put(t, id, acc) \in StoreSet /\ DOMAIN Put(t, id, acc).accts = DOMAIN t.accts \cup {id}
      /\ Put(i, id, acc) \in StoreSet /\ DOMAIN Put(i, id, acc).accts = DOMAIN i.accts \cup {id}
  BY <1>1, <1>2, <1>3, <1>4, PutStore
<1>9. MayBeTopic(Put(t, id, acc), id, who, kind, new)
  BY <1>2, <1>3, <1>5, <1>6, <1>7, <1>8 DEF MayBeTopic
<1>10. MayBeIndex(Put(i, id, acc), id, who, kind, new)
  BY <1>2, <1>4, <1>5, <1>7, <1>8 DEF MayBeIndex
<1> QED BY <1>9, <1>10 DEF acc, id

(* What may be still may be when there are more Accounts. *)
LEMMA MayBeMore ==
  ASSUME NEW n \in Nat, NEW m \in Nat, n <= m, NEW who, NEW kind, NEW new, NEW store
  PROVE  /\ MayBeTopic(store, n, who, kind, new) => MayBeTopic(store, m, who, kind, new)
         /\ MayBeIndex(store, n, who, kind, new) => MayBeIndex(store, m, who, kind, new)
<1>1. 1..n \subseteq 1..m
  OBVIOUS
<1> QED BY <1>1 DEF MayBeTopic, MayBeIndex

(* The counters of an Account made. *)
LEMMA AccountMade ==
  ASSUME AccountsInv, made.account < MaxAccounts, Make("account")
  PROVE  /\ made' \in [account : 0..MaxAccounts, secret : 0..MaxSecrets, char : 0..MaxChars]
         /\ made'.account = made.account + 1 /\ made.account + 1 \in 0..MaxAccounts /\ made.account \in Nat
         /\ SecretsMove(0)
<1>1. made \in [account : 0..MaxAccounts, secret : 0..MaxSecrets, char : 0..MaxChars]
      /\ MaxAccounts \in Nat /\ MaxSecrets \in Nat
  BY AccountsAssumption DEF AccountsInv, AccountTypes
<1>2. made' = [made EXCEPT !["account"] = @ + 1]
  BY DEF Make
<1>3. made' \in [account : 0..MaxAccounts, secret : 0..MaxSecrets, char : 0..MaxChars]
      /\ made'.account = made.account + 1 /\ made.account + 1 \in 0..MaxAccounts /\ made.account \in Nat
      /\ made'.secret = made.secret /\ made.secret \in Nat
  BY <1>1, <1>2
<1> QED BY <1>3 DEF SecretsMove

(* An Account made and written, or not. *)
LEMMA AccountWritten ==
  ASSUME AccountsInv, running, NEW user \in Usernames, NEW op \in BOOLEAN, ~UserTaken(user),
         made.account < MaxAccounts, Make("account"), WriteAccount(made.account + 1, Account(user, op)),
         UNCHANGED <<issued, expired, spent, logins>>
  PROVE  AccountsInv'
<1> DEFINE id == made.account + 1
           acc == Account(user, op)
           T == {topic, Put(topic, id, acc)}
           I == {index, Put(index, id, acc)}
<1>1. /\ made' \in [account : 0..MaxAccounts, secret : 0..MaxSecrets, char : 0..MaxChars]
      /\ made'.account = id /\ id \in 0..MaxAccounts /\ made.account \in Nat /\ SecretsMove(0)
  BY AccountMade
<1>2. (agreed => index = topic) /\ issued \subseteq 1..MaxSecrets /\ spent \in [1..MaxSecrets -> {0, 1}]
  BY DEF AccountsInv, AccountTypes, IndexShape
<1>3. agreed => \A j \in DOMAIN topic.accts : topic.accts[j].user # user
  BY <1>2 DEF UserTaken, Ids, Acc
<1>4. MayBeTopic(topic, made.account, 0, "token", 0) /\ MayBeIndex(index, made.account, 0, "token", 0)
  BY <1>1, StaysAsIs
<1>5. MayBeTopic(topic, id, 0, "token", 0) /\ MayBeIndex(index, id, 0, "token", 0)
  BY <1>1, <1>4, MayBeMore
<1>6. MayBeTopic(Put(topic, id, acc), id, 0, "token", 0) /\ MayBeIndex(Put(index, id, acc), id, 0, "token", 0)
  BY <1>3, <1>4, NewWritten
<1>7. WriteEnds(T, I)
  <2>1. CASE Commit(id, acc)
    <3>1. WriteEnds({Put(topic, id, acc)}, {Put(index, id, acc)})
      BY <1>2, <2>1, DoneEnds DEF Commit
    <3>2. {Put(topic, id, acc)} \subseteq T /\ {Put(index, id, acc)} \subseteq I
      OBVIOUS
    <3> QED BY <3>1, <3>2, EndsMore
  <2>2. CASE CommitFails(id, acc)
    <3>1. WriteEnds({topic, Put(topic, id, acc)}, {index})
      BY <1>2, <2>2, FailEnds DEF CommitFails
    <3>2. {topic, Put(topic, id, acc)} \subseteq T /\ {index} \subseteq I
      OBVIOUS
    <3> QED BY <3>1, <3>2, EndsMore
  <2> QED BY <2>1, <2>2 DEF WriteAccount
<1>8. (\A t \in T : MayBeTopic(t, id, 0, "token", 0)) /\ (\A i \in I : MayBeIndex(i, id, 0, "token", 0))
  BY <1>5, <1>6
<1>9. issued' \subseteq 1..MaxSecrets /\ expired' = expired /\ logins' \subseteq logins
      /\ spent' \in [1..MaxSecrets -> {0, 1}] /\ spent' = spent
  BY <1>2
<1> HIDE DEF T, I, id, acc
<1> QED BY <1>1, <1>7, <1>8, <1>9, AccountsWritten

(* No Account of the store has the username. *)
UserFree(store, user) == \A j \in DOMAIN store.accts : store.accts[j].user # user

(* The usernames of a store, a record with its own written over. *)
LEMMA PutUsers ==
  ASSUME NEW store \in StoreSet, NEW id \in 1..MaxAccounts, NEW acc \in AccountSet, NEW user,
         UserFree(store, user), acc.user # user
  PROVE  UserFree(Put(store, id, acc), user)
<1> DEFINE p == Put(store, id, acc)
<1>1. /\ DOMAIN p.accts = DOMAIN store.accts \cup {id} /\ p.accts[id] = acc
      /\ \A j \in DOMAIN store.accts : j # id => p.accts[j] = store.accts[j]
  BY PutStore
<1> HIDE DEF p
<1>2. UserFree(p, user)
  BY <1>1 DEF UserFree
<1> QED BY <1>2 DEF p

(* A new Account has no live secret. *)
LEMMA PutNewLive ==
  ASSUME NEW x \in StoreSet, NEW id \in 1..MaxAccounts, NEW acc \in AccountSet,
         DOMAIN acc.toks = {}, DOMAIN acc.invites = {}, NEW k, NEW j, NEW s, ~SecretLive(x, k, j, s)
  PROVE  ~SecretLive(Put(x, id, acc), k, j, s)
<1> DEFINE p == Put(x, id, acc)
<1>1. /\ DOMAIN p.accts = DOMAIN x.accts \cup {id} /\ p.accts[id] = acc
      /\ \A q \in DOMAIN x.accts : q # id => p.accts[q] = x.accts[q]
  BY PutStore
<1> HIDE DEF p
<1>2. ~SecretLive(p, k, j, s)
  <2>1. CASE j = id
    BY <1>1, <2>1 DEF SecretLive, SecretHeld, SecretsOf
  <2>2. CASE j # id
    BY <1>1, <2>2 DEF SecretLive, SecretHeld
  <2> QED BY <2>1, <2>2
<1> QED BY <1>2 DEF p

(* Register with an invite: burned first, then the Account written. *)
LEMMA AccountsRedeem ==
  ASSUME AccountsInv, running, NEW user \in Usernames, ~UserTaken(user), made.account < MaxAccounts,
         Make("account"), UNCHANGED <<issued, expired, logins>>,
         NEW s \in 1..MaxSecrets, NEW issuer \in Ids, s \in DOMAIN Acc(issuer).invites,
         Acc(issuer).invites[s] = "live", NEW burned,
         burned = [Acc(issuer) EXCEPT !.invites = [Acc(issuer).invites EXCEPT ![s] = "redeemed"]],
         NEW t, NEW i, t = Put(topic, issuer, burned), i = Put(index, issuer, burned),
         NEW t2, NEW i2, t2 = Put(t, made.account + 1, Account(user, FALSE)),
         i2 = Put(i, made.account + 1, Account(user, FALSE)),
         \/ Done(t2, i2) /\ spent' = [spent EXCEPT ![s] = @ + 1]
         \/ (AppendFails(topic, index, t) \/ AppendFails(t, i, t2)) /\ spent' = spent
  PROVE  AccountsInv'
<1> DEFINE id == made.account + 1
           new == Account(user, FALSE)
           T == {topic, t, t2}
           I == {index, i, i2}
<1>1. /\ made' \in [account : 0..MaxAccounts, secret : 0..MaxSecrets, char : 0..MaxChars]
      /\ made'.account = id /\ id \in 0..MaxAccounts /\ made.account \in Nat /\ SecretsMove(0)
  BY AccountMade
<1>2. (agreed => index = topic) /\ issued \subseteq 1..MaxSecrets /\ spent \in [1..MaxSecrets -> {0, 1}]
      /\ topic \in StoreSet /\ index \in StoreSet
  BY DEF AccountsInv, AccountTypes, IndexShape
<1>3. Acc(issuer) = index.accts[issuer] /\ Acc(issuer) \in AccountSet /\ issuer \in DOMAIN index.accts
      /\ issuer \in 1..MaxAccounts
  BY IndexedIs
<1>4. /\ burned \in AccountSet /\ burned.toks = Acc(issuer).toks /\ burned.user = Acc(issuer).user
      /\ burned.chars = Acc(issuer).chars /\ burned.op = Acc(issuer).op /\ burned.active = Acc(issuer).active
      /\ DOMAIN burned.invites = DOMAIN Acc(issuer).invites /\ burned.invites[s] = "redeemed"
      /\ \A x \in DOMAIN Acc(issuer).invites : x # s => burned.invites[x] = Acc(issuer).invites[x]
  <2> DEFINE m == [Acc(issuer).invites EXCEPT ![s] = "redeemed"]
  <2>1. /\ m \in SecretMaps /\ DOMAIN m = DOMAIN Acc(issuer).invites /\ m[s] = "redeemed"
        /\ \A x \in DOMAIN Acc(issuer).invites : x # s => m[x] = Acc(issuer).invites[x]
    BY <1>3, AccountIs, SecretSet
  <2>2. burned = [Acc(issuer) EXCEPT !.invites = m]
    OBVIOUS
  <2> HIDE DEF m
  <2> QED BY <1>3, <2>1, <2>2, OtherInvites
<1>5. SecretsFrom(burned, Acc(issuer), "invite", 0) /\ SameNames(burned, Acc(issuer))
  <2>1. \A x \in DOMAIN burned.invites :
          /\ x \in DOMAIN Acc(issuer).invites \/ x = 0
          /\ burned.invites[x] = "live" =>
               (x \in DOMAIN Acc(issuer).invites /\ Acc(issuer).invites[x] = "live") \/ x = 0
    BY <1>4
  <2> QED BY <1>3, <1>4, <2>1, InvitesFrom
<1>6. MayBeTopic(topic, made.account, issuer, "invite", 0) /\ MayBeIndex(index, made.account, issuer, "invite", 0)
  BY <1>1, StaysAsIs
<1>7. MayBeTopic(t, made.account, issuer, "invite", 0) /\ MayBeIndex(i, made.account, issuer, "invite", 0)
  BY <1>3, <1>4, <1>5, Rewritten
<1>8. agreed => \A j \in DOMAIN t.accts : t.accts[j].user # user
  <2>1. \A j \in DOMAIN index.accts : index.accts[j].user # user
    BY DEF UserTaken, Ids, Acc
  <2>2. burned.user # user /\ (agreed => UserFree(topic, user))
    BY <1>2, <1>3, <1>4, <2>1 DEF UserFree
  <2>3. agreed => UserFree(t, user)
    BY <1>2, <1>3, <1>4, <2>2, PutUsers
  <2> QED BY <2>3 DEF UserFree
<1>9. MayBeTopic(t2, id, issuer, "invite", 0) /\ MayBeIndex(i2, id, issuer, "invite", 0)
  <2>1. FALSE \in BOOLEAN
    OBVIOUS
  <2> QED BY <1>7, <1>8, <2>1, NewWritten
<1>10. (\A x \in T : MayBeTopic(x, id, issuer, "invite", 0)) /\ (\A x \in I : MayBeIndex(x, id, issuer, "invite", 0))
  <2>1. id \in Nat /\ made.account <= id
    BY <1>1
  <2>2. MayBeTopic(topic, id, issuer, "invite", 0) /\ MayBeIndex(index, id, issuer, "invite", 0)
    BY <1>1, <1>6, <2>1, MayBeMore
  <2>3. MayBeTopic(t, id, issuer, "invite", 0) /\ MayBeIndex(i, id, issuer, "invite", 0)
    BY <1>1, <1>7, <2>1, MayBeMore
  <2> HIDE DEF id
  <2> QED BY <1>9, <2>2, <2>3
<1>11. agreed => t = i /\ t2 = i2
  BY <1>2
<1>12. WriteEnds(T, I)
  <2>1. /\ {t2} \subseteq T /\ {i2} \subseteq I /\ {topic, t} \subseteq T /\ {index} \subseteq I
        /\ {t, t2} \subseteq T /\ {i} \subseteq I
    OBVIOUS
  <2> HIDE DEF T, I
  <2>2. CASE Done(t2, i2)
    <3>1. WriteEnds({t2}, {i2})
      BY <1>11, <2>2, DoneEnds
    <3> QED BY <2>1, <3>1 DEF WriteEnds
  <2>3. CASE AppendFails(topic, index, t)
    <3>1. WriteEnds({topic, t}, {index})
      BY <1>2, <2>3, FailEnds
    <3> QED BY <2>1, <3>1 DEF WriteEnds
  <2>4. CASE AppendFails(t, i, t2)
    <3>1. WriteEnds({t, t2}, {i})
      BY <1>11, <2>4, FailEnds
    <3> QED BY <2>1, <3>1 DEF WriteEnds
  <2> QED BY <2>2, <2>3, <2>4
<1>13. SecretHeld(index, "invite", issuer, s) /\ SecretLive(index, "invite", issuer, s) /\ "invite" \in SecretKinds
  BY <1>3 DEF SecretHeld, SecretLive, SecretsOf, SecretKinds
<1>14. spent[s] = 0 /\ s <= made.secret /\ [spent EXCEPT ![s] = @ + 1] \in [1..MaxSecrets -> {0, 1}]
  BY <1>3, <1>13, LiveIsUnspent
<1>15. ASSUME Done(t2, i2)
       PROVE  \A x \in {topic', index'}, k \in SecretKinds, j \in 1..MaxAccounts : ~SecretLive(x, k, j, s)
  <2>1. s \in DOMAIN SecretsOf(burned, "invite") => SecretsOf(burned, "invite")[s] # "live"
    BY <1>4 DEF SecretsOf
  <2>2. s # 0 /\ SecretsFrom(burned, index.accts[issuer], "invite", 0)
    BY <1>3, <1>5
  <2>3. \A k \in SecretKinds, j \in 1..MaxAccounts : ~SecretLive(t, k, j, s) /\ ~SecretLive(i, k, j, s)
    BY <1>3, <1>4, <1>13, <2>1, <2>2, TakenIsDead
  <2>4. t \in StoreSet /\ i \in StoreSet /\ id \in 1..MaxAccounts
    BY <1>1, <1>7 DEF MayBeTopic, MayBeIndex
  <2>5. new \in AccountSet /\ DOMAIN new.toks = {} /\ DOMAIN new.invites = {}
    BY AccountNew
  <2>6. topic' = Put(t, id, new) /\ index' = Put(i, id, new)
    BY <1>15 DEF Done
  <2> HIDE DEF new, id
  <2>7. \A k \in SecretKinds, j \in 1..MaxAccounts :
          ~SecretLive(Put(t, id, new), k, j, s) /\ ~SecretLive(Put(i, id, new), k, j, s)
    BY <2>3, <2>4, <2>5, PutNewLive
  <2>8. \A k \in SecretKinds, j \in 1..MaxAccounts : ~SecretLive(topic', k, j, s) /\ ~SecretLive(index', k, j, s)
    BY <2>6, <2>7, Zenon
  <2> QED BY <2>8, Zenon
<1>16. /\ spent' \in [1..MaxSecrets -> {0, 1}]
       /\ \A q \in 1..MaxSecrets : spent'[q] = 1 =>
            \/ spent[q] = 1
            \/ /\ q <= made.secret
               /\ \A x \in {topic', index'}, k \in SecretKinds, j \in 1..MaxAccounts : ~SecretLive(x, k, j, q)
  <2>1. CASE spent' = spent
    BY <1>2, <2>1
  <2>2. CASE Done(t2, i2) /\ spent' = [spent EXCEPT ![s] = @ + 1]
    <3>1. \A q \in 1..MaxSecrets : q # s => spent'[q] = spent[q]
      BY <1>2, <2>2
    <3> QED BY <1>14, <1>15, <2>2, <3>1
  <2> QED BY <2>1, <2>2
<1>17. issued' \subseteq 1..MaxSecrets /\ expired' = expired /\ logins' \subseteq logins
  BY <1>2
<1> HIDE DEF T, I, id
<1> QED BY <1>1, <1>10, <1>12, <1>16, <1>17, AccountsWritten

(* A store with the Accounts of another. *)
SameAccounts(x, y) == x \in StoreSet /\ x.accts = y.accts

(* Such a store holds the same secrets and has the same operators. *)
LEMMA SameAccountsFrom ==
  ASSUME NEW x, NEW y, SameAccounts(x, y), NEW n, NEW id, NEW kind, NEW new
  PROVE  /\ StoreFrom(y, id, kind, new) => StoreFrom(x, id, kind, new)
         /\ MayBeTopic(y, n, id, kind, new) /\ (agreed => NamesKept(x)) => MayBeTopic(x, n, id, kind, new)
         /\ MayBeIndex(y, n, id, kind, new) => MayBeIndex(x, n, id, kind, new)
<1>1. StoreFrom(y, id, kind, new) => StoreFrom(x, id, kind, new)
  BY DEF StoreFrom, SameAccounts, SecretHeld, SecretLive
<1>2. HasOperator(y) => HasOperator(x)
  BY DEF SameAccounts, HasOperator
<1> QED BY <1>1, <1>2 DEF MayBeTopic, MayBeIndex, SameAccounts

(* A write of something beside the Accounts. *)
LEMMA BesideWritten ==
  ASSUME AccountsInv, running, NEW t, NEW i, SameAccounts(t, topic), SameAccounts(i, index),
         agreed => t = i, agreed => NamesKept(t),
         Done(t, i) \/ AppendFails(topic, index, t), UNCHANGED <<made, issued, expired, spent, logins>>
  PROVE  AccountsInv'
<1> DEFINE T == {topic, t}
           I == {index, i}
<1>1. made \in [account : 0..MaxAccounts, secret : 0..MaxSecrets, char : 0..MaxChars]
      /\ made.account \in 0..MaxAccounts /\ made.secret \in Nat /\ made.account \in Nat
      /\ (agreed => index = topic)
      /\ issued \subseteq 1..MaxSecrets /\ spent \in [1..MaxSecrets -> {0, 1}]
  BY AccountsAssumption DEF AccountsInv, AccountTypes, IndexShape
<1>2. WriteEnds(T, I)
  <2>1. CASE Done(t, i)
    <3>1. WriteEnds({t}, {i})
      BY <2>1, DoneEnds
    <3> QED BY <3>1 DEF WriteEnds
  <2>2. CASE AppendFails(topic, index, t)
    <3>1. WriteEnds({topic, t}, {index})
      BY <1>1, <2>2, FailEnds
    <3> QED BY <3>1 DEF WriteEnds
  <2> QED BY <2>1, <2>2
<1>3. MayBeTopic(topic, made.account, 0, "token", 0) /\ MayBeIndex(index, made.account, 0, "token", 0)
  BY <1>1, StaysAsIs
<1>4. MayBeTopic(t, made.account, 0, "token", 0) /\ MayBeIndex(i, made.account, 0, "token", 0)
  BY <1>3, SameAccountsFrom
<1>5. /\ \A x \in T : MayBeTopic(x, made.account, 0, "token", 0)
      /\ \A x \in I : MayBeIndex(x, made.account, 0, "token", 0)
  BY <1>3, <1>4
<1>6. SecretsMove(0) /\ made' = made /\ spent' = spent /\ issued' = issued
      /\ expired' = expired /\ logins' = logins
  BY <1>1 DEF SecretsMove
<1> HIDE DEF T, I
<1> QED BY <1>1, <1>2, <1>5, <1>6, AccountsWritten

(* The registration mode. *)
LEMMA AccountsSetMode ==
  ASSUME AccountsInv, NEW mode \in {"closed", "invite", "open"}, SetRegistrationMode(mode)
  PROVE  AccountsInv'
<1>1. running /\ UNCHANGED <<made, issued, expired, spent, logins>>
      /\ (Done(SetMode(topic, mode), SetMode(index, mode)) \/ AppendFails(topic, index, SetMode(topic, mode)))
  BY DEF SetRegistrationMode
<1>2. topic \in StoreSet /\ index \in StoreSet /\ (agreed => index = topic /\ NamesKept(topic))
  BY <1>1 DEF AccountsInv, AccountTypes, IndexShape
<1>3. \A x \in StoreSet : SameAccounts(SetMode(x, mode), x) /\ SetMode(x, mode).names = x.names
  BY DEF SetMode, SameAccounts, StoreSet
<1> DEFINE t == SetMode(topic, mode)
<1>4. agreed => NamesKept(t) /\ t = SetMode(index, mode)
  <2>1. t.accts = topic.accts /\ t.names = topic.names
    BY <1>2, <1>3 DEF SameAccounts
  <2>2. agreed => t = SetMode(index, mode)
    BY <1>2
  <2> HIDE DEF t
  <2> QED BY <1>2, <2>1, <2>2 DEF NamesKept
<1> QED BY <1>1, <1>2, <1>3, <1>4, BesideWritten

(* A store with other reservations. *)
LEMMA OtherNames ==
  ASSUME NEW x \in StoreSet, NEW m \in NameMaps
  PROVE  SameAccounts([x EXCEPT !.names = m], x) /\ [x EXCEPT !.names = m].names = m
  BY DEF SameAccounts, StoreSet

(* A reservation no Character is behind is removed. *)
LEMMA AccountsReclaim ==
  ASSUME AccountsInv, NEW n, Reclaim(n)
  PROVE  AccountsInv'
<1> DEFINE mt == Without(topic.names, {n})
           mi == Without(index.names, {n})
           t == [topic EXCEPT !.names = mt]
           i == [index EXCEPT !.names = mi]
<1>1. running /\ UNCHANGED <<made, issued, expired, spent, logins>> /\ n \in DeadNames
      /\ (Done(t, i) \/ AppendFails(topic, index, t))
  BY DEF Reclaim
<1>2. topic \in StoreSet /\ index \in StoreSet /\ (agreed => index = topic /\ NamesKept(topic))
  BY <1>1 DEF AccountsInv, AccountTypes, IndexShape
<1>3. /\ mt \in NameMaps /\ DOMAIN mt = DOMAIN topic.names \ {n}
      /\ \A j \in DOMAIN topic.names \ {n} : mt[j] = topic.names[j]
  <2>1. topic.names \in PartialMaps(Names, [char : Nat, account : Nat])
    BY <1>2, StoreIs DEF NameMaps
  <2>2. LeftOut(Names, [char : Nat, account : Nat], topic.names, {n}, mt)
    BY <2>1, WithoutMap
  <2> QED BY <2>2 DEF LeftOut, NameMaps
<1>4. mi \in NameMaps
  <2>1. index.names \in PartialMaps(Names, [char : Nat, account : Nat])
    BY <1>2, StoreIs DEF NameMaps
  <2>2. LeftOut(Names, [char : Nat, account : Nat], index.names, {n}, mi)
    BY <2>1, WithoutMap
  <2> QED BY <2>2 DEF LeftOut, NameMaps
<1>5. agreed => t = i
  BY <1>2
<1> HIDE DEF mt, mi
<1>6. SameAccounts(t, topic) /\ SameAccounts(i, index) /\ t.names = mt
  BY <1>2, <1>3, <1>4, OtherNames
<1> HIDE DEF t, i
<1>7. ASSUME agreed PROVE NamesKept(t)
  <2>1. index = topic /\ NamesKept(topic) /\ t.accts = topic.accts
    BY <1>2, <1>6, <1>7 DEF SameAccounts
  <2>2. ASSUME NEW a \in DOMAIN topic.accts, NEW c \in DOMAIN topic.accts[a].chars
        PROVE  topic.accts[a].chars[c].name # n
    <3> SUFFICES ASSUME topic.accts[a].chars[c].name = n PROVE FALSE
      OBVIOUS
    <3>1. topic.names[n] = [char |-> c, account |-> a]
      BY <2>1, <2>2 DEF NamesKept
    <3>2. index.names[n].account = a /\ index.names[n].char = c
      BY <2>1, <3>1
    <3>3. a \in Ids /\ c \in DOMAIN Acc(a).chars
      BY <2>1, <2>2 DEF Ids, Acc
    <3>4. index.names[n].account \notin Ids \/ index.names[n].char \notin DOMAIN Acc(index.names[n].account).chars
      BY <1>1 DEF DeadNames
    <3> QED BY <3>2, <3>3, <3>4
  <2> QED BY <1>3, <1>6, <2>1, <2>2 DEF NamesKept
<1> QED BY <1>1, <1>5, <1>6, <1>7, BesideWritten

(* A name reserved in a store that did not have it. *)
LEMMA ReserveStore ==
  ASSUME NEW x \in StoreSet, NEW name \in Names, NEW c \in Nat, NEW id \in Nat
  PROVE  /\ SameAccounts(Reserve(x, name, c, id), x)
         /\ DOMAIN Reserve(x, name, c, id).names = DOMAIN x.names \cup {name}
         /\ Reserve(x, name, c, id).names[name] = [char |-> c, account |-> id]
         /\ \A j \in DOMAIN x.names : j # name => Reserve(x, name, c, id).names[j] = x.names[j]
<1> DEFINE v == [char |-> c, account |-> id]
           m == With(x.names, name, v)
<1>1. m \in NameMaps /\ DOMAIN m = DOMAIN x.names \cup {name} /\ m[name] = v
      /\ \A j \in DOMAIN x.names : j # name => m[j] = x.names[j]
  <2>1. x.names \in PartialMaps(Names, [char : Nat, account : Nat]) /\ v \in [char : Nat, account : Nat]
    BY StoreIs DEF NameMaps
  <2> HIDE DEF v
  <2>2. SetIn(Names, [char : Nat, account : Nat], x.names, name, v, m)
    BY <2>1, WithMap
  <2> QED BY <2>2 DEF SetIn, NameMaps
<1>2. Reserve(x, name, c, id) = [x EXCEPT !.names = m]
  BY DEF Reserve
<1> HIDE DEF m
<1>3. SameAccounts(Reserve(x, name, c, id), x) /\ Reserve(x, name, c, id).names = m
  BY <1>1, <1>2, OtherNames
<1> QED BY <1>1, <1>3

(* The names kept when one is reserved, and when its Character follows. *)
LEMMA ReserveNames ==
  ASSUME NEW x \in StoreSet, NamesKept(x), NEW name \in Names, name \notin DOMAIN x.names, NEW c \in Nat,
         NEW id \in DOMAIN x.accts, id \in Nat, NEW acc \in AccountSet, acc.user = x.accts[id].user,
         DOMAIN acc.chars = DOMAIN x.accts[id].chars \cup {c}, acc.chars[c].name = name,
         \A d \in DOMAIN x.accts[id].chars : d # c => acc.chars[d] = x.accts[id].chars[d]
  PROVE  NamesKept(Reserve(x, name, c, id)) /\ NamesKept(Put(Reserve(x, name, c, id), id, acc))
<1> DEFINE r == Reserve(x, name, c, id)
           p == Put(r, id, acc)
<1>1. /\ r \in StoreSet /\ r.accts = x.accts /\ DOMAIN r.names = DOMAIN x.names \cup {name}
      /\ r.names[name] = [char |-> c, account |-> id]
      /\ \A j \in DOMAIN x.names : j # name => r.names[j] = x.names[j]
  BY ReserveStore DEF SameAccounts
<1> HIDE DEF r
<1>2. NamesKept(r)
  BY <1>1 DEF NamesKept
<1>3. /\ DOMAIN p.accts = DOMAIN r.accts \cup {id} /\ p.accts[id] = acc /\ p.names = r.names
      /\ \A j \in DOMAIN r.accts : j # id => p.accts[j] = r.accts[j]
  <2>1. id \in 1..MaxAccounts
    BY StoreIs
  <2> QED BY <1>1, <2>1, PutStore
<1> HIDE DEF p
<1>4. \A j \in DOMAIN p.accts : j \in DOMAIN x.accts /\ p.accts[j].user = x.accts[j].user
  BY <1>1, <1>3
<1>5. ASSUME NEW j \in DOMAIN p.accts, NEW d \in DOMAIN p.accts[j].chars
      PROVE  /\ p.accts[j].chars[d].name \in DOMAIN p.names
             /\ p.names[p.accts[j].chars[d].name] = [char |-> d, account |-> j]
  <2>1. CASE j = id /\ d = c
    BY <1>1, <1>3, <2>1
  <2>2. CASE j = id /\ d # c
    <3>1. d \in DOMAIN x.accts[id].chars /\ p.accts[j].chars[d] = x.accts[id].chars[d]
      BY <1>3, <1>5, <2>2
    <3> QED BY <1>1, <1>3, <2>2, <3>1 DEF NamesKept
  <2>3. CASE j # id
    <3>1. p.accts[j] = x.accts[j] /\ j \in DOMAIN x.accts
      BY <1>1, <1>3, <1>4, <2>3
    <3> QED BY <1>1, <1>3, <1>5, <3>1 DEF NamesKept
  <2> QED BY <2>1, <2>2, <2>3
<1>6. NamesKept(p)
  BY <1>4, <1>5 DEF NamesKept
<1> QED BY <1>2, <1>6 DEF r, p

(* CreateCharacter: the name is reserved, then the Character is on its Account. *)
LEMMA AccountsCreateCharacter ==
  ASSUME AccountsInv, NEW id, NEW name \in Names, CreateCharacter(id, name)
  PROVE  AccountsInv'
<1> DEFINE c == made.char + 1
           ch == [name |-> name, st |-> "active"]
           m == With(Acc(id).chars, c, ch)
           acc == [Acc(id) EXCEPT !.chars = m]
           t == Reserve(topic, name, c, id)
           i == Reserve(index, name, c, id)
           t2 == Put(t, id, acc)
           i2 == Put(i, id, acc)
<1>1. running /\ id \in Ids /\ made.char < MaxChars /\ Make("char") /\ name \notin DOMAIN index.names
      /\ UNCHANGED <<issued, expired, spent, logins>>
      /\ (Done(t2, i2) \/ AppendFails(topic, index, t) \/ AppendFails(t, i, t2))
  BY DEF CreateCharacter
<1>2. made \in [account : 0..MaxAccounts, secret : 0..MaxSecrets, char : 0..MaxChars]
      /\ MaxAccounts \in Nat /\ MaxSecrets \in Nat /\ MaxChars \in Nat
      /\ topic \in StoreSet /\ index \in StoreSet /\ (agreed => index = topic /\ NamesKept(topic))
      /\ issued \subseteq 1..MaxSecrets /\ spent \in [1..MaxSecrets -> {0, 1}]
  BY <1>1, AccountsAssumption DEF AccountsInv, AccountTypes, IndexShape
<1>3. /\ made' \in [account : 0..MaxAccounts, secret : 0..MaxSecrets, char : 0..MaxChars]
      /\ made'.account = made.account /\ made.account \in 0..MaxAccounts /\ made.account \in Nat
      /\ c \in 1..MaxChars /\ c \in Nat /\ made'.secret = made.secret /\ made.secret \in Nat
  <2>1. made' = [made EXCEPT !["char"] = @ + 1]
    BY <1>1 DEF Make
  <2> QED BY <1>1, <1>2, <2>1
<1>4. Acc(id) = index.accts[id] /\ Acc(id) \in AccountSet /\ id \in DOMAIN index.accts /\ id \in 1..MaxAccounts
      /\ id \in Nat
  BY <1>1, <1>2, IndexedIs
<1>5. agreed => t = i /\ t2 = i2
  BY <1>2
<1> HIDE DEF c
<1>6. m \in CharMaps /\ DOMAIN m = DOMAIN Acc(id).chars \cup {c} /\ m[c] = ch
      /\ \A j \in DOMAIN Acc(id).chars : j # c => m[j] = Acc(id).chars[j]
  <2>1. ch \in [name : Names, st : {"active", "deleted", "purged"}]
        /\ Acc(id).chars \in PartialMaps(1..MaxChars, [name : Names, st : {"active", "deleted", "purged"}])
    BY <1>4, AccountIs DEF CharMaps
  <2> HIDE DEF ch
  <2>2. SetIn(1..MaxChars, [name : Names, st : {"active", "deleted", "purged"}], Acc(id).chars, c, ch, m)
    BY <1>3, <2>1, WithMap
  <2> QED BY <2>2 DEF SetIn, CharMaps
<1>7. ch.name = name
  OBVIOUS
<1> HIDE DEF m, ch
<1>8. /\ acc \in AccountSet /\ acc.toks = Acc(id).toks /\ acc.invites = Acc(id).invites /\ acc.user = Acc(id).user
      /\ acc.chars = m /\ acc.op = Acc(id).op /\ acc.active = Acc(id).active
  BY <1>4, <1>6 DEF AccountSet
<1> HIDE DEF acc
<1>9. SecretsFrom(acc, Acc(id), "token", 0)
  BY <1>8 DEF SecretsFrom, SecretsOf
<1>10. SameAccounts(t, topic) /\ SameAccounts(i, index)
  BY <1>2, <1>3, <1>4, ReserveStore
<1>11. agreed => NamesKept(t) /\ NamesKept(t2)
  BY <1>1, <1>2, <1>3, <1>4, <1>6, <1>7, <1>8, ReserveNames, SMTT(40)
<1>12. MayBeTopic(topic, made.account, id, "token", 0) /\ MayBeIndex(index, made.account, id, "token", 0)
  BY <1>1, <1>3, StaysAsIs
<1> HIDE DEF t, i
<1>13. MayBeTopic(t, made.account, id, "token", 0) /\ MayBeIndex(i, made.account, id, "token", 0)
  BY <1>10, <1>11, <1>12, SameAccountsFrom
<1>14. MayBeTopic(t2, made.account, id, "token", 0) /\ MayBeIndex(i2, made.account, id, "token", 0)
  <2>1. t \in StoreSet /\ i \in StoreSet /\ StoreFrom(t, id, "token", 0) /\ StoreFrom(i, id, "token", 0)
        /\ DOMAIN t.accts \subseteq 1..made.account /\ DOMAIN i.accts \subseteq 1..made.account
        /\ (governed => HasOperator(i)) /\ (agreed /\ governed => HasOperator(t))
        /\ i.accts = index.accts /\ t.accts = topic.accts /\ DOMAIN index.accts \subseteq 1..made.account
    BY <1>10, <1>13 DEF MayBeTopic, MayBeIndex, SameAccounts
  <2>2. StoreFrom(t2, id, "token", 0) /\ StoreFrom(i2, id, "token", 0)
    BY <1>4, <1>8, <1>9, <2>1, PutFrom
  <2>3. /\ t2 \in StoreSet /\ DOMAIN t2.accts = DOMAIN t.accts \cup {id}
        /\ i2 \in StoreSet /\ DOMAIN i2.accts = DOMAIN i.accts \cup {id}
    BY <1>4, <1>8, <2>1, PutStore
  <2>4. governed => HasOperator(i2)
    <3> SUFFICES ASSUME governed PROVE HasOperator(i2)
      OBVIOUS
    <3>1. \E j \in DOMAIN i.accts : i.accts[j].op /\ i.accts[j].active /\ (j = id => acc.op /\ acc.active)
      BY <1>4, <1>8, <2>1 DEF HasOperator
    <3> QED BY <1>4, <1>8, <2>1, <3>1, PutOperator
  <2>5. agreed /\ governed => HasOperator(t2)
    BY <1>5, <2>4
  <2> HIDE DEF t2, i2
  <2> QED BY <1>4, <1>11, <2>1, <2>2, <2>3, <2>4, <2>5 DEF MayBeTopic, MayBeIndex
<1> HIDE DEF t2, i2
<1> DEFINE T == {topic, t, t2}
           I == {index, i, i2}
<1>15. WriteEnds(T, I)
  <2>1. CASE Done(t2, i2)
    <3>1. WriteEnds({t2}, {i2})
      BY <1>1, <1>5, <2>1, DoneEnds
    <3> QED BY <3>1 DEF WriteEnds
  <2>2. CASE AppendFails(topic, index, t)
    <3>1. WriteEnds({topic, t}, {index})
      BY <1>1, <1>2, <2>2, FailEnds
    <3> QED BY <3>1 DEF WriteEnds
  <2>3. CASE AppendFails(t, i, t2)
    <3>1. WriteEnds({t, t2}, {i})
      BY <1>1, <1>5, <2>3, FailEnds
    <3> QED BY <3>1 DEF WriteEnds
  <2> QED BY <1>1, <2>1, <2>2, <2>3
<1>16. /\ \A x \in T : MayBeTopic(x, made.account, id, "token", 0)
       /\ \A x \in I : MayBeIndex(x, made.account, id, "token", 0)
  BY <1>12, <1>13, <1>14
<1>17. SecretsMove(0) /\ issued' \subseteq 1..MaxSecrets /\ expired' = expired /\ logins' \subseteq logins
       /\ spent' \in [1..MaxSecrets -> {0, 1}] /\ spent' = spent
  BY <1>1, <1>2, <1>3 DEF SecretsMove
<1> HIDE DEF T, I
<1> QED BY <1>1, <1>3, <1>15, <1>16, <1>17, AccountsWritten

(* The store while the process is down, opened or not: what the topic held,  *)
(* and the operator Bootstrap may write.                                     *)
LEMMA AccountsOpened ==
  ASSUME AccountsInv, ~running, NEW t, NEW i, topic' = t, index' = i, NEW n \in 0..MaxAccounts,
         t \in StoreSet, DOMAIN t.accts \subseteq 1..n, StoreFrom(t, 0, "token", 0), agreed => NamesKept(t),
         \/ i = EmptyStore /\ ~running'
         \/ i = t /\ running' /\ (governed' => HasOperator(t)),
         governed' \in BOOLEAN, agreed /\ governed' => HasOperator(t),
         running' \in BOOLEAN, made'.account = n, made'.secret = made.secret,
         made' \in [account : 0..MaxAccounts, secret : 0..MaxSecrets, char : 0..MaxChars],
         logins' = {}, UNCHANGED <<issued, expired, spent, agreed>>,
         writes' \in 0..MaxWrites, appendFaults' \in 0..MaxAppendFaults
  PROVE  AccountsInv'
<1>1. i \in StoreSet /\ DOMAIN i.accts \subseteq 1..n /\ StoreFrom(i, 0, "token", 0)
  <2>1. StoreFrom(EmptyStore, 0, "token", 0)
    BY EmptyHoldsNone DEF StoreFrom
  <2> QED BY <2>1, EmptyHoldsNone
<1>2. AccountTypes'
  BY <1>1 DEF AccountsInv, AccountTypes
<1>3. SecretShape'
  <2>1. ASSUME NEW x \in {t, i}, NEW y \in {t, i}, NEW k \in SecretKinds, NEW other \in SecretKinds,
               NEW a \in 1..MaxAccounts, NEW b \in 1..MaxAccounts, NEW s \in 1..MaxSecrets,
               SecretHeld(x, k, a, s)
        PROVE  s <= made'.secret /\ (SecretHeld(y, other, b, s) => other = k /\ a = b)
    <3>1. /\ \E u \in {topic, index} : SecretHeld(u, k, a, s)
          /\ SecretHeld(y, other, b, s) => \E v \in {topic, index} : SecretHeld(v, other, b, s)
      BY <1>1, <2>1 DEF StoreFrom
    <3> QED BY <3>1 DEF AccountsInv, SecretShape
  <2>2. ASSUME NEW s \in 1..MaxSecrets, spent'[s] = 1
        PROVE  /\ s <= made'.secret
               /\ \A x \in {t, i}, k \in SecretKinds, j \in 1..MaxAccounts : ~SecretLive(x, k, j, s)
    <3>1. s <= made.secret
          /\ \A x \in {topic, index}, k \in SecretKinds, j \in 1..MaxAccounts : ~SecretLive(x, k, j, s)
      BY <2>2 DEF AccountsInv, SecretShape
    <3> QED BY <1>1, <3>1 DEF StoreFrom
  <2>3. {topic', index'} = {t, i}
    OBVIOUS
  <2> QED BY <2>1, <2>2, <2>3 DEF SecretShape
<1>4. IndexShape'
  <2>1. agreed' /\ governed' => HasOperator(topic')
    OBVIOUS
  <2>2. running' => (governed' => HasOperator(index'))
    OBVIOUS
  <2> QED BY <1>1, <2>1, <2>2 DEF IndexShape
<1> QED BY <1>2, <1>3, <1>4 DEF AccountsInv

(* Open: the topic replayed, then Bootstrap. *)
LEMMA AccountsOpen ==
  ASSUME AccountsInv, Open
  PROVE  AccountsInv'
<1>1. ~running /\ logins' = {} /\ UNCHANGED <<issued, expired, spent, agreed>>
  BY DEF Open
<1>2. /\ topic \in StoreSet /\ DOMAIN topic.accts \subseteq 1..made.account /\ index = EmptyStore
      /\ made \in [account : 0..MaxAccounts, secret : 0..MaxSecrets, char : 0..MaxChars]
      /\ writes \in 0..MaxWrites /\ appendFaults \in 0..MaxAppendFaults /\ (agreed => NamesKept(topic))
      /\ MaxAccounts \in Nat /\ MaxWrites \in Nat /\ MaxAppendFaults \in Nat /\ BootUser \in Usernames
      /\ governed \in BOOLEAN /\ agreed \in BOOLEAN /\ (agreed /\ governed => HasOperator(topic))
  BY <1>1, AccountsAssumption DEF AccountsInv, AccountTypes, IndexShape
<1>3. StoreFrom(topic, 0, "token", 0)
  BY DEF StoreFrom
<1>4. CASE index' = topic /\ running' = TRUE
           /\ governed' = (ActiveOperators(topic) # {} \/ (governed /\ agreed))
           /\ UNCHANGED <<topic, made, writes, appendFaults>>
  <2>1. governed' \in BOOLEAN /\ (governed' => HasOperator(topic))
    <3>1. ActiveOperators(topic) # {} => HasOperator(topic)
      BY DEF ActiveOperators, HasOperator
    <3>2. governed' \in BOOLEAN /\ (governed' => ActiveOperators(topic) # {} \/ (governed /\ agreed))
      BY <1>4, Zenon
    <3> QED BY <1>2, <3>1, <3>2
  <2>2. running' /\ running' \in BOOLEAN
    BY <1>4
  <2>3. topic' = topic /\ index' = topic /\ made' = made /\ made.account \in 0..MaxAccounts
        /\ writes' \in 0..MaxWrites /\ appendFaults' \in 0..MaxAppendFaults
    BY <1>2, <1>4
  <2> QED BY <1>1, <1>2, <1>3, <2>1, <2>2, <2>3, AccountsOpened
<1>5. CASE BootOperator
  <2> DEFINE id == made.account + 1
             acc == Account(BootUser, TRUE)
             t == Put(topic, id, acc)
  <2>1. /\ made.account < MaxAccounts /\ writes < MaxWrites /\ writes' = writes + 1
        /\ made' = [made EXCEPT !["account"] = @ + 1]
        /\ \A j \in DOMAIN topic.accts : topic.accts[j].user # BootUser
        /\ \/ /\ topic' = t /\ index' = t /\ running' = TRUE /\ governed' = TRUE
              /\ appendFaults' = appendFaults
           \/ /\ appendFaults < MaxAppendFaults /\ appendFaults' = appendFaults + 1
              /\ topic' \in {topic, t} /\ index' = index /\ running' = running /\ governed' = governed
    BY <1>5 DEF BootOperator, Writes, Make
  <2>2. /\ made' \in [account : 0..MaxAccounts, secret : 0..MaxSecrets, char : 0..MaxChars]
        /\ made'.account = id /\ id \in 0..MaxAccounts /\ made.account \in Nat /\ made'.secret = made.secret
        /\ id \in 1..MaxAccounts /\ id \in 1..id /\ id \notin 1..made.account /\ 1..made.account \subseteq 1..id
    BY <1>2, <2>1
  <2>3. writes' \in 0..MaxWrites /\ appendFaults' \in 0..MaxAppendFaults
    <3>1. writes < MaxWrites /\ writes' = writes + 1
          /\ (appendFaults' = appendFaults \/ (appendFaults < MaxAppendFaults /\ appendFaults' = appendFaults + 1))
      BY <2>1, Zenon
    <3>2. writes \in Nat /\ appendFaults \in Nat /\ appendFaults \in 0..MaxAppendFaults
      BY <1>2
    <3>3. writes' \in 0..MaxWrites
      BY <1>2, <3>1, <3>2
    <3> QED BY <1>2, <3>1, <3>2, <3>3
  <2>4. /\ acc \in AccountSet /\ acc.user = BootUser /\ acc.op /\ acc.active
        /\ DOMAIN acc.toks = {} /\ DOMAIN acc.invites = {} /\ DOMAIN acc.chars = {}
    <3>1. TRUE \in BOOLEAN
      OBVIOUS
    <3>2. /\ acc \in AccountSet /\ acc.user = BootUser
          /\ DOMAIN acc.toks = {} /\ DOMAIN acc.invites = {} /\ DOMAIN acc.chars = {}
      BY <1>2, <3>1, AccountNew
    <3>3. acc.op /\ acc.active
      BY DEF Account
    <3> QED BY <3>2, <3>3
  <2> HIDE DEF acc, id
  <2>5. /\ t \in StoreSet /\ DOMAIN t.accts = DOMAIN topic.accts \cup {id} /\ t.accts[id] = acc
    BY <1>2, <2>2, <2>4, PutStore
  <2>6. StoreFrom(t, 0, "token", 0)
    BY <1>2, <1>3, <2>2, <2>4, PutNewFrom
  <2>7. agreed => NamesKept(t)
    <3>1. id \notin DOMAIN topic.accts /\ \A j \in DOMAIN topic.accts : topic.accts[j].user # acc.user
      BY <1>2, <2>1, <2>2, <2>4
    <3> QED BY <1>2, <2>2, <2>4, <3>1, PutNewNames
  <2> HIDE DEF t
  <2>8. HasOperator(t)
    BY <2>4, <2>5 DEF HasOperator
  <2>9. DOMAIN t.accts \subseteq 1..id /\ DOMAIN topic.accts \subseteq 1..id
    BY <1>2, <2>2, <2>5
  <2>10. CASE topic' = t /\ index' = t /\ running' = TRUE /\ governed' = TRUE
    <3>1. running' /\ running' \in BOOLEAN /\ governed' \in BOOLEAN
      BY <2>10
    <3> QED BY <1>1, <2>2, <2>3, <2>5, <2>6, <2>7, <2>8, <2>9, <2>10, <3>1, AccountsOpened
  <2>11. CASE topic' \in {topic, t} /\ index' = index /\ running' = running /\ governed' = governed
    <3>1. ~running' /\ running' \in BOOLEAN /\ index' = EmptyStore /\ governed' \in BOOLEAN
          /\ (governed' => governed)
      BY <1>1, <1>2, <2>11 DEF AccountsInv, AccountTypes
    <3>2. CASE topic' = topic
      <4>1. agreed /\ governed' => HasOperator(topic)
        BY <1>2, <3>1
      <4> QED BY <1>1, <1>2, <1>3, <2>2, <2>3, <2>9, <3>1, <3>2, <4>1, AccountsOpened
    <3>3. CASE topic' = t
      BY <1>1, <2>2, <2>3, <2>5, <2>6, <2>7, <2>8, <2>9, <3>1, <3>3, AccountsOpened
    <3> QED BY <2>11, <3>2, <3>3
  <2> QED BY <2>1, <2>10, <2>11
<1> QED BY <1>4, <1>5 DEF Open

(* The process dies. *)
LEMMA AccountsDies ==
  ASSUME AccountsInv, Dies
  PROVE  AccountsInv'
<1>1. appendFaults < MaxAppendFaults /\ appendFaults' = appendFaults + 1
      /\ running' = FALSE /\ index' = EmptyStore
      /\ UNCHANGED <<topic, made, issued, expired, spent, logins, agreed, governed, writes>>
  BY DEF Dies
<1>2. AccountTypes'
  <2>1. appendFaults' \in 0..MaxAppendFaults
    BY <1>1, AccountsAssumption DEF AccountsInv, AccountTypes
  <2>2. running' \in BOOLEAN
    BY <1>1
  <2>3. EmptyStore \in StoreSet
    BY EmptyHoldsNone
  <2> QED BY <1>1, <2>1, <2>2, <2>3 DEF AccountsInv, AccountTypes
<1>3. SecretShape'
  <2>1. \A k, i, s : ~SecretHeld(index', k, i, s) /\ ~SecretLive(index', k, i, s)
    BY <1>1, EmptyHoldsNone
  <2> QED BY <1>1, <2>1 DEF AccountsInv, SecretShape
<1>4. IndexShape'
  <2>1. ~running' /\ DOMAIN index'.accts = {}
    BY <1>1, EmptyHoldsNone
  <2> QED BY <1>1, <2>1 DEF AccountsInv, IndexShape
<1> QED BY <1>2, <1>3, <1>4 DEF AccountsInv

(* A secret's time passes, and a credential is verified outside the lock. *)
LEMMA AccountsWaits ==
  ASSUME AccountsInv, \/ \E s \in 1..MaxSecrets : Expires(s)
                      \/ \E id \in 1..MaxAccounts : Verify(id)
                      \/ UNCHANGED accountVars
  PROVE  AccountsInv'
<1>1. UNCHANGED <<topic, index, running, made, issued, spent, appendFaults, agreed, governed, writes>>
  BY DEF Expires, Verify, accountVars
<1>2. expired' \subseteq 1..MaxSecrets /\ logins' \subseteq 1..MaxAccounts
      /\ (running => logins' \subseteq DOMAIN index.accts)
  <2>1. expired \subseteq 1..MaxSecrets /\ logins \subseteq 1..MaxAccounts
        /\ (running => logins \subseteq DOMAIN index.accts)
    BY DEF AccountsInv, AccountTypes, IndexShape
  <2>2. CASE \E s \in 1..MaxSecrets : Expires(s)
    BY <2>1, <2>2 DEF Expires
  <2>3. CASE \E id \in 1..MaxAccounts : Verify(id)
    BY <2>1, <2>3 DEF Verify, Ids
  <2>4. CASE UNCHANGED accountVars
    BY <2>1, <2>4 DEF accountVars
  <2> QED BY <2>2, <2>3, <2>4
<1>3. AccountTypes'
  BY <1>1, <1>2 DEF AccountsInv, AccountTypes
<1>4. SecretShape' /\ IndexShape'
  BY <1>1, <1>2 DEF AccountsInv, SecretShape, IndexShape
<1> QED BY <1>3, <1>4 DEF AccountsInv

(* Register, open or with an invite. *)
LEMMA AccountsRegister ==
  ASSUME AccountsInv, NEW user \in Usernames, NEW s \in 0..MaxSecrets, Register(user, s)
  PROVE  AccountsInv'
<1>1. running /\ ~UserTaken(user) /\ made.account < MaxAccounts /\ Make("account")
      /\ UNCHANGED <<issued, expired, logins>>
  BY DEF Register
<1>2. CASE WriteAccount(made.account + 1, Account(user, FALSE)) /\ UNCHANGED spent
  <2>1. FALSE \in BOOLEAN
    OBVIOUS
  <2> QED BY <1>1, <1>2, <2>1, AccountWritten
<1>3. CASE /\ s \in issued
           /\ \E issuer \in SecretHolders(s) :
                /\ s \in DOMAIN Acc(issuer).invites /\ Acc(issuer).invites[s] = "live"
                /\ LET burned == [Acc(issuer) EXCEPT !.invites[s] = "redeemed"]
                       t == Put(topic, issuer, burned)
                       i == Put(index, issuer, burned)
                   IN \/ /\ Done(Put(t, made.account + 1, Account(user, FALSE)),
                                 Put(i, made.account + 1, Account(user, FALSE)))
                         /\ spent' = [spent EXCEPT ![s] = @ + 1]
                      \/ /\ \/ AppendFails(topic, index, t)
                            \/ AppendFails(t, i, Put(t, made.account + 1, Account(user, FALSE)))
                         /\ UNCHANGED spent
  <2>1. s \in 1..MaxSecrets
    BY <1>3 DEF AccountsInv, AccountTypes
  <2>2. PICK issuer \in SecretHolders(s) :
                /\ s \in DOMAIN Acc(issuer).invites /\ Acc(issuer).invites[s] = "live"
                /\ LET burned == [Acc(issuer) EXCEPT !.invites = [Acc(issuer).invites EXCEPT ![s] = "redeemed"]]
                       t == Put(topic, issuer, burned)
                       i == Put(index, issuer, burned)
                   IN \/ /\ Done(Put(t, made.account + 1, Account(user, FALSE)),
                                 Put(i, made.account + 1, Account(user, FALSE)))
                         /\ spent' = [spent EXCEPT ![s] = @ + 1]
                      \/ /\ \/ AppendFails(topic, index, t)
                            \/ AppendFails(t, i, Put(t, made.account + 1, Account(user, FALSE)))
                         /\ UNCHANGED spent
    BY <1>3
  <2>3. issuer \in Ids
    BY <2>2 DEF SecretHolders
  <2>4. PICK burned : burned = [Acc(issuer) EXCEPT !.invites = [Acc(issuer).invites EXCEPT ![s] = "redeemed"]]
    OBVIOUS
  <2>5. PICK t : t = Put(topic, issuer, burned)
    OBVIOUS
  <2>6. PICK i : i = Put(index, issuer, burned)
    OBVIOUS
  <2>7. PICK t2 : t2 = Put(t, made.account + 1, Account(user, FALSE))
    OBVIOUS
  <2>8. PICK i2 : i2 = Put(i, made.account + 1, Account(user, FALSE))
    OBVIOUS
  <2>9. \/ Done(t2, i2) /\ spent' = [spent EXCEPT ![s] = @ + 1]
        \/ (AppendFails(topic, index, t) \/ AppendFails(t, i, t2)) /\ spent' = spent
    BY <2>2, <2>4, <2>5, <2>6, <2>7, <2>8
  <2> QED BY <1>1, <2>1, <2>2, <2>3, <2>4, <2>5, <2>6, <2>7, <2>8, <2>9, AccountsRedeem
<1> QED BY <1>2, <1>3 DEF Register

(* The invariant is kept by every step. *)
LEMMA AccountsStep ==
  ASSUME AccountsInv, [AccountsNext]_accountVars
  PROVE  AccountsInv'
<1>1. CASE UNCHANGED accountVars \/ Open \/ Dies
  BY <1>1, AccountsOpen, AccountsDies, AccountsWaits
<1>2. ASSUME NEW s \in 1..MaxSecrets, \/ Expires(s) \/ Refresh(s) \/ RevokeInvite(s)
                                      \/ \E all \in BOOLEAN : Revoke(s, all)
      PROVE  AccountsInv'
  BY <1>2, AccountsWaits, AccountsRefresh, AccountsRevokeInvite, AccountsRevoke
<1>3. ASSUME NEW user \in Usernames, \/ \E s \in 0..MaxSecrets : Register(user, s)
                                     \/ CreateAgentAccount(user)
                                     \/ \E op \in BOOLEAN : CreateAccount(user, op)
      PROVE  AccountsInv'
  <2>1. ASSUME NEW op \in BOOLEAN, CreateAccount(user, op) PROVE AccountsInv'
    BY <2>1, AccountWritten DEF CreateAccount
  <2>2. FALSE \in BOOLEAN
    OBVIOUS
  <2> QED BY <1>3, <2>1, <2>2, AccountsRegister DEF CreateAgentAccount
<1>4. ASSUME NEW id \in 1..MaxAccounts,
             \/ Verify(id) \/ Authenticate(id) \/ ResetPassword(id) \/ IssueInvite(id)
             \/ SetBuilderPacks(id)
             \/ \E b \in BOOLEAN : SetRoles(id, b) \/ SetAccountStatus(id, b)
      PROVE  AccountsInv'
  BY <1>4, AccountsWaits, AccountsAuthenticate, AccountsResetPassword, AccountsIssueInvite, AccountsRewrite,
     AccountsSetRoles, AccountsSetStatus DEF SetBuilderPacks
<1>5. ASSUME NEW id \in 1..MaxAccounts,
             \/ \E n \in Names : CreateCharacter(id, n)
             \/ \E c \in 1..MaxChars :
                  DeleteCharacter(id, c) \/ MarkPurged(id, c) \/ SetCharacterPosition(id, c)
      PROVE  AccountsInv'
  BY <1>5, AccountsCreateCharacter, AccountsStatusBecomes, AccountsRewrite
     DEF DeleteCharacter, MarkPurged, SetCharacterPosition
<1>6. ASSUME \/ \E mode \in {"closed", "invite", "open"} : SetRegistrationMode(mode)
             \/ \E n \in Names : Reclaim(n)
      PROVE  AccountsInv'
  BY <1>6, AccountsSetMode, AccountsReclaim
<1> QED BY <1>1, <1>2, <1>3, <1>4, <1>5, <1>6 DEF AccountsNext

-------------------------------------------------------------------------------
(* The theorems. *)

(* A step of a part is one of its own specification, and changes no other part. *)
LEMMA ServingSteps ==
  ASSUME [Next]_vars
  PROVE  /\ [BindingsNext]_bindVars /\ [HealthNext]_healthVars /\ [RosterNext]_rosterVars
         /\ [GatewayNext]_gatewayVars /\ [AccountsNext]_accountVars /\ [BootNext]_bootVars
         /\ [ConfigNext]_configVars /\ [PlayNext]_playVars /\ [StreamNext]_streamVars
BY Zenon DEF Next, vars, partVars

(* producer.go, onHealthChange: a client built since the Partition last became *)
(* writable is not closed while it stays so, whatever order the callbacks of   *)
(* its outages run in.                                                         *)
THEOREM HealthyClientStays == Spec => HealthyClientKept
<1> DEFINE Kept == since /\ ~degraded' => current' = current
<1>1. Init => HealthInv
  BY HealthInitInv DEF Init
<1>2. HealthInv /\ [Next]_vars => HealthInv' /\ [Kept]_healthVars
  BY HealthStep, ServingSteps
<1> HIDE DEF Kept
<1>3. Spec => [][Kept]_healthVars
  BY <1>1, <1>2, PTL DEF Spec
<1> QED BY <1>3 DEF Kept, HealthyClientKept

(* The Account is never locked out: whatever calls race, fail or are orphaned  *)
(* and whenever the process dies, the flag an Account holds, an open Session   *)
(* and a claimed Character are each owned by someone who will free them        *)
(* (Roster.SelectCharacter, ReleaseSession, teardown).                         *)
THEOREM FlagAlwaysOwned == Spec => []FlagOwned
<1>1. Init => FlagInv
  BY FlagInit DEF Init
<1>2. FlagInv /\ [Next]_vars => FlagInv'
  BY FlagStep, ServingSteps
<1>3. FlagInv => FlagOwned
  BY DEF FlagInv
<1> QED BY <1>1, <1>2, <1>3, PTL DEF Spec

(* Who plays which Character.  The flag of an Account is owned by someone who  *)
(* will free it, and a Command waits for its own transit.  Until the log may   *)
(* hold a record nobody answers for (Roster.muddied: one of a failed produce   *)
(* that lands late, of a teardown that overtook its call, or a crash's), no    *)
(* Character that was deleted is played, bound again or left standing, and a   *)
(* hold left linkdead has its body (server/roster/roster.go).                  *)
THEOREM RosterIsSafe == Spec => []RosterSafe
<1>1. Init => RosterInv /\ BindingsInv
  BY RosterInitInv, BindingsInitInv DEF Init
<1>2. RosterInv /\ BindingsInv /\ [Next]_vars => RosterInv' /\ BindingsInv'
  BY RosterStep, BindingsStep, ServingSteps
<1>3. RosterInv /\ BindingsInv => RosterSafe
  BY RosterInvSafe, BindingsInvSafe DEF RosterSafe
<1> QED BY <1>1, <1>2, <1>3, PTL DEF Spec

(* Sessions at both ends: no Session outlives its connection or its release,   *)
(* the gauge follows the map and a drained call is told (Gateway); a line is   *)
(* taken once, what is called not sent was not, and only what may come is      *)
(* waited for (Play).                                                          *)
THEOREM SessionsAreSafe == Spec => []SessionsSafe
<1>1. Init => GatewayInv /\ PlayInv
  BY GateInitInv, PlayInitInv DEF Init
<1>2. GatewayInv /\ PlayInv /\ [Next]_vars => GatewayInv' /\ PlayInv'
  BY GateStep, PlayStep, ServingSteps
<1>3. GatewayInv /\ PlayInv => SessionsSafe
  BY GateInvSafe, PlayInvSafe DEF SessionsSafe
<1> QED BY <1>1, <1>2, <1>3, PTL DEF Spec

(* The accounts: a secret is redeemed at most once, a reserved name stays its  *)
(* Character's, and a store that had an active Operator when it was opened     *)
(* keeps one, across appends that fail or land unanswered, and restarts        *)
(* (server/auth).  A store nobody bootstrapped may have none                   *)
(* (server/boot/accounts.go:80).                                               *)
THEOREM AccountsAreSafe == Spec => []AccountsSafe
<1>1. Init => AccountsInv
  BY AccountsInitInv DEF Init
<1>2. AccountsInv /\ [Next]_vars => AccountsInv'
  BY AccountsStep, ServingSteps
<1>3. AccountsInv => AccountsSafe
  BY AccountsInvSafe DEF AccountsSafe
<1> QED BY <1>1, <1>2, <1>3, PTL DEF Spec

(* The process tells the truth: it is ready only while it can serve, its exit  *)
(* code says how it ended, and both binaries run as the highest layer says     *)
(* (boot.Run, Config.Parse).                                                   *)
THEOREM ProcessIsSafe == Spec => []ProcessSafe
<1>1. Init => BootInv /\ ConfigInv
  BY BootInitInv, ConfigInitInv DEF Init
<1>2. BootInv /\ ConfigInv /\ [Next]_vars => BootInv' /\ ConfigInv'
  BY BootStep, ConfigStep, ServingSteps
<1>3. BootInv /\ ConfigInv => ProcessSafe
  BY BootInvSafe, ConfigInvSafe DEF ProcessSafe
<1> QED BY <1>1, <1>2, <1>3, PTL DEF Spec

(* No subscription loses an Event it could have shown: what a connection has   *)
(* been sent, holds in its channel and keeps in its window is every visible    *)
(* Event since it began, or the one after the gap it was told of; whatever is  *)
(* lost on the way, and however its resumes and drains race (gateway/stream.go,*)
(* events/hub.go).                                                             *)
THEOREM StreamSeesWhole == Spec => []SeesWhole
<1>1. Init => StreamInv
  BY StreamInvInit DEF Init
<1>2. StreamInv /\ [Next]_vars => StreamInv'
  BY StreamInvStep, ServingSteps
<1>3. StreamInv => SeesWhole
  BY StreamInvSafe
<1> QED BY <1>1, <1>2, <1>3, PTL DEF Spec

(* Every part keeps its types: no queue, channel or window outgrows its limit, *)
(* and no state machine reaches a state it does not have, through races,       *)
(* faults and restarts.                                                        *)
THEOREM ServingTypes == Spec => []ServingTypeOK
<1> DEFINE WhoPlays == BindingsInv /\ HealthInv /\ FlagInv /\ WorldTypes
           AtBothEnds == GatewayInv /\ PlayInv /\ StreamInv
           Process == AccountsInv /\ BootInv /\ ConfigInv
           OnePart == part \in Parts
<1>1. Init => WhoPlays /\ AtBothEnds /\ Process /\ OnePart
  <2>1. RosterInit => FlagInv /\ WorldTypes
    BY RosterInitInv DEF RosterInv
  <2> QED BY <2>1, BindingsInitInv, HealthInitInv, GateInitInv, PlayInitInv, StreamInvInit,
             AccountsInitInv, BootInitInv, ConfigInitInv DEF Init
<1>2. WhoPlays /\ [Next]_vars => WhoPlays'
  BY BindingsStep, HealthStep, FlagStep, WorldTypesStep, ServingSteps
<1>3. AtBothEnds /\ [Next]_vars => AtBothEnds'
  BY GateStep, PlayStep, StreamInvStep, ServingSteps
<1>4. Process /\ [Next]_vars => Process'
  BY AccountsStep, BootStep, ConfigStep, ServingSteps
<1>5. OnePart /\ [Next]_vars => OnePart'
  BY Zenon DEF Next, vars
<1>6. WhoPlays /\ AtBothEnds /\ Process /\ OnePart => ServingTypeOK
  <2> SUFFICES ASSUME WhoPlays, AtBothEnds, Process, OnePart PROVE ServingTypeOK
    OBVIOUS
  <2>1. BindingsTypeOK /\ HealthTypeOK /\ RosterTypeOK
    BY BindingsInvSafe, RosterInvTypes DEF HealthInv
  <2>2. GatewayTypeOK /\ PlayTypeOK /\ StreamTypeOK
    BY GateInvSafe, PlayInvSafe, StreamInvTypes
  <2>3. AccountsTypeOK /\ BootTypeOK /\ ConfigTypeOK
    BY AccountsInvSafe, BootInvSafe, ConfigInvSafe
  <2> QED BY <2>1, <2>2, <2>3 DEF ServingTypeOK, Parts
<1> HIDE DEF WhoPlays, AtBothEnds, Process, OnePart
<1>7. Spec => []WhoPlays
  BY <1>1, <1>2, PTL DEF Spec
<1>8. Spec => []AtBothEnds
  BY <1>1, <1>3, PTL DEF Spec
<1>9. Spec => []Process
  BY <1>1, <1>4, PTL DEF Spec
<1>10. Spec => []OnePart
  BY <1>1, <1>5, PTL DEF Spec
<1> QED BY <1>6, <1>7, <1>8, <1>9, <1>10, PTL

===============================================================================
