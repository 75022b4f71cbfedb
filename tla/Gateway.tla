------------------------------ MODULE Gateway ------------------------------
(***************************************************************************)
(* The Gateway's Sessions and calls (server/gateway): connections that     *)
(* come and go, the interceptor chain, OpenSession and its refusals, the   *)
(* calls that run on a Session, CloseSession, the recheck of Principals    *)
(* and Shutdown's drain.  A Session may be ended by its client, by its     *)
(* connection, by the recheck and by the drain, at the same moment; calls  *)
(* on it run through all four.                                             *)
(*                                                                         *)
(* What runs behind a call (Ingress, Egress, Roster, the Admin services)   *)
(* is a seam: it returns an answer of its own, or returns because the      *)
(* context of the call is done.  net/http is external: a transport closes, *)
(* and later its connState hook runs.                                      *)
(***************************************************************************)
EXTENDS Integers, FiniteSets

CONSTANTS Conns,        \* transport connections
          MaxSessions,  \* Sessions ever opened
          MaxCalls,     \* RPCs ever received
          ProtocolMin, ProtocolMax

ASSUME ProtocolAssumption ==
  ProtocolMin \in Nat /\ ProtocolMax \in Nat
    /\ 1 <= ProtocolMin /\ ProtocolMin <= ProtocolMax

ASSUME GatewayAssumption == MaxSessions \in Nat /\ MaxCalls \in Nat

VARIABLES
  conns,     \* a connection's transport and the store's live set
  gwSess,    \* the Sessions: connection, stage of the teardown, who began it
  sessionsActive,     \* andara_sessions_active
  rpcs,      \* the calls: kind, connection, Session, where they are, answer
  doomed,    \* what each closer still has to close
  drain,     \* where Shutdown is
  disabled,  \* the Account behind the Principal is disabled
  noContent  \* the World waits for its first content

gatewayVars == <<conns, gwSess, sessionsActive, rpcs, doomed, drain, disabled, noContent>>

SessionIds == 1..MaxSessions
CallIds == 1..MaxCalls
Closers == Conns \union {"drain", "recheck"}

Kinds == {"open", "unary", "subscribe", "close", "admin"}
ConnStates == {"new", "open", "closed", "gone"}
\* The teardown of one Session, in the order of close: the closing flag, the
\* maps, the seams and the context, the gauge.
Stages == {"none", "open", "closing", "removed", "cancelled", "ended"}
DrainStages == {"serving", "flagged", "stopped", "closing", "shutdown", "done"}
Answers == {"none", "ok", "version", "unauthenticated", "denied", "no_content",
            "unavailable", "typed", "session_closed", "canceled", "deadline",
            "internal", "unimplemented"}

NoCall == [kind |-> "none", conn |-> "none", sess |-> 0, pc |-> "none", out |-> "none",
           answer |-> "none"]

GatewayTypeOK ==
  /\ conns \in [Conns -> ConnStates]
  /\ gwSess \in [SessionIds -> [conn : Conns \union {"none"}, stage : Stages,
                                by : {"none", "client", "conn", "recheck", "drain"},
                                counted : BOOLEAN, released : BOOLEAN]]
  /\ sessionsActive \in Int
  /\ rpcs \in [CallIds -> [kind : Kinds \union {"none"}, conn : Conns \union {"none"},
                         sess : SessionIds \union {0},
                         pc : {"none", "handler", "store", "count", "seam", "map",
                               "closing", "released", "done"},
                         out : {"none", "ok", "typed", "canceled"},
                         answer : Answers]]
  /\ doomed \in [Closers -> SUBSET SessionIds]
  /\ drain \in DrainStages
  /\ disabled \in BOOLEAN /\ noContent \in BOOLEAN

----------------------------------------------------------------------------
(* What a call reads. *)

Draining == drain # "serving"
DrainCtxDoneLate == drain \in {"shutdown", "done"}
DrainCtxDone == drain \notin {"serving", "flagged"}

\* sessionStore.byID, and the set of connections a Session may open on.
InMap(s) == gwSess[s].stage \in {"open", "closing"}
ById == {s \in SessionIds : InMap(s)}
LiveOrNot(c) == conns[c] # "new"
Live(c) == conns[c] \in {"open", "closed"}

SessionCtxDone(s) == gwSess[s].stage \in {"cancelled", "ended"}

\* joinContexts: the call's own context, the Session's and the drain's.
CtxDone(k) ==
  \/ conns[rpcs[k].conn] # "open"
  \/ SessionCtxDone(rpcs[k].sess)
  \/ DrainCtxDone

\* Of an answered call the kind, the Session and the answer are kept.
Replied(k, answer) ==
  rpcs' = [rpcs EXCEPT ![k] = [@ EXCEPT !.pc = "done", !.answer = answer,
                                        !.conn = "none", !.out = "none"]]

At(k, pc) == rpcs[k].pc = pc
Moves(k, pc) == rpcs' = [rpcs EXCEPT ![k].pc = pc]

----------------------------------------------------------------------------
(* Connections. *)

\* connContext: an identity for the connection, and connOpened.
ConnOpens(c) ==
  /\ conns[c] = "new" /\ drain \notin {"shutdown", "done"}
  /\ conns' = [conns EXCEPT ![c] = "open"]
  /\ UNCHANGED <<gwSess, sessionsActive, rpcs, doomed, drain, disabled, noContent>>

\* The transport ends: the client drops, the keepalive or closeConn ends it.
TransportCloses(c) ==
  /\ conns[c] = "open"
  /\ conns' = [conns EXCEPT ![c] = "closed"]
  /\ UNCHANGED <<gwSess, sessionsActive, rpcs, doomed, drain, disabled, noContent>>

\* connState's hook and the critical section of connClosed: the connection is
\* dead and its Sessions are collected, in one.
ConnStateHook(c) ==
  /\ conns[c] = "closed"
  /\ conns' = [conns EXCEPT ![c] = "gone"]
  /\ doomed' = [doomed EXCEPT ![c] = {s \in ById : gwSess[s].conn = c}]
  /\ UNCHANGED <<gwSess, sessionsActive, rpcs, drain, disabled, noContent>>

----------------------------------------------------------------------------
(* A call arrives and passes the interceptors; the drain is asked once, here. *)

Receive(k, kind, c, s) ==
  /\ At(k, "none") /\ \A j \in CallIds : j < k => ~At(j, "none")
  /\ conns[c] = "open"
  /\ kind \in {"open", "admin"} => s = 0
  /\ kind \notin {"open", "admin"} => s # 0 /\ gwSess[s].counted
  /\ rpcs' = [rpcs EXCEPT ![k] =
       [kind |-> kind, conn |-> IF Draining THEN "none" ELSE c, sess |-> s, out |-> "none",
        pc |-> IF Draining THEN "done" ELSE "handler",
        answer |-> IF Draining THEN "unavailable" ELSE "none"]]
  /\ UNCHANGED <<conns, gwSess, sessionsActive, doomed, drain, disabled, noContent>>

\* The token an Admin call bears, and whom its header says it acts as.
Tokens == {"none", "invalid", "denied", "valid"}
ActAsTargets == {"absent", "refused", "granted"}

\* authenticate: only Admin has a token in its header.
AdminRefusal(token, target) ==
  CASE token \in {"none", "invalid"} -> "unauthenticated"
    [] token = "denied" -> "denied"
    [] token = "valid" /\ disabled -> "unauthenticated"
    [] token = "valid" /\ ~disabled /\ target = "refused" -> "denied"
    [] OTHER -> "none"

\* contentCall: a server whose content is a directory has no publish path.
ContentAnswer(wired, out) == IF wired THEN out ELSE "unimplemented"

\* snapshotCall: the Snapshot Rounds are the operator's.
SnapshotAnswer(operator, out) == IF operator THEN out ELSE "denied"

\* authInterceptor, then the service, which answers or refuses with a code of
\* its own (delegate, for the Accounts, passes it on).
Admin(k, token, target, allowed, out) ==
  LET refusal == AdminRefusal(token, target)
      answer  == {out, ContentAnswer(allowed, out), SnapshotAnswer(allowed, out)}
  IN /\ rpcs[k].kind = "admin" /\ At(k, "handler")
     /\ \E a \in IF refusal # "none" THEN {refusal} ELSE answer : Replied(k, a)
     /\ UNCHANGED <<conns, gwSess, sessionsActive, doomed, drain, disabled, noContent>>

\* Negotiate.
Supported(version) == ProtocolMin <= version /\ version <= ProtocolMax

\* OpenSession's checks, in their order: version, token, act-as, content.
OpenRefusal(version, token, target) ==
  CASE ~Supported(version) -> "version"
    [] Supported(version) /\ (token # "valid" \/ disabled) -> "unauthenticated"
    [] Supported(version) /\ token = "valid" /\ ~disabled /\ target = "refused" -> "denied"
    [] Supported(version) /\ token = "valid" /\ ~disabled /\ target # "refused"
         /\ noContent -> "no_content"
    [] OTHER -> "none"

OpenChecks(k, version, token, target) ==
  LET refusal == OpenRefusal(version, token, target)
  IN /\ rpcs[k].kind = "open" /\ At(k, "handler")
     /\ IF refusal = "none" THEN Moves(k, "store") ELSE Replied(k, refusal)
     /\ UNCHANGED <<conns, gwSess, sessionsActive, doomed, drain, disabled, noContent>>

\* sessionStore.open: refused when the connection has gone meanwhile, else in
\* the maps, under the store's lock.
StoreOpen(k, s) ==
  /\ At(k, "store")
  /\ gwSess[s].stage = "none" /\ \A t \in SessionIds : t < s => gwSess[t].stage # "none"
  /\ IF Live(rpcs[k].conn)
     THEN /\ gwSess' = [gwSess EXCEPT ![s] =
               [@ EXCEPT !.conn = rpcs[k].conn, !.stage = "open"]]
          /\ rpcs' = [rpcs EXCEPT ![k].pc = "count", ![k].sess = s]
     ELSE Replied(k, "canceled") /\ UNCHANGED gwSess
  /\ UNCHANGED <<conns, sessionsActive, doomed, drain, disabled, noContent>>

\* The gauge, after the lock is let go, and the answer.
CountOpen(k) ==
  /\ At(k, "count")
  /\ sessionsActive' = sessionsActive + 1
  /\ gwSess' = [gwSess EXCEPT ![rpcs[k].sess].counted = TRUE]
  /\ Replied(k, "ok")
  /\ UNCHANGED <<conns, doomed, drain, disabled, noContent>>

----------------------------------------------------------------------------
(* The calls on a Session. *)

\* gameService.resolve.
Resolve(k) ==
  /\ At(k, "handler") /\ rpcs[k].kind \in {"unary", "subscribe", "close"}
  /\ IF ~InMap(rpcs[k].sess)
     THEN Replied(k, "unauthenticated")
     ELSE Moves(k, IF rpcs[k].kind = "close" THEN "closing" ELSE "seam")
  /\ UNCHANGED <<conns, gwSess, sessionsActive, doomed, drain, disabled, noContent>>

\* ListCharacters, CreateCharacter, SelectCharacter, DeleteCharacter and
\* Submit: the seam answers or refuses when it likes, and gives up with a
\* cancellation once its context is done.  Only an error is mapped.
UnaryReturns(k, out) ==
  /\ At(k, "seam") /\ rpcs[k].kind = "unary"
  /\ out = "canceled" => CtxDone(k)
  /\ IF out = "ok" THEN Replied(k, "ok")
     ELSE rpcs' = [rpcs EXCEPT ![k].pc = "map", ![k].out = out]
  /\ UNCHANGED <<conns, gwSess, sessionsActive, doomed, drain, disabled, noContent>>

\* Subscribe: by itself a stream ends only with a refusal; once its context is
\* done it ends with a cancellation or with nothing, which is mapped too.
SubscribeReturns(k, out) ==
  /\ At(k, "seam") /\ rpcs[k].kind = "subscribe"
  /\ out # "typed" => CtxDone(k)
  /\ rpcs' = [rpcs EXCEPT ![k].pc = "map", ![k].out = out]
  /\ UNCHANGED <<conns, gwSess, sessionsActive, doomed, drain, disabled, noContent>>

\* mapSeamError: why the call ended when the cause was the Gateway.
SeamError(k) ==
  CASE DrainCtxDone -> "unavailable"
    [] ~DrainCtxDone /\ rpcs[k].out = "typed" -> "typed"
    [] ~DrainCtxDone /\ rpcs[k].out # "typed" /\ SessionCtxDone(rpcs[k].sess)
         -> "session_closed"
    [] OTHER -> IF rpcs[k].out = "ok" THEN "ok"
                ELSE IF CtxDone(k) THEN "canceled" ELSE "internal"

MapsError(k) ==
  /\ At(k, "map")
  /\ Replied(k, SeamError(k))
  /\ UNCHANGED <<conns, gwSess, sessionsActive, doomed, drain, disabled, noContent>>

----------------------------------------------------------------------------
(* sessionStore.close. *)

\* The first caller of close runs the teardown and sets the closing flag; the
\* released channel is a closed one until the roster has given its own.
Begins(s, by) ==
  /\ gwSess[s].stage = "open"
  /\ gwSess' = [gwSess EXCEPT ![s].stage = "closing", ![s].by = by,
                              ![s].released = TRUE]

\* Every other caller waits in sync.Once until the teardown has run, and goes
\* on with the first caller's channel.
OnceBegun(s) == gwSess[s].stage # "open"
OnceRun(s) == gwSess[s].stage = "ended"

\* The teardown the first caller runs: the maps; the streams, the parking and
\* the roster told, then the context; the gauge.
TearDown(s) ==
  /\ \/ gwSess[s].stage = "closing" /\ gwSess' = [gwSess EXCEPT ![s].stage = "removed"]
        /\ UNCHANGED sessionsActive
     \/ gwSess[s].stage = "removed"
        /\ gwSess' = [gwSess EXCEPT ![s].stage = "cancelled", ![s].released = FALSE]
        /\ UNCHANGED sessionsActive
     \/ gwSess[s].stage = "cancelled" /\ gwSess' = [gwSess EXCEPT ![s].stage = "ended"]
        /\ sessionsActive' = sessionsActive - 1
  /\ UNCHANGED <<conns, rpcs, doomed, drain, disabled, noContent>>

\* The roster's teardown has finished: the released channel closes.
Releases(s) ==
  /\ gwSess[s].stage \in {"cancelled", "ended"} /\ ~gwSess[s].released
  /\ gwSess' = [gwSess EXCEPT ![s].released = TRUE]
  /\ UNCHANGED <<conns, sessionsActive, rpcs, doomed, drain, disabled, noContent>>

\* CloseSession: close, then wait for the release, bounded by the call.
CloseCall(k) ==
  LET s == rpcs[k].sess
  IN /\ At(k, "closing")
     /\ \/ Begins(s, "client") /\ UNCHANGED rpcs
        \/ OnceRun(s) /\ Moves(k, "released") /\ UNCHANGED gwSess
     /\ UNCHANGED <<conns, sessionsActive, doomed, drain, disabled, noContent>>

\* deadlineInterceptor: every unary call has a deadline, a stream has none.
Bounded(k) == rpcs[k].kind # "subscribe"

CloseAnswers(k) ==
  /\ At(k, "released")
  /\ \/ gwSess[rpcs[k].sess].released /\ Replied(k, "ok")
     \/ Bounded(k) /\ Replied(k, "deadline")
  /\ UNCHANGED <<conns, gwSess, sessionsActive, doomed, drain, disabled, noContent>>

\* connClosed, closeAll and recheck close the Sessions they collected.
ClosesOne(by, s) ==
  /\ s \in doomed[by]
  /\ \/ /\ Begins(s, IF by \in Conns THEN "conn" ELSE by)
        /\ UNCHANGED doomed
     \/ /\ OnceRun(s)
        /\ doomed' = [doomed EXCEPT ![by] = @ \ {s}]
        /\ UNCHANGED gwSess
  /\ UNCHANGED <<conns, sessionsActive, rpcs, drain, disabled, noContent>>

----------------------------------------------------------------------------
(* The recheck loop, which ends with the drain. *)

Disable ==
  /\ ~disabled /\ disabled' = TRUE
  /\ UNCHANGED <<conns, gwSess, sessionsActive, rpcs, doomed, drain, noContent>>

FirstContent ==
  /\ noContent /\ noContent' = FALSE
  /\ UNCHANGED <<conns, gwSess, sessionsActive, rpcs, doomed, drain, disabled>>

\* recheck: the open Sessions, of which those with a revoked Principal are
\* closed.  A pass that finds none does nothing.
Recheck ==
  /\ disabled /\ ~DrainCtxDone /\ doomed["recheck"] = {} /\ ById # {}
  /\ doomed' = [doomed EXCEPT !["recheck"] = ById]
  /\ UNCHANGED <<conns, gwSess, sessionsActive, rpcs, drain, disabled, noContent>>

----------------------------------------------------------------------------
(* Shutdown. *)

Shutdown ==
  /\ drain = "serving" /\ drain' = "flagged"
  /\ UNCHANGED <<conns, gwSess, sessionsActive, rpcs, doomed, disabled, noContent>>

\* drainStop, and only then closeAll's list.
DrainStop ==
  /\ drain = "flagged" /\ drain' = "stopped"
  /\ UNCHANGED <<conns, gwSess, sessionsActive, rpcs, doomed, disabled, noContent>>

CloseAll ==
  /\ drain = "stopped" /\ drain' = "closing"
  /\ doomed' = [doomed EXCEPT !["drain"] = ById]
  /\ UNCHANGED <<conns, gwSess, sessionsActive, rpcs, disabled, noContent>>

Drained ==
  /\ drain = "closing" /\ doomed["drain"] = {} /\ drain' = "shutdown"
  /\ UNCHANGED <<conns, gwSess, sessionsActive, rpcs, doomed, disabled, noContent>>

Busy(c) == \E k \in CallIds : rpcs[k].conn = c

\* http.Server.Shutdown closes the connections with nothing in flight, and
\* all of them once the drain's timeout has passed.
HttpShutdown(c) ==
  /\ drain = "shutdown" /\ conns[c] = "open"
  /\ ~Busy(c)
  /\ conns' = [conns EXCEPT ![c] = "closed"]
  /\ UNCHANGED <<gwSess, sessionsActive, rpcs, doomed, drain, disabled, noContent>>

HttpDone ==
  /\ drain = "shutdown" /\ \A c \in Conns : conns[c] # "open"
  /\ drain' = "done"
  /\ UNCHANGED <<conns, gwSess, sessionsActive, rpcs, doomed, disabled, noContent>>

DrainTimeout ==
  /\ drain = "shutdown" /\ \E c \in Conns : Busy(c)
  /\ drain' = "done"
  /\ conns' = [c \in Conns |-> IF conns[c] = "open" THEN "closed" ELSE conns[c]]
  /\ UNCHANGED <<gwSess, sessionsActive, rpcs, doomed, disabled, noContent>>

----------------------------------------------------------------------------

GatewayInit ==
  /\ conns = [c \in Conns |-> "new"]
  /\ gwSess = [s \in SessionIds |-> [conn |-> "none", stage |-> "none", by |-> "none",
                                     counted |-> FALSE, released |-> FALSE]]
  /\ sessionsActive = 0
  /\ rpcs = [k \in CallIds |-> NoCall]
  /\ doomed = [b \in Closers |-> {}]
  /\ drain = "serving"
  /\ disabled = FALSE
  /\ noContent \in BOOLEAN

GatewayNext ==
  \/ \E c \in Conns : ConnOpens(c) \/ TransportCloses(c) \/ ConnStateHook(c)
                        \/ HttpShutdown(c)
  \/ \E k \in CallIds, kind \in Kinds, c \in Conns, s \in SessionIds \union {0} :
       Receive(k, kind, c, s)
  \/ \E k \in CallIds, token \in Tokens, target \in ActAsTargets :
       \/ \E allowed \in BOOLEAN, out \in {"ok", "typed"} :
            Admin(k, token, target, allowed, out)
       \/ \E version \in (ProtocolMin - 1)..(ProtocolMax + 1) :
            OpenChecks(k, version, token, target)
  \/ \E k \in CallIds :
       \/ \E s \in SessionIds : StoreOpen(k, s)
       \/ CountOpen(k) \/ Resolve(k) \/ MapsError(k) \/ CloseCall(k) \/ CloseAnswers(k)
       \/ \E out \in {"ok", "typed", "canceled"} :
            UnaryReturns(k, out) \/ SubscribeReturns(k, out)
  \/ \E s \in SessionIds : TearDown(s) \/ Releases(s)
  \/ \E by \in Closers, s \in SessionIds : ClosesOne(by, s)
  \/ Disable \/ FirstContent \/ Recheck
  \/ Shutdown \/ DrainStop \/ CloseAll \/ Drained \/ HttpDone \/ DrainTimeout

GatewaySpec == GatewayInit /\ [][GatewayNext]_gatewayVars

----------------------------------------------------------------------------
(* Properties. *)

\* A Session in the store is on a connection that is still open to it, or on
\* the list its connection's teardown is working through: none is left bound
\* to a dead connection, where nothing would ever end it ("a Session bound to
\* a dead connection would never be torn down", session.go).  An OpenSession
\* that outlives its connection, or the drain, must meet this too.
NoneLeftBehind ==
  \A s \in SessionIds : gwSess[s].stage = "open" =>
    conns[gwSess[s].conn] # "gone" \/ s \in doomed[gwSess[s].conn]

\* With no call and no teardown under way the gauge counts the Sessions in
\* the store, whoever closed them and however often: four closers and one
\* decrement.
GaugeAgrees ==
  (\A k \in CallIds : ~At(k, "count"))
    /\ (\A s \in SessionIds : gwSess[s].stage \in {"none", "open", "ended"})
      => sessionsActive = Cardinality(ById)

\* A call whose Session the drain ended is told the server is draining, which
\* a client retries elsewhere, and never that its Session was closed.
DrainSaysSo ==
  \A k \in CallIds : rpcs[k].answer = "session_closed"
                     => gwSess[rpcs[k].sess].by # "drain"

\* A CloseSession is answered only when the Session's Character has been
\* released, whoever ended the Session first: a second caller of close waits
\* for the first and for the first's release.
CloseMeansReleased ==
  \A k \in CallIds : rpcs[k].kind = "close" /\ rpcs[k].answer = "ok"
                     => gwSess[rpcs[k].sess].released /\ SessionCtxDone(rpcs[k].sess)
============================================================================
