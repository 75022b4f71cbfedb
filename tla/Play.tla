-------------------------------- MODULE Play --------------------------------
(***************************************************************************)
(* The Text Interface (admin/cli/play.go): the loop that reads lines, the  *)
(* Submits of lines and of looks, the stream loop that reopens a Session   *)
(* under both, and leaving.  A Submit is retried under one client_ref, and *)
(* the server answers a known ref with its outcome, but only within the    *)
(* Session it came on, which the stream loop may replace at any moment.    *)
(*                                                                         *)
(* The server is external: it opens and ends Sessions, and takes a line    *)
(* once for each Session and ref.  Waiting times are left out: a wait ends *)
(* when it may.  What is printed is one word for each of the messages.     *)
(***************************************************************************)
EXTENDS Integers, FiniteSets

CONSTANTS MaxRefs,          \* lines and looks submitted
          MaxPlaySessions,  \* Sessions the process opens
          maxSubmitAttempts, maxHoldAttempts

ASSUME PlayAssumption ==
  /\ {MaxRefs, MaxPlaySessions, maxHoldAttempts} \subseteq Nat
  /\ maxSubmitAttempts \in Nat \ {0}

VARIABLES
  sessionID,  \* the Session the player holds, 0 before the first
  pending,    \* refs expected and carried by no Event yet
  looked,     \* the current Session has been asked for its Room
  entered,    \* the launch selection succeeded
  left,       \* p.ctx is done
  streamAt,   \* where streamLoop is
  submits,    \* the submit of each ref
  served,     \* Sessions open at the server
  taken,      \* the log: the lines taken, each with its Session
  onTheWay,   \* requests and records the client no longer waits for
  shown       \* refs an Event has carried

playerVars == <<sessionID, pending, looked, entered, left, streamAt>>
worldSide == <<served, taken, onTheWay>>
playVars == <<playerVars, submits, worldSide, shown>>

Refs == 1..MaxRefs
PlaySessions == 1..MaxPlaySessions

NoLine == [by |-> "none", at |-> "none", sess |-> 0, attempt |-> 0, held |-> 0, told |-> "none"]

PlayTypeOK ==
  /\ sessionID \in PlaySessions \cup {0}
  /\ pending \in SUBSET Refs /\ shown \in SUBSET Refs
  /\ looked \in BOOLEAN /\ entered \in BOOLEAN /\ left \in BOOLEAN
  /\ streamAt \in {"open", "enter", "subscribe", "read", "lost", "fatal",
                   "returned"}
  /\ submits \in [Refs -> [by : {"none", "repl", "first", "look"},
                           at : {"none", "expected", "check", "wait", "hold", "done"},
                           sess : PlaySessions \cup {0}, attempt : 0..(maxSubmitAttempts + maxHoldAttempts),
                           held : 0..maxHoldAttempts,
                           told : {"none", "accepted", "refused", "not_sent", "unknown",
                                   "not_answered"}]]
  /\ served \in SUBSET PlaySessions
  /\ taken \in SUBSET (PlaySessions \X Refs)
  /\ onTheWay \in SUBSET (PlaySessions \X Refs)

-----------------------------------------------------------------------------
(* Submitting a line. *)

Used == {r \in Refs : submits[r].at # "none"}
NextRef == Cardinality(Used) + 1

\* lastEvent is not 0: an Event has been handled.
LastSeen == shown # {}

\* The first look has been answered, or waited for: typed lines may follow it.
Ready == \E r \in Used : submits[r].by = "first" /\ submits[r].at = "done"

\* nextRef and expect: a fresh ref, awaited before it is sent.
Expect(by) ==
  /\ NextRef \in Refs
  /\ submits' = [submits EXCEPT ![NextRef] = [NoLine EXCEPT !.by = by, !.at = "expected"]]
  /\ pending' = pending \cup {NextRef}

\* The one reader of lines, between two of them.
TypeLine ==
  /\ Ready /\ ~left /\ streamAt # "fatal"
  /\ \A r \in Used : submits[r].by = "repl" => submits[r].at = "done"
  /\ Expect("repl")
  /\ UNCHANGED <<sessionID, looked, entered, left, streamAt>>
  /\ UNCHANGED <<worldSide, shown>>

\* The first attempt reads the Session the line will live and die in.
ReadSession(r) ==
  /\ submits[r].at = "expected"
  /\ submits' = [submits EXCEPT ![r] = [@ EXCEPT !.at = "check", !.sess = sessionID, !.attempt = 1]]
  /\ UNCHANGED <<playerVars, worldSide, shown>>

\* Of a submit that is over, the Session and what was told are kept.
Ends(r, told) ==
  submits' = [submits EXCEPT ![r] = [@ EXCEPT !.at = "done", !.told = told,
                                              !.attempt = 0, !.held = 0]]

Again(r) ==
  submits' = [submits EXCEPT ![r].at = "check", ![r].attempt = @ + 1]

\* Each attempt goes out on the Session of the first, or not at all.
SendOnCurrent(r) ==
  /\ submits' = [submits EXCEPT ![r] = [@ EXCEPT !.at = "wait", !.sess = sessionID]]
  /\ UNCHANGED pending

SendOrGiveUp(r) ==
  \/ /\ submits[r].sess = sessionID
     /\ submits' = [submits EXCEPT ![r].at = "wait"]
     /\ UNCHANGED pending
  \/ /\ submits[r].sess # sessionID
     /\ Ends(r, "unknown")
     /\ pending' = pending \ {r}

Attempt(r) ==
  /\ submits[r].at = "check"
  /\ SendOrGiveUp(r)
  /\ UNCHANGED <<sessionID, looked, entered, left, streamAt>>
  /\ UNCHANGED <<worldSide, shown>>

\* endStream: the current stream is cancelled, and the loop takes it for lost.
StreamEnded ==
  IF streamAt \in {"subscribe", "read"} THEN "lost" ELSE streamAt

\* UNAUTHENTICATED says that this attempt was not taken, and nothing of an
\* earlier one.
NotSentAtAll(r) == TRUE
NotSent(r) == submits[r].attempt = 1

\* What submit makes of an answer; an accepted line stays awaited.
Takes(r, answer) ==
  LET s == submits[r]
      again == answer = "deadline" /\ s.attempt < maxSubmitAttempts
      hold == answer = "held" /\ s.held < maxHoldAttempts
      told == CASE answer = "ok" -> "accepted"
                [] answer = "deadline" -> "not_answered"
                [] answer = "outcome_unknown" -> "unknown"
                [] answer = "unauthenticated" -> IF NotSent(r) THEN "not_sent" ELSE "unknown"
                [] OTHER -> "refused"
  IN /\ CASE again -> Again(r)
          [] hold -> submits' = [submits EXCEPT ![r].at = "hold", ![r].held = @ + 1]
          [] OTHER -> Ends(r, told)
     /\ pending' = IF again \/ hold \/ answer = "ok" THEN pending ELSE pending \ {r}
     /\ streamAt' = IF answer = "unauthenticated" THEN StreamEnded ELSE streamAt

\* The wait RetryInfo asks for.
HoldEnds(r) ==
  /\ submits[r].at = "hold"
  /\ Again(r)
  /\ UNCHANGED <<playerVars, worldSide, shown>>

-----------------------------------------------------------------------------
(* The server, as a client meets it (external). *)

Known(r) == <<submits[r].sess, r>> \in taken
TakesLine(r) == taken' = taken \cup {<<submits[r].sess, r>>}
MaybeTaken(r) == TakesLine(r) \/ UNCHANGED taken

\* Submit's answer.  The Session is resolved before anything else; a line is
\* taken once for its Session and ref, and a held or rejected line is not taken,
\* but a rate limit or a drain refuses a retry of a taken one; a Session may end
\* under the call, and a connection may break under its answer.
Answer(r) ==
  /\ submits[r].at = "wait"
  /\ \/ /\ submits[r].sess \notin served
        /\ Takes(r, "unauthenticated") /\ UNCHANGED worldSide
     \/ /\ submits[r].sess \in served
        /\ \/ Takes(r, "ok") /\ TakesLine(r) /\ UNCHANGED <<served, onTheWay>>
           \/ Takes(r, "refused") /\ UNCHANGED worldSide
           \/ ~Known(r) /\ Takes(r, "held") /\ UNCHANGED worldSide
           \/ Takes(r, "outcome_unknown") /\ MaybeTaken(r) /\ UNCHANGED <<served, onTheWay>>
           \/ Takes(r, "refused") /\ MaybeTaken(r)
              /\ served' = served \ {submits[r].sess} /\ UNCHANGED onTheWay
  /\ UNCHANGED <<sessionID, looked, entered, left, shown>>

\* A deadline, the produce's or the client's own, passes with the line unsettled.
DeadlinePasses(r) ==
  /\ submits[r].at = "wait"
  /\ Takes(r, "deadline")
  /\ onTheWay' = onTheWay \cup {<<submits[r].sess, r>>}
  /\ UNCHANGED <<sessionID, looked, entered, left, shown>>
  /\ UNCHANGED <<served, taken>>

\* What nobody waits for is taken late, or lost.
Arrives ==
  /\ \E m \in onTheWay :
       /\ onTheWay' = onTheWay \ {m}
       /\ taken' = taken \cup {m} \/ UNCHANGED taken
  /\ UNCHANGED <<playerVars, submits, served, shown>>

SessionEnds ==
  /\ \E s \in served : served' = served \ {s}
  /\ UNCHANGED <<playerVars, submits, taken, onTheWay, shown>>

-----------------------------------------------------------------------------
(* Connecting, and the stream. *)

\* opened: the new Session, and nothing awaited from the old one.
OpenedKeeping(s) ==
  /\ sessionID' = s /\ looked' = FALSE /\ UNCHANGED pending

Opened(s) ==
  /\ sessionID' = s /\ looked' = FALSE /\ pending' = {}

\* open: a Session, by the stored token or by one refreshed once; a server that
\* cannot be reached is asked again.
OpensSession ==
  /\ streamAt \in {"open", "lost"} /\ ~left
  /\ sessionID < MaxPlaySessions
  /\ Opened(sessionID + 1)
  /\ served' = served \cup {sessionID + 1}
  /\ streamAt' = "enter"
  /\ UNCHANGED <<entered, left, submits, taken, onTheWay, shown>>

\* open on a reconnect, refused for good: the token has expired and the stored
\* refresh token buys no other, or the server speaks another version.
OpenFatal ==
  /\ streamAt = "lost" /\ ~left
  /\ streamAt' = "fatal"
  /\ UNCHANGED <<sessionID, pending, looked, entered, left>>
  /\ UNCHANGED <<submits, worldSide, shown>>

\* enter.  At launch a refusal ends play, and the Session opened for it is
\* closed; on a reconnect the old Session may still hold the Character
\* (already_live, waited out here), a Session that went too or cannot be reached
\* is replaced, and any other refusal ends play.
Enters ==
  /\ streamAt = "enter" /\ ~left
  /\ \/ /\ sessionID \in served
        /\ streamAt' = "subscribe" /\ entered' = TRUE /\ UNCHANGED <<left, served>>
     \/ /\ entered
        /\ streamAt' \in {"lost", "fatal"} /\ UNCHANGED <<entered, left, served>>
     \/ /\ ~entered
        /\ streamAt' = "returned" /\ left' = TRUE
        /\ served' = served \ {sessionID} /\ UNCHANGED entered
  /\ UNCHANGED <<sessionID, pending, looked>>
  /\ UNCHANGED <<submits, taken, onTheWay, shown>>

\* stream, up to the Attached frame and the Resync that may follow it.  The first
\* stream of all asks for the Room; one that resumes may be told to resync, and
\* handle then looks, beside whatever is being submitted.
Attached ==
  /\ streamAt = "subscribe" /\ ~left /\ sessionID \in served
  /\ looked' = TRUE /\ streamAt' = "read"
  /\ \/ ~looked /\ ~LastSeen /\ Expect("first")
     \/ (looked \/ LastSeen) /\ UNCHANGED <<submits, pending>>
     \/ LastSeen /\ Expect("look")
  /\ UNCHANGED <<sessionID, entered, left, worldSide, shown>>

\* handle of an Event: the resume point moves, and a ref it carries is answered.
HandleEvent ==
  /\ streamAt = "read" /\ ~left
  /\ \E r \in Refs :
       /\ <<sessionID, r>> \in taken /\ r \notin shown
       /\ shown' = shown \cup {r} /\ pending' = pending \ {r}
  /\ UNCHANGED <<sessionID, looked, entered, left, streamAt>>
  /\ UNCHANGED <<submits, worldSide>>

\* streamLoop: the stream is reopened on the Session, or the Session is lost,
\* or the error is one that ends play.
LoopDecides ==
  /\ streamAt \in {"subscribe", "read"} /\ ~left
  /\ streamAt' \in {"subscribe", "lost", "fatal"}
  /\ UNCHANGED <<sessionID, pending, looked, entered, left>>
  /\ UNCHANGED <<submits, worldSide, shown>>

\* A quit, the end of input, a signal or a fatal error: the context of play is
\* done, every submit ends in silence with its request perhaps on its way, the
\* stream ends, and the Session that is read then is closed.
Leaves ==
  /\ ~left
  /\ left' = TRUE
  /\ LET cut == {r \in Used : submits[r].at # "done"} IN
       /\ submits' = [r \in Refs |-> IF r \in cut THEN [submits[r] EXCEPT !.at = "done"]
                                                  ELSE submits[r]]
       /\ pending' = pending \ cut
       /\ onTheWay' = onTheWay \cup {<<submits[r].sess, r>> : r \in {q \in cut : submits[q].at = "wait"}}
  /\ served' = served \ {sessionID}
  /\ streamAt' = "returned"
  /\ UNCHANGED <<sessionID, looked, entered, taken, shown>>

-----------------------------------------------------------------------------
PlayInit ==
  /\ sessionID = 0 /\ pending = {} /\ looked = FALSE
  /\ entered = FALSE /\ left = FALSE /\ streamAt = "open"
  /\ submits = [r \in Refs |-> NoLine]
  /\ served = {} /\ taken = {} /\ onTheWay = {} /\ shown = {}

PlayNext ==
  \/ TypeLine
  \/ \E r \in Refs : ReadSession(r) \/ Attempt(r) \/ Answer(r) \/ DeadlinePasses(r) \/ HoldEnds(r)
  \/ Arrives \/ SessionEnds
  \/ OpensSession \/ OpenFatal \/ Enters \/ Attached
  \/ HandleEvent \/ LoopDecides \/ Leaves

PlaySpec == PlayInit /\ [][PlayNext]_playVars

-----------------------------------------------------------------------------
(* submit's comment: a retry on a Session opened since would be a fresh key,  *)
(* "a new produce, and possibly the double move the retry exists to prevent". *)
(* However the stream loop reconnects under the retries, and however late a   *)
(* request or a record arrives, a line is taken on one Session only.          *)
LineTakenOnce ==
  \A r \in Refs : Cardinality({s \in PlaySessions : <<s, r>> \in taken \cup onTheWay}) <= 1

(* A player told that a line was not sent may type it again: it was never     *)
(* taken, and no earlier attempt of it is on its way.                         *)
NotSentIsNotTaken ==
  \A r \in Refs : submits[r].told = "not_sent" =>
    \A s \in PlaySessions : <<s, r>> \notin taken \cup onTheWay

(* drain waits for what is pending: for a line still being submitted, or for  *)
(* an Event that this Session's stream has yet to carry.  An Event that beats *)
(* its ack leaves nothing behind, and neither does a Session that is replaced.*)
AwaitsWhatMayCome ==
  \A r \in pending :
    /\ r \notin shown
    /\ submits[r].at = "done" => submits[r].told = "accepted" /\ submits[r].sess = sessionID

(* The prompt waits for the first look, so a stream that is being read has    *)
(* launched it: no order of reconnects, Resyncs and Events leaves the reader  *)
(* of lines waiting for good.                                                 *)
PromptWillCome ==
  streamAt = "read" => \E r \in Used : submits[r].by = "first"
=============================================================================
