------------------------------ MODULE LogScan ------------------------------
(***************************************************************************)
(* Reading a compacted topic up to the end offset captured at the start:   *)
(* Replay of server/recordlog (the accounts), scan of server/content (the  *)
(* Active Pointers and the manifests) and TopicKeys of server/projector.   *)
(* Others append while it reads, and compaction removes records ahead of   *)
(* it, so neither a count of records nor the offset just below the end     *)
(* tells that it is done.                                                  *)
(*                                                                         *)
(* One Partition: each is read by itself.  The broker is external: an      *)
(* append may close the active segment, and compaction removes, from the   *)
(* closed ones, what a later record of the key supersedes.                 *)
(***************************************************************************)
EXTENDS Integers, Sequences

CONSTANTS ScanKeys, MaxScanAppends

VARIABLES topicLog,  \* the records ever appended: key, tombstone, compacted away
          active,    \* the first offset of the active segment
          scan       \* the reader: kind, where it is, next offset, end, what it holds

scanVars == <<topicLog, active, scan>>

ScanOffsets == 1..MaxScanAppends
NoScan == [kind |-> "none", at |-> "idle", pos |-> 1, end |-> 1, got |-> [k \in ScanKeys |-> 0]]

ScanTypeOK ==
  /\ topicLog \in Seq([key : ScanKeys, dead : BOOLEAN, gone : BOOLEAN])
  /\ active \in 1..(MaxScanAppends + 1)
  /\ scan \in [kind : {"none", "replay", "keys"}, at : {"idle", "reading", "done", "failed"},
               pos : 1..(MaxScanAppends + 1), end : 1..(MaxScanAppends + 1),
               got : [ScanKeys -> ScanOffsets \cup {0}]]

Held == {o \in DOMAIN topicLog : ~topicLog[o].gone}

-----------------------------------------------------------------------------
(* The topic (external). *)

\* TopicKeys reads before the projector, the topic's only writer, writes.
AppendRecord(k, dead) ==
  /\ Len(topicLog) < MaxScanAppends
  /\ ~(scan.kind = "keys" /\ scan.at = "reading")
  /\ topicLog' = Append(topicLog, [key |-> k, dead |-> dead, gone |-> FALSE])
  /\ active' \in {active, Len(topicLog) + 1}
  /\ UNCHANGED scan

\* A tombstone outlives any one scan (delete.retention.ms).
CompactRecord(o) ==
  /\ o \in Held /\ o < active
  /\ \/ \E p \in Held : p > o /\ topicLog[p].key = topicLog[o].key
     \/ /\ topicLog[o].dead /\ scan.at # "reading"
        /\ ~\E p \in Held : p < o /\ topicLog[p].key = topicLog[o].key
  /\ topicLog' = [topicLog EXCEPT ![o].gone = TRUE]
  /\ UNCHANGED <<active, scan>>

-----------------------------------------------------------------------------
(* The reader. *)

\* Start and end offsets are listed; an empty topic is not waited on.
BeginScan(kind) ==
  /\ scan.at = "idle"
  /\ scan' = [NoScan EXCEPT !.kind = kind, !.end = Len(topicLog) + 1,
                            !.at = IF topicLog = <<>> THEN "done" ELSE "reading"]
  /\ UNCHANGED <<topicLog, active>>

\* fn, on a record: the newest of its key so far, or nothing for a tombstone.
NewestOf(S, k) ==
  LET of == {o \in S : topicLog[o].key = k} IN
  IF of = {} THEN 0 ELSE CHOOSE o \in of : \A p \in of : p <= o

Folded(S) ==
  [k \in ScanKeys |->
    LET o == NewestOf(S, k) IN
    IF o = 0 THEN scan.got[k] ELSE IF topicLog[o].dead THEN 0 ELSE o]

\* Replay and scan: the last record fetched reaches the captured end, whatever
\* gaps compaction left below it.
ReplayCompleteAtOnce(last) == TRUE
ReplayCompleteBelowEnd(last) == last + 1 = scan.end
ReplayComplete(last) == last + 1 >= scan.end

\* TopicKeys waits for the very record below the end.
KeysComplete(batch) == scan.end - 1 \in batch

Complete(batch, last) ==
  IF scan.kind = "keys" THEN KeysComplete(batch) ELSE ReplayComplete(last)

\* PollFetches: some of the records that are there, in order; those at and past
\* the end are not ours.
Polls ==
  /\ scan.at = "reading"
  /\ \E last \in {o \in Held : o >= scan.pos} :
       LET batch == {o \in Held : scan.pos <= o /\ o <= last} IN
       scan' = [scan EXCEPT !.pos = last + 1,
                            !.got = Folded({o \in batch : o < scan.end}),
                            !.at = IF Complete(batch, last) THEN "done" ELSE @]
  /\ UNCHANGED <<topicLog, active>>

\* A poll that fails is the caller's to report; nothing read is used.
PollFails ==
  /\ scan.at = "reading"
  /\ scan' = [NoScan EXCEPT !.kind = scan.kind, !.at = "failed"]
  /\ UNCHANGED <<topicLog, active>>

-----------------------------------------------------------------------------
ScanInit == topicLog = <<>> /\ active = 1 /\ scan = NoScan

ScanNext ==
  \/ \E k \in ScanKeys, dead \in BOOLEAN : AppendRecord(k, dead)
  \/ \E o \in ScanOffsets : CompactRecord(o)
  \/ \E kind \in {"replay", "keys"} : BeginScan(kind)
  \/ Polls \/ PollFails

ScanSpec == ScanInit /\ [][ScanNext]_scanVars

-----------------------------------------------------------------------------
(* A finished reader holds, of every key, what was newest when it captured    *)
(* the end, unless that key has been written since: compaction under the      *)
(* reader takes nothing else from it and brings no retired key back.          *)
ScanIsCurrent ==
  scan.at = "done" =>
    \A k \in ScanKeys :
      LET before == {o \in DOMAIN topicLog : o < scan.end /\ topicLog[o].key = k}
          newest == NewestOf(before, k)
      IN \/ scan.got[k] = IF newest = 0 \/ topicLog[newest].dead THEN 0 ELSE newest
         \/ \E o \in DOMAIN topicLog : o >= scan.end /\ topicLog[o].key = k

(* A reader that has begun can always finish: a record that completes it is   *)
(* still there to fetch, although compaction may have taken the one below the *)
(* end.  Nothing else ends the loop: an empty Partition is rarely delivered.  *)
ScanCanFinish ==
  scan.at = "reading" =>
    \E last \in {o \in Held : o >= scan.pos} :
      Complete({o \in Held : scan.pos <= o /\ o <= last}, last)
=============================================================================
