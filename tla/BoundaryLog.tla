------------------------------ MODULE BoundaryLog ------------------------------
(******************************************************************************)
(* What the rest of the server is promised about the Tick Boundary Records of *)
(* the events topic: the topic holds the boundaries of ticks 1..delivered and *)
(* nothing else, an acknowledgement is only ever reported for a boundary that *)
(* is on it, in tick order, and none is reported once a boundary was lost.    *)
(* BoundarySeq implements this module; TickLoop is built on it.               *)
(******************************************************************************)
EXTENDS Naturals

VARIABLES
  delivered,  \* the topic holds exactly the boundaries of ticks 1..delivered
  acked,      \* the newest boundary this process was told was delivered; 0: none
  lost        \* this process declared a boundary lost and publishes no more

vars == <<delivered, acked, lost>>

Init == delivered = 0 /\ acked = 0 /\ lost = FALSE

(* One more boundary lands.  It may land after the loss was declared: a write *)
(* that went unanswered for the delivery timeout can still have happened.     *)
Deliver == delivered' = delivered + 1 /\ UNCHANGED <<acked, lost>>

(* The newest delivered boundary known advances; never after a loss. *)
Ack ==
  /\ ~lost
  /\ acked' \in (acked + 1) .. delivered
  /\ UNCHANGED <<delivered, lost>>

Lose == lost' = TRUE /\ UNCHANGED <<delivered, acked>>

(* A new process starts with no acknowledgement and no loss of its own. *)
Restart == acked' = 0 /\ lost' = FALSE /\ UNCHANGED delivered

Next == Deliver \/ Ack \/ Lose \/ Restart

Spec == Init /\ [][Next]_vars

================================================================================
