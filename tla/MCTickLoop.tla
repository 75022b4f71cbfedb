------------------------------ MODULE MCTickLoop ------------------------------
(* TickLoop for TLC: the values of the set-valued constants. *)
EXTENDS TickLoop

(* The first record of Partition 1 panics. *)
OnePoison == {<<1, 0>>}

================================================================================
