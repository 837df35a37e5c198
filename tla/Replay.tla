-------------------------------- MODULE Replay --------------------------------
(***************************************************************************)
(* What a replay promises: the tables hold the effects of a prefix of the  *)
(* chain's log, each event's in full and once, and the prefix only grows.  *)
(*                                                                         *)
(* Sources: the comments of PlayAzimuthLogs (pkg/db/events.go) and         *)
(* PlayNaiveLogs (pkg/db/naive_parser.go).                                 *)
(***************************************************************************)
EXTENDS Integers

CONSTANTS
    Last,      \* the log is events 1 to Last, in the order of the chain
    Size       \* the database writes that playing an event takes

VARIABLE committed    \* the writes of each event that are in the database

Event == 1..Last

(* The database after exactly the first k events.                          *)
Upto(k) == [e \in Event |-> IF e <= k THEN Size[e] ELSE 0]

Init == committed = Upto(0)

Advance == \E j \in 0..Last : \E k \in j..Last :
              committed = Upto(j) /\ committed' = Upto(k)

Spec == Init /\ [][Advance]_committed
=============================================================================
