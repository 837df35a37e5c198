------------------------------- MODULE Lifecycle -------------------------------
(***************************************************************************)
(* What the two commands promise together of an event: get_logs stores it, *)
(* a batch at first bare, then complete with its data; play_logs plays it  *)
(* once, and what was played is never touched again.  A batch played while *)
(* it was bare is lost: that takes a get_logs that failed.                 *)
(*                                                                         *)
(* Sources: README.md (Building database from scratch), the comments of    *)
(* CatchUpNaiveLogs (pkg/scraper/naive.go) and PlayNaiveLogs               *)
(* (pkg/db/naive_parser.go).                                               *)
(***************************************************************************)
CONSTANT Event

VARIABLES
    status,      \* of each event
    failed       \* has a get_logs failed?

Status == {"absent", "bare", "complete", "played", "lost"}

Init == /\ status = [e \in Event |-> "absent"]
        /\ failed = FALSE

Store(e) == /\ status[e] = "absent"
            /\ \E s \in {"bare", "complete"} : status' = [status EXCEPT ![e] = s]
            /\ UNCHANGED failed

Complete(e) == /\ status[e] = "bare"
               /\ status' = [status EXCEPT ![e] = "complete"]
               /\ UNCHANGED failed

(* The events that one transaction marks.                                  *)
Play(S) == /\ \A e \in S : status[e] = "complete" \/ (failed /\ status[e] = "bare")
           /\ status' = [e \in Event |->
                            IF e \notin S THEN status[e]
                            ELSE IF status[e] = "bare" THEN "lost" ELSE "played"]
           /\ UNCHANGED failed

Fail == failed' = TRUE /\ UNCHANGED status

Next == \/ \E e \in Event : Store(e) \/ Complete(e)
        \/ \E S \in SUBSET Event : Play(S)
        \/ Fail

Spec == Init /\ [][Next]_<<status, failed>>
=============================================================================
