------------------------------ MODULE MCPlayLogs ------------------------------
(***************************************************************************)
(* Instances of PlayLogs for TLC: a log of ten events, of which those      *)
(* before 8 are older than the Naive contract and are played in slices of  *)
(* four; 8 and 10 are batches.                                             *)
(***************************************************************************)
EXTENDS PlayLogs

SmallLog     == <<2, 0, 1, 1, 2, 0, 1, 2, 1, 0>>
AzimuthOfLog == (1..7) \cup {9}
=============================================================================
