------------------------------- MODULE EventLog -------------------------------
(***************************************************************************)
(* The log of the two contracts: its events are numbers in the order of    *)
(* the chain, by block_number and log_index.                               *)
(*                                                                         *)
(* Sources: pkg/db/schema.sql (ethereum_events).                           *)
(***************************************************************************)
EXTENDS Integers, FiniteSets

CONSTANTS
    Last,         \* the log is events 1 to Last
    AzimuthLogs   \* the events of the Azimuth contract; the others are batches

Event == 1..Last

ASSUME EventAssumption == Last \in Nat /\ AzimuthLogs \subseteq Event

Least(S, e) == e \in S /\ \A f \in S : e <= f

(* The first k of the events of S.                                         *)
First(k, S) == {e \in S : Cardinality({f \in S : f < e}) < k}
=============================================================================
