------------------------------- MODULE Commands -------------------------------
(***************************************************************************)
(* The commands on one database: get_logs and play_logs, which write it,   *)
(* run by hand one at a time, in any order and as often as one likes,      *)
(* while the chain grows and either may die; and a query, which only opens *)
(* it, at any time.  Each makes the database if there is none.  They meet  *)
(* in the ethereum_events table: what one get_logs left is what the next   *)
(* play_logs plays.                                                        *)
(*                                                                         *)
(* The program calls get_logs catch_up_logs; its README, and the modules   *)
(* here, get_logs.                                                         *)
(*                                                                         *)
(* Sources: cmd/main.go.                                                   *)
(***************************************************************************)
EXTENDS EventLog, FiniteSetsExt

CONSTANTS
    BlockOf, TxOf, StartBlock, StartHeight, MaxHeight, Chunk, Few, MaxRounds,
    RpcBatch, NodeErrors, MaxDeaths,
    Size, Limit, Poison, MaxCrashes,
    MaxKills

VARIABLES
    stored, filled,
    fetched, height, at, latest, from, to, batch_size, round, got, parsed_logs,
    asked, txs, busy, deaths, failed,
    processed, committed, marked, view, todo, pc, crashes, poison,
    file, made, handle, next, kills

scraper == <<fetched, height, at, latest, from, to, batch_size, round, got,
             parsed_logs, asked, txs, busy, deaths, failed>>
player  == <<processed, committed, marked, view, todo, pc, crashes, poison>>
opening == <<file, made, handle, next, kills>>
vars    == <<stored, filled, scraper, player, opening>>

ASSUME KillsAssumption == MaxKills \in Nat

(* What the select of PlayAzimuthLogs compares with: Naive's start_block.  *)
NaiveStart ==
    Min({e \in Event : BlockOf[e] >= StartBlock["naive"]} \cup {Last + 1})

Get  == INSTANCE CatchUp
Play == INSTANCE PlayLogs
Db   == INSTANCE Database WITH Process <- {"get_logs", "play_logs", "query"}

Init == Get!Init /\ Play!Unplayed /\ Db!DbInit

-----------------------------------------------------------------------------

(* One of the two that write at a time.                                    *)
Alone(p) == CASE p = "get_logs"  -> handle["play_logs"] = "none"
              [] p = "play_logs" -> handle["get_logs"] = "none"
              [] OTHER           -> TRUE

OpenDatabase(p) == /\ Alone(p)
                   /\ Db!Open(p)
                   /\ UNCHANGED <<stored, filled, scraper, player>>

(* The DB of a process is gone with it.                                    *)
Ends(p) == handle' = [handle EXCEPT ![p] = "none"]

Has(s) == made[s] > 0

(* GetContractByName, and the insert with its foreign key.                 *)
GetHasTables ==
    /\ Has("contract_rows")
    /\ got # {} => Has("event_type_rows") /\ Has("ethereum_events")

GetLogs == /\ handle["get_logs"] = "open"
           /\ GetHasTables
           /\ Get!GetLogs \/ Get!Run \/ Get!Die
           /\ IF at' = "down" THEN Ends("get_logs") ELSE UNCHANGED handle
           /\ UNCHANGED <<player, file, made, next, kills>>

(* The first statement on a table that is not there panics.                *)
NoTables == /\ handle["get_logs"] = "open"
            /\ ~GetHasTables
            /\ Get!Stop
            /\ failed' = TRUE
            /\ Ends("get_logs")
            /\ UNCHANGED <<stored, filled, fetched, height, busy, deaths,
                           player, file, made, next, kills>>

PlayLogs == /\ handle["play_logs"] = "open"
            /\ IF Has("ethereum_events")
               THEN Play!Next /\ UNCHANGED <<stored, filled, scraper>>
               ELSE UNCHANGED <<stored, filled, scraper, player>>
            /\ IF pc' = "down" THEN Ends("play_logs") ELSE UNCHANGED handle
            /\ UNCHANGED <<file, made, next, kills>>

Query == /\ handle["query"] = "open"
         /\ Ends("query")
         /\ UNCHANGED <<stored, filled, scraper, player, file, made, next, kills>>

(* The chain and the node.                                                 *)
Outside == /\ Get!Mine \/ Get!Overload \/ Get!Recover
           /\ UNCHANGED <<player, opening>>

Next == \/ \E p \in {"get_logs", "play_logs", "query"} : OpenDatabase(p)
        \/ GetLogs
        \/ NoTables
        \/ PlayLogs
        \/ Query
        \/ Outside

Spec == Init /\ [][Next]_vars

-----------------------------------------------------------------------------

(* What is marked is what was played, once, from the row as it now is: no  *)
(* later get_logs stores or fills an event that has been played already.   *)
PlayedAsStored ==
    \A e \in Event :
       committed[e] = IF e \in processed THEN Play!Writes(e) ELSE 0

(* Where an event is on its way from the chain into the points table.      *)
Status(e) == IF e \in processed THEN IF e \in filled THEN "played" ELSE "lost"
             ELSE IF e \in filled THEN "complete"
             ELSE IF e \in stored THEN "bare"
             ELSE "absent"

Lives == INSTANCE Lifecycle WITH status <- [e \in Event |-> Status(e)]

(* The commands keep the lifecycle of the events: whichever runs and dies  *)
(* when, no event goes back, is played twice or filled after it was        *)
(* played.                                                                 *)
KeepsLifecycle == Lives!Spec

(* Of the commands that open it at once, one makes the database.           *)
SchemaOnce == Db!SchemaOnce

-----------------------------------------------------------------------------

(* events.go:128, "L1 and L2 txs actually do have to be processed          *)
(* in-order".  Also when no get_logs failed, they are not.                 *)
InOrder ==
    [][~failed => \A e \in processed' \ processed, f \in processed : f < e]_processed
=============================================================================
