------------------------------- MODULE PlayLogs -------------------------------
(***************************************************************************)
(* The replay engine: `play_logs` runs PlayAzimuthLogs and then            *)
(* PlayNaiveLogs over the ethereum_events table, marking each event in the *)
(* database transaction that holds its effects.  The process may die at    *)
(* any time, and is started again by hand.                                 *)
(*                                                                         *)
(* Events are numbers in the order of the chain (block_number, log_index). *)
(* What the handlers write is the business of Azimuth; here an event is    *)
(* the number of writes it takes, each made inside the open transaction.   *)
(*                                                                         *)
(* Sources: pkg/db/events.go, pkg/db/naive_parser.go, cmd/main.go.         *)
(***************************************************************************)
EXTENDS EventLog

CONSTANTS
    Size,         \* the writes of each event: its query or those of its
                  \* transactions, and its diffs
    NaiveStart,   \* first event at or after the Naive contract's start_block
    Limit,        \* events per transaction in PlayAzimuthLogs (500)
    Poison,       \* events whose handler may be one that panics
    MaxCrashes    \* bound on the times the process is killed

VARIABLES
    stored,       \* the events in the ethereum_events table
    filled,       \* those that have their data
    poison,       \* the events whose handler panics, each time
    processed,    \* those committed with is_processed = 1
    committed,    \* the writes of each event that are committed
    marked,       \* processed, as the open transaction sees it
    view,         \* committed, as the open transaction sees it
    todo,         \* what is left of the last select
    pc,           \* where the process is, "down" when there is none
    crashes

table == <<stored, filled, poison>>
vars  == <<table, processed, committed, marked, view, todo, pc, crashes>>

ASSUME LogAssumption ==
    /\ Size \in [Event -> Nat]
    /\ NaiveStart \in 1..(Last + 1)
    /\ 1..(NaiveStart - 1) \subseteq AzimuthLogs
    /\ Limit \in Nat \ {0}
    /\ Poison \subseteq Event
    /\ MaxCrashes \in Nat

(* A batch whose transaction data was never fetched is an empty one.       *)
Writes(e) == IF e \in filled THEN Size[e] ELSE 0

Unprocessed == stored \ processed

-----------------------------------------------------------------------------

Unplayed == /\ processed = {}
            /\ committed = [e \in Event |-> 0]
            /\ marked = {}
            /\ view = committed
            /\ todo = {}
            /\ pc = "down"
            /\ crashes = 0
            /\ poison \in SUBSET Poison

(* The whole log is there, as get_logs leaves it.                          *)
Init == stored = Event /\ filled = Event /\ Unplayed

database    == <<processed, committed>>
transaction == <<marked, view>>

Start == /\ pc = "down"
         /\ pc' = "azimuth"
         /\ UNCHANGED <<table, database, transaction, todo, crashes>>

(* Mutant: all of L1 before any of L2. *)
SelectAllAzimuth ==
    /\ pc = "azimuth"
    /\ todo' = First(Limit, Unprocessed \cap AzimuthLogs)
    /\ pc' = IF todo' = {} THEN "naive" ELSE "batch"
    /\ UNCHANGED <<table, database, transaction, crashes>>

(* PlayAzimuthLogs: everything before the Naive contract, Limit events in  *)
(* one transaction.                                                        *)
SelectAzimuth ==
    /\ pc = "azimuth"
    /\ todo' = First(Limit, {e \in Unprocessed \cap AzimuthLogs : e < NaiveStart})
    /\ pc' = IF todo' = {} THEN "naive" ELSE "batch"
    /\ UNCHANGED <<table, database, transaction, crashes>>

(* Mutant: the batches without the Azimuth events between them. *)
SelectBatches ==
    /\ pc = "naive"
    /\ todo' = Unprocessed \ AzimuthLogs
    /\ pc' = IF todo' = {} THEN "down" ELSE "next"
    /\ UNCHANGED <<table, database, transaction, crashes>>

(* PlayNaiveLogs: the rest of the table, both contracts interleaved, one   *)
(* transaction for each event.  When nothing is left the command ends.     *)
SelectNaive ==
    /\ pc = "naive"
    /\ todo' = Unprocessed
    /\ pc' = IF todo' = {} THEN "down" ELSE "next"
    /\ UNCHANGED <<table, database, transaction, crashes>>

Begin == /\ pc = "next"
         /\ pc' = IF todo = {} THEN "naive" ELSE "event"
         /\ UNCHANGED <<table, database, transaction, todo, crashes>>

(* The event being played: in "event", the one that is marked leaves todo, *)
(* and the transaction is over.                                            *)
Playing(e) == /\ Least(todo, e)
              /\ \/ pc = "batch"
                 \/ pc = "event" /\ marked = processed

(* Mutant: a write too many. *)
WriteAgain(e) ==
    /\ Playing(e)
    /\ view[e] <= Writes(e)
    /\ view' = [view EXCEPT ![e] = @ + 1]
    /\ UNCHANGED <<table, database, marked, todo, pc, crashes>>

(* One write of an event: its query, a diff, or one of those of an L2      *)
(* transaction of the batch.                                               *)
Write(e) ==
    /\ Playing(e)
    /\ view[e] < Writes(e)
    /\ view' = [view EXCEPT ![e] = @ + 1]
    /\ UNCHANGED <<table, database, marked, todo, pc, crashes>>

(* Mutant: the mark made outside the transaction. *)
MarkOutside(e) ==
    /\ Playing(e)
    /\ e \notin poison
    /\ view[e] = Writes(e)
    /\ marked' = marked \cup {e}
    /\ processed' = processed \cup {e}
    /\ todo' = todo \ {e}
    /\ UNCHANGED <<table, committed, view, pc, crashes>>

MarkProcessed(e) ==
    /\ Playing(e)
    /\ e \notin poison
    /\ view[e] = Writes(e)
    /\ marked' = marked \cup {e}
    /\ todo' = todo \ {e}
    /\ UNCHANGED <<table, database, view, pc, crashes>>

(* Mutant: a commit that does not wait for the end of the slice. *)
CommitEarly ==
    /\ \/ pc = "batch" /\ pc' = "azimuth"
       \/ pc = "event" /\ pc' = "next"
    /\ processed' = marked
    /\ committed' = view
    /\ UNCHANGED <<table, transaction, todo, crashes>>

Commit ==
    /\ \/ pc = "batch" /\ todo = {} /\ pc' = "azimuth"
       \/ pc = "event" /\ marked # processed /\ pc' = "next"
    /\ processed' = marked
    /\ committed' = view
    /\ UNCHANGED <<table, transaction, todo, crashes>>

(* Mutant: the end of the process commits what there is. *)
DieCommitting == /\ pc' = "down"
                 /\ todo' = {}
                 /\ processed' = marked
                 /\ committed' = view
                 /\ UNCHANGED <<table, transaction>>

(* The end of the process rolls back the open transaction.                 *)
Die == /\ pc' = "down"
       /\ todo' = {}
       /\ marked' = processed
       /\ view' = committed
       /\ UNCHANGED <<table, database>>

Crash == /\ pc # "down"
         /\ crashes < MaxCrashes
         /\ crashes' = crashes + 1
         /\ Die

(* A handler panics, before or between its writes.                         *)
Panic(e) == /\ Playing(e)
            /\ e \in poison
            /\ Die
            /\ UNCHANGED crashes

Step == \/ Start
        \/ SelectAzimuth
        \/ SelectNaive
        \/ Begin
        \/ Commit
        \/ \E e \in Event : Write(e) \/ MarkProcessed(e) \/ Panic(e)

Next == Step \/ Crash

Spec == Init /\ [][Next]_vars

(* A process that runs goes on, and somebody starts it again when it ended.*)
FairSpec == Spec /\ WF_vars(Step)

-----------------------------------------------------------------------------

TypeOK == /\ stored \subseteq Event
          /\ filled \subseteq stored
          /\ processed \subseteq stored
          /\ marked \subseteq stored
          /\ committed \in [Event -> Nat]
          /\ view \in [Event -> Nat]
          /\ \A e \in Event : view[e] <= Size[e]
          /\ todo \subseteq stored
          /\ pc \in {"down", "azimuth", "batch", "naive", "next", "event"}
          /\ crashes \in 0..MaxCrashes
          /\ poison \subseteq Poison

Replayed == INSTANCE Replay

(* Whatever dies when, the database holds the effects of a prefix of the   *)
(* log, each event's in full and once, and the prefix only grows: the      *)
(* order of PlayAzimuthLogs and PlayNaiveLogs is the order of the chain,   *)
(* and neither a crash nor a restart loses or repeats an event.            *)
Implements == Replayed!Spec

(* Each write is made on the effects of exactly the events before its own: *)
(* no handler sees a later event, or an earlier one in part.               *)
SeesThePast ==
    \A e \in Event : view[e] > 0 => \A f \in 1..(e - 1) : view[f] = Size[f]

(* The mark and the effects go together, committed or not: is_processed    *)
(* is what keeps a restart from playing an event again.                    *)
MarkedIffPlayed ==
    /\ \A e \in processed : committed[e] = Size[e]
    /\ \A e \in Event \ processed : committed[e] = 0
    /\ \A e \in marked : view[e] = Size[e]
    /\ \A e \in Event \ marked : view[e] > 0 => Playing(e)

(* What can be played: all before the first event that panics, but for the *)
(* events of PlayAzimuthLogs that share their transaction with it.         *)
Playable ==
    {e \in Event : \A p \in poison :
        IF p < NaiveStart THEN e <= ((p - 1) \div Limit) * Limit ELSE e < p}

(* However often the process is killed, the replay ends with all that can  *)
(* be played in the database, and without a panic that is the whole log.   *)
EverythingPlayed == <>[](processed = Playable)
=============================================================================
