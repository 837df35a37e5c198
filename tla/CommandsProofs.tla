----------------------------- MODULE CommandsProofs -----------------------------
(***************************************************************************)
(* The commands on one database, for any log, any chain, any errors of the *)
(* node and any deaths: the schema is made once, what is marked was played *)
(* once and from the row as it stays, and the commands keep the Lifecycle  *)
(* of the events.                                                          *)
(***************************************************************************)
EXTENDS Commands, Least, Sequences, TLAPS

Processes == {"get_logs", "play_logs", "query"}
Handles   == {"none", "connect", "create", "open"}

(* A process that has not got a DB yet, or no longer, does nothing; of the *)
(* two that write one runs at a time.                                      *)
OneWriter ==
    /\ handle \in [Processes -> Handles]
    /\ handle["get_logs"] = "none" \/ handle["play_logs"] = "none"
    /\ at # "down" => handle["get_logs"] = "open"
    /\ pc # "down" => handle["play_logs"] = "open"

(* The first m statements of the schema are executed, and a process that   *)
(* makes it is at the first, or is the one that is at the next.            *)
MadeUpto(m) ==
    /\ m \in 0..12
    /\ \A j \in 1..12 : made[Db!sql_schema[j]] = IF j <= m THEN 1 ELSE 0
    /\ \A p \in Processes :
          /\ next[p] \in 0..12
          /\ next[p] > 0 => handle[p] = "create" /\ file
          /\ next[p] \in {0, 1, m + 1}
    /\ \A p, q \in Processes : next[p] = m + 1 /\ next[q] = m + 1 /\ m > 0 => p = q
    /\ ~file => m = 0
    /\ \/ m = 12
       \/ ~file
       \/ \E p \in Processes : next[p] = m + 1
       \/ kills > 0

Made == /\ made \in [Db!Statement -> Nat]
        /\ kills \in Nat
        /\ file \in BOOLEAN
        /\ next \in [Processes -> Nat]
        /\ \E m \in 0..12 : MadeUpto(m)

(* What the scraper still holds was stored by this run, so that it is not  *)
(* played yet.                                                             *)
Fresh ==
    /\ stored \subseteq Event
    /\ filled \subseteq stored
    /\ stored \cap AzimuthLogs \subseteq filled
    /\ processed \subseteq stored
    /\ got \subseteq Event
    /\ parsed_logs \cup asked \subseteq stored \ AzimuthLogs
    /\ txs \subseteq asked
    /\ (parsed_logs \cup asked) \cap processed = {}
    /\ at = "down" => got = {} /\ parsed_logs = {} /\ asked = {} /\ txs = {}
    /\ failed \in BOOLEAN

(* No batch is without data but those whose transactions are still to be   *)
(* asked for, when no get_logs has failed.                                 *)
Bare == ~failed => /\ stored \ filled \subseteq parsed_logs \cup txs
                   /\ at \in {"request", "save-naive", "azimuth", "save-azimuth"} => txs = {}

(* The transaction of a play_logs: what is marked in it is played, and     *)
(* what is not is untouched, but for the event that is being played.       *)
Played ==
    /\ view \in [Event -> Nat] /\ committed \in [Event -> Nat]
    /\ marked \subseteq stored /\ processed \subseteq marked
    /\ todo \subseteq stored \ marked
    /\ \A e \in marked : view[e] = Play!Writes(e)
    /\ \A e \in Event \ marked : view[e] > 0 => Play!Playing(e)
    /\ \A e \in Event : committed[e] = IF e \in processed THEN Play!Writes(e) ELSE 0
    /\ pc \in {"down", "azimuth", "naive", "next"} => marked = processed
    /\ pc = "down" => todo = {}

DataInv == OneWriter /\ Fresh /\ Played

-----------------------------------------------------------------------------
(* The schema.                                                             *)

LEMMA Statements ==
    /\ Db!sql_schema[1] # "version"
    /\ Len(Db!sql_schema) = 12
    /\ DOMAIN Db!sql_schema = 1..12
    /\ \A j \in 1..12 : Db!sql_schema[j] \in Db!Statement
    /\ \A j, k \in 1..12 : Db!sql_schema[j] = Db!sql_schema[k] => j = k
    /\ \A s \in Db!Statement : \E j \in 1..12 : s = Db!sql_schema[j]
<1>1. Len(Db!sql_schema) = 12 /\ DOMAIN Db!sql_schema = 1..12
  BY DEF Db!sql_schema
<1>2. \A j, k \in 1..12 : Db!sql_schema[j] = Db!sql_schema[k] => j = k
  BY DEF Db!sql_schema
<1>3. Db!sql_schema[1] # "version"
  BY DEF Db!sql_schema
<1> QED
  BY <1>1, <1>2, <1>3 DEF Db!Statement

(* A step that at most ends a process that has its DB.                     *)
LEMMA MadeKept ==
    ASSUME Made, UNCHANGED <<file, made, next, kills>>,
           handle \in [Processes -> Handles],
           \/ UNCHANGED handle
           \/ \E p \in Processes : handle[p] = "open" /\ Ends(p)
    PROVE  Made'
<1>1. \A p \in Processes : handle[p] = "create" => handle'[p] = "create"
  BY DEF Ends
<1>2. PICK m \in 0..12 : MadeUpto(m)
  BY DEF Made
<1>3. MadeUpto(m)'
  BY <1>1, <1>2 DEF MadeUpto
<1> QED
  BY <1>3 DEF Made

LEMMA MadeInit == Init => Made /\ handle \in [Processes -> Handles]
<1> SUFFICES ASSUME Init PROVE Made /\ handle \in [Processes -> Handles]
  OBVIOUS
<1>1. MadeUpto(0)
  BY Statements DEF Init, Db!DbInit, MadeUpto, Processes
<1>2. handle \in [Processes -> Handles]
  BY DEF Init, Db!DbInit, Processes, Handles
<1>3. /\ made \in [Db!Statement -> Nat] /\ next \in [Processes -> Nat]
      /\ kills \in Nat /\ file \in BOOLEAN
  BY DEF Init, Db!DbInit, Processes
<1> QED
  BY <1>1, <1>2, <1>3 DEF Made

LEMMA MadeOpen ==
    ASSUME Made, handle \in [Processes -> Handles],
           NEW p \in Processes, Db!Open(p)
    PROVE  Made'
<1>1. PICK m \in 0..12 : MadeUpto(m)
  BY DEF Made
<1>2. CASE Db!DBCreate(p)
  <2>1. \A q \in Processes : handle[q] = "create" => handle'[q] = "create"
    BY <1>2 DEF Db!DBCreate
  <2>2. MadeUpto(m)'
    BY <1>1, <1>2, <2>1 DEF Db!DBCreate, MadeUpto
  <2> QED
    BY <1>2, <2>2 DEF Db!DBCreate, Made
<1>3. CASE Db!MustOpen(p)
  <2>1. MadeUpto(m)'
    BY <1>1, <1>3 DEF Db!MustOpen, MadeUpto, Made
  <2> QED
    BY <1>3, <2>1 DEF Db!MustOpen, Made
<1>4. CASE Db!MustExec(p)
  <2> DEFINE k == next[p]
             s == Db!sql_schema[k]
  <2>1. /\ k \in {1, m + 1} /\ k \in 1..12
        /\ file /\ handle[p] = "create"
        /\ UNCHANGED <<file, kills>>
    BY <1>1, <1>4 DEF Db!MustExec, MadeUpto
  <2>2. CASE k = m + 1
    <3>1. ~(made[s] > 0)
      BY <1>1, <2>1, <2>2 DEF MadeUpto
    <3>2. /\ made' = [made EXCEPT ![s] = @ + 1]
          /\ IF k < 12
             THEN next' = [next EXCEPT ![p] = @ + 1] /\ UNCHANGED handle
             ELSE /\ next' = [next EXCEPT ![p] = 0]
                  /\ handle' = [handle EXCEPT ![p] = "open"]
      BY <1>4, <3>1, Statements, Zenon DEF Db!MustExec
    <3>3. \A j \in 1..12 : made'[Db!sql_schema[j]] = IF j <= m + 1 THEN 1 ELSE 0
      BY <1>1, <2>1, <2>2, <3>2, Statements DEF MadeUpto, Made
    <3>4. \A q \in Processes : q # p => next[q] \in {0, 1} /\ (m > 0 => next[q] # m + 1)
      BY <1>1, <2>2 DEF MadeUpto
    <3>5. MadeUpto(m + 1)'
      BY <1>1, <2>1, <2>2, <3>2, <3>3, <3>4 DEF MadeUpto, Made
    <3>6. made' \in [Db!Statement -> Nat] /\ next' \in [Processes -> Nat]
      BY <3>2, <2>1, Statements DEF Made
    <3>7. m + 1 \in 0..12
      BY <2>1, <2>2
    <3> QED
      BY <2>1, <3>5, <3>6, <3>7 DEF Made
  <2>3. CASE k # m + 1
    <3>1. made[s] > 0 /\ s # "version"
      BY <1>1, <2>1, <2>3, Statements DEF MadeUpto
    <3>2. Db!End(p) /\ UNCHANGED made
      BY <1>4, <3>1 DEF Db!MustExec
    <3>3. MadeUpto(m)'
      BY <1>1, <2>1, <2>3, <3>2 DEF MadeUpto, Made, Db!End
    <3> QED
      BY <2>1, <3>2, <3>3 DEF Made, Db!End
  <2> QED
    BY <2>2, <2>3
<1>5. CASE Db!DBConnect(p)
  <2>1. UNCHANGED <<file, made, kills>> /\ UNCHANGED next
    BY <1>1, <1>5 DEF Db!DBConnect, Db!End, MadeUpto, Made
  <2>2. \A q \in Processes : handle[q] = "create" => handle'[q] = "create"
    BY <1>5 DEF Db!DBConnect, Db!End
  <2>3. MadeUpto(m)'
    BY <1>1, <2>1, <2>2 DEF MadeUpto
  <2> QED
    BY <2>1, <2>3 DEF Made
<1>6. CASE Db!Kill(p)
  <2>1. MadeUpto(m)'
    BY <1>1, <1>6 DEF Db!Kill, Db!End, MadeUpto, Made
  <2> QED
    BY <1>6, <2>1 DEF Db!Kill, Db!End, Made
<1> QED
  BY <1>2, <1>3, <1>4, <1>5, <1>6 DEF Db!Open

LEMMA HandlesOpen ==
    ASSUME handle \in [Processes -> Handles], NEW p \in Processes, Db!Open(p)
    PROVE  /\ handle' \in [Processes -> Handles]
           /\ \A q \in Processes : q # p => handle'[q] = handle[q]
           /\ handle[p] # "open"
BY DEF Db!Open, Db!DBCreate, Db!MustOpen, Db!MustExec, Db!DBConnect, Db!Kill, Db!End,
       Handles

(* What each kind of step leaves to the others.                            *)
LEMMA StepOfOne ==
    ASSUME OneWriter, [Next]_vars
    PROVE  /\ OneWriter'
           /\ \/ /\ \E p \in Processes : Db!Open(p)
                 /\ UNCHANGED <<stored, filled, scraper, player>>
              \/ /\ UNCHANGED <<file, made, next, kills>>
                 /\ \/ UNCHANGED handle
                    \/ \E p \in Processes : handle[p] = "open" /\ Ends(p)
<1>1. CASE \E p \in Processes : OpenDatabase(p)
  <2>1. PICK p \in Processes : OpenDatabase(p)
    BY <1>1
  <2>2. Db!Open(p) /\ Alone(p) /\ UNCHANGED <<stored, filled, scraper, player>>
    BY <2>1 DEF OpenDatabase
  <2>3. /\ handle' \in [Processes -> Handles]
        /\ \A q \in Processes : q # p => handle'[q] = handle[q]
        /\ handle[p] # "open"
    BY <2>2, HandlesOpen DEF OneWriter
  <2>4. at' = at /\ pc' = pc
    BY <2>2 DEF scraper, player
  <2>5. OneWriter'
    BY <2>2, <2>3, <2>4 DEF OneWriter, Alone, Processes
  <2> QED
    BY <2>2, <2>5
<1>2. CASE GetLogs
  <2>1. /\ handle["get_logs"] = "open"
        /\ IF at' = "down" THEN Ends("get_logs") ELSE UNCHANGED handle
        /\ UNCHANGED <<file, made, next, kills>> /\ pc' = pc
    BY <1>2 DEF GetLogs, player
  <2> QED
    BY <2>1 DEF OneWriter, Ends, Processes, Handles
<1>3. CASE NoTables
  <2>1. /\ handle["get_logs"] = "open" /\ Ends("get_logs")
        /\ UNCHANGED <<file, made, next, kills>> /\ pc' = pc /\ at' = "down"
    BY <1>3 DEF NoTables, player, Get!Stop
  <2> QED
    BY <2>1 DEF OneWriter, Ends, Processes, Handles
<1>4. CASE PlayLogs
  <2>1. /\ handle["play_logs"] = "open"
        /\ IF pc' = "down" THEN Ends("play_logs") ELSE UNCHANGED handle
        /\ UNCHANGED <<file, made, next, kills>> /\ at' = at
    BY <1>4 DEF PlayLogs, scraper
  <2> QED
    BY <2>1 DEF OneWriter, Ends, Processes, Handles
<1>5. CASE Query
  <2>1. /\ handle["query"] = "open" /\ Ends("query")
        /\ UNCHANGED <<file, made, next, kills>> /\ at' = at /\ pc' = pc
    BY <1>5 DEF Query, scraper, player
  <2> QED
    BY <2>1 DEF OneWriter, Ends, Processes, Handles
<1>6. CASE Outside
  <2>1. UNCHANGED opening /\ at' = at /\ pc' = pc
    BY <1>6 DEF Outside, player, Get!Mine, Get!Overload, Get!Recover
  <2> QED
    BY <2>1 DEF OneWriter, opening
<1>7. CASE UNCHANGED vars
  BY <1>7 DEF vars, scraper, player, opening, OneWriter
<1> QED
  BY <1>1, <1>2, <1>3, <1>4, <1>5, <1>6, <1>7 DEF Next, Processes

LEMMA OneWriterInit == Init => OneWriter
<1> SUFFICES ASSUME Init PROVE OneWriter
  OBVIOUS
<1>1. handle = [p \in Processes |-> "none"] /\ at = "down" /\ pc = "down"
  BY DEF Init, Db!DbInit, Get!Init, Play!Unplayed, Processes
<1> QED
  BY <1>1 DEF OneWriter, Processes, Handles

LEMMA MadeStep ==
    ASSUME OneWriter, Made, [Next]_vars
    PROVE  Made'
<1>1. handle \in [Processes -> Handles]
  BY DEF OneWriter
<1> QED
  BY <1>1, StepOfOne, MadeOpen, MadeKept

(* Of the commands that find no database, one makes the schema, once       *)
(* (DBCreate, db_connect.go:32): a part of it is left only by a kill.      *)
THEOREM OneSchema == Spec => []SchemaOnce
<1>1. Init => OneWriter /\ Made
  BY OneWriterInit, MadeInit
<1>2. OneWriter /\ Made /\ [Next]_vars => (OneWriter /\ Made)'
  BY StepOfOne, MadeStep
<1>3. Made => SchemaOnce
  <2> SUFFICES ASSUME Made PROVE SchemaOnce
    OBVIOUS
  <2>1. PICK m \in 0..12 : MadeUpto(m)
    BY DEF Made
  <2>2. \A s \in Db!Statement : made[s] <= 1
    BY <2>1, Statements DEF MadeUpto
  <2>3. m = 12 => \A s \in Db!Statement : made[s] = 1
    BY <2>1, Statements DEF MadeUpto
  <2>4. (\E p \in Processes : next[p] = m + 1)
           => \E p \in Processes : handle[p] = "create" /\ next[p] > 0
    BY <2>1 DEF MadeUpto
  <2> QED
    BY <2>1, <2>2, <2>3, <2>4 DEF MadeUpto, SchemaOnce, Db!SchemaOnce, Processes
<1> QED
  BY <1>1, <1>2, <1>3, PTL DEF Spec

-----------------------------------------------------------------------------
(* The scraper.                                                            *)

LEMMA GreatestOf ==
    ASSUME NEW T, T \subseteq Event, T # {}
    PROVE  Get!Max(T) \in T /\ \A e \in T : e <= Get!Max(T)
<1>1. T \subseteq 0..Last /\ Last \in Nat
  BY EventAssumption DEF Event
<1>2. PICK m \in T : \A e \in T : e <= m
  BY <1>1, GreatestUpTo
<1> QED
  BY <1>2 DEF Get!Max

(* The log that an answer is for is one that was asked for.                *)
LEMMA LogOfAsked ==
    ASSUME Fresh, NEW e \in asked
    PROVE  Get!LogOf(e) \in asked
<1> DEFINE T == {f \in asked : TxOf[f] = TxOf[e]}
<1>1. e \in T /\ T \subseteq Event
  BY DEF Fresh
<1>2. Get!Max(T) \in T
  BY <1>1, GreatestOf, Zenon
<1> QED
  BY <1>2 DEF Get!LogOf

LEMMA FreshRun ==
    ASSUME Fresh, Get!GetLogs \/ Get!Run \/ Get!Die,
           UNCHANGED processed
    PROVE  Fresh'
<1>1. UNCHANGED processed
  OBVIOUS
<1>2. CASE Get!GetLogs
  BY <1>1, <1>2 DEF Fresh, Get!GetLogs, Get!tables, Get!ranges, Get!lists, Get!outside, Get!ends
<1>3. CASE Get!FilterLogs
  <2>1. got' \subseteq Event
    BY <1>3, EventAssumption DEF Get!FilterLogs, Get!LogsBetween, Get!Event, Event
  <2> QED
    BY <1>1, <1>3, <2>1 DEF Fresh, Get!FilterLogs, Get!tables, Get!outside, Get!ends
<1>4. CASE Get!Unavailable
  BY <1>1, <1>4 DEF Fresh, Get!Unavailable, Get!tables, Get!ranges, Get!lists, Get!outside, Get!ends
<1>5. CASE Get!Fatal
  BY <1>1, <1>5 DEF Fresh, Get!Fatal, Get!Stop, Get!tables, Get!ranges, Get!lists, Get!outside, Get!ends
<1>6. CASE \E r \in 0..(2 * MaxHeight) : Get!TooManyResults(r)
  BY <1>1, <1>6 DEF Fresh, Get!TooManyResults, Get!tables, Get!ranges, Get!lists, Get!outside, Get!ends
<1>7. CASE \E e \in Event : Get!SaveEvent(e)
  BY <1>1, <1>7 DEF Fresh, Get!SaveEvent, Get!Least, Get!Stop, Get!tables, Get!ranges, Get!lists, Get!outside, Get!ends
<1>8. CASE \E e \in Event : Get!SmuggleData(e)
  <2>1. PICK e \in Event : Get!SmuggleData(e)
    BY <1>8
  <2>2. Get!LogOf(e) \in asked
    BY <2>1, LogOfAsked DEF Fresh, Get!SmuggleData, Get!Least
  <2> QED
    BY <1>1, <2>1, <2>2 DEF Fresh, Get!SmuggleData, Get!ranges, Get!ends, Get!outside
<1>9. CASE Get!NextRange
  BY <1>1, <1>9 DEF Fresh, Get!NextRange, Get!tables, Get!ranges, Get!lists, Get!outside, Get!ends
<1>10. CASE Get!CatchUpNaive
  <2>1. got' \subseteq Event
    BY <1>10, EventAssumption DEF Get!CatchUpNaive, Get!LogsBetween, Get!Event, Event
  <2> QED
    BY <1>1, <1>10, <2>1 DEF Fresh, Get!CatchUpNaive, Get!tables, Get!outside, Get!ends
<1>11. CASE Get!GetTransactionData
  BY <1>1, <1>11 DEF Fresh, Get!GetTransactionData, Get!tables, Get!ranges, Get!lists, Get!outside, Get!ends
<1>12. CASE Get!BatchCall
  BY <1>1, <1>12 DEF Fresh, Get!BatchCall, Get!First, Get!tables, Get!ranges, Get!lists, Get!outside, Get!ends
<1>13. CASE Get!RetryElement
  BY <1>1, <1>13 DEF Fresh, Get!RetryElement, Get!vars, Get!tables, Get!ranges, Get!lists, Get!outside, Get!ends
<1>14. CASE Get!NextRequest
  BY <1>1, <1>14 DEF Fresh, Get!NextRequest, Get!tables, Get!ranges, Get!lists, Get!outside, Get!ends
<1>15. CASE Get!Done
  BY <1>1, <1>15 DEF Fresh, Get!Done, Get!Stop, Get!tables, Get!ranges, Get!lists, Get!outside, Get!ends
<1>16. CASE Get!Die
  BY <1>1, <1>16 DEF Fresh, Get!Die, Get!Stop, Get!tables, Get!ranges, Get!lists, Get!outside, Get!ends
<1> QED
  BY <1>2, <1>3, <1>4, <1>5, <1>6, <1>7, <1>8, <1>9, <1>10, <1>11, <1>12, <1>13, <1>14, <1>15, <1>16 DEF Get!Run, Get!Event, Event

(* What a step of get_logs writes: nothing, a new event, or the data of a  *)
(* batch that was asked for.                                               *)
LEMMA RunWrites ==
    ASSUME Fresh, Get!GetLogs \/ Get!Run \/ Get!Die
    PROVE  \/ UNCHANGED <<stored, filled>> /\ failed' \in {failed, TRUE}
           \/ \E e \in Event \ stored :
                 /\ stored' = stored \cup {e}
                 /\ filled' \in {filled, filled \cup {e}}
                 /\ failed' = failed
           \/ \E e \in asked :
                 /\ stored' = stored
                 /\ filled' = filled \cup {e}
                 /\ failed' = failed
<1>2. CASE Get!GetLogs
  BY <1>2 DEF Get!GetLogs, Get!tables, Get!ranges, Get!lists, Get!outside, Get!ends
<1>3. CASE Get!FilterLogs
  BY <1>3 DEF Get!FilterLogs, Get!tables, Get!ranges, Get!lists, Get!outside, Get!ends
<1>4. CASE Get!Unavailable
  BY <1>4 DEF Get!Unavailable, Get!tables, Get!ranges, Get!lists, Get!outside, Get!ends
<1>5. CASE Get!Fatal
  BY <1>5 DEF Get!Fatal, Get!Stop, Get!tables, Get!ranges, Get!lists, Get!outside, Get!ends
<1>6. CASE \E r \in 0..(2 * MaxHeight) : Get!TooManyResults(r)
  BY <1>6 DEF Get!TooManyResults, Get!tables, Get!ranges, Get!lists, Get!outside, Get!ends
<1>7. CASE \E e \in Event : Get!SaveEvent(e)
  BY <1>7 DEF Get!SaveEvent, Get!Least, Get!Stop, Get!tables, Get!ranges, Get!lists, Get!outside, Get!ends
<1>8. CASE \E e \in Event : Get!SmuggleData(e)
  <2>1. PICK e \in Event : Get!SmuggleData(e)
    BY <1>8
  <2>2. Get!LogOf(e) \in asked
    BY <2>1, LogOfAsked DEF Fresh, Get!SmuggleData, Get!Least
  <2> QED
    BY <2>1, <2>2 DEF Get!SmuggleData, Get!ends
<1>9. CASE Get!NextRange
  BY <1>9 DEF Get!NextRange, Get!tables, Get!ranges, Get!lists, Get!outside, Get!ends
<1>10. CASE Get!CatchUpNaive
  BY <1>10 DEF Get!CatchUpNaive, Get!tables, Get!ranges, Get!lists, Get!outside, Get!ends
<1>11. CASE Get!GetTransactionData
  BY <1>11 DEF Get!GetTransactionData, Get!tables, Get!ranges, Get!lists, Get!outside, Get!ends
<1>12. CASE Get!BatchCall
  BY <1>12 DEF Get!BatchCall, Get!First, Get!tables, Get!ranges, Get!lists, Get!outside, Get!ends
<1>13. CASE Get!RetryElement
  BY <1>13 DEF Get!RetryElement, Get!vars, Get!tables, Get!ranges, Get!lists, Get!outside, Get!ends
<1>14. CASE Get!NextRequest
  BY <1>14 DEF Get!NextRequest, Get!tables, Get!ranges, Get!lists, Get!outside, Get!ends
<1>15. CASE Get!Done
  BY <1>15 DEF Get!Done, Get!Stop, Get!tables, Get!ranges, Get!lists, Get!outside, Get!ends
<1>16. CASE Get!Die
  BY <1>16 DEF Get!Die, Get!Stop, Get!tables, Get!ranges, Get!lists, Get!outside, Get!ends
<1> QED
  BY <1>2, <1>3, <1>4, <1>5, <1>6, <1>7, <1>8, <1>9, <1>10, <1>11, <1>12, <1>13, <1>14, <1>15, <1>16 DEF Get!Run, Get!Event, Event

(* Each batch is in a transaction of its own.                              *)
OwnTransactions ==
    \A e, f \in Event \ AzimuthLogs : TxOf[e] = TxOf[f] => e = f

LEMMA BareRun ==
    ASSUME OwnTransactions, Fresh, Bare, Get!GetLogs \/ Get!Run \/ Get!Die
    PROVE  Bare'
<1>2. CASE Get!GetLogs
  BY <1>2 DEF Bare, Fresh, Get!GetLogs, Get!tables, Get!ranges, Get!lists, Get!outside, Get!ends
<1>3. CASE Get!FilterLogs
  BY <1>3 DEF Bare, Fresh, Get!FilterLogs, Get!Looping, Get!tables, Get!ranges, Get!lists, Get!outside, Get!ends
<1>4. CASE Get!Unavailable
  BY <1>4 DEF Bare, Fresh, Get!Unavailable, Get!tables, Get!ranges, Get!lists, Get!outside, Get!ends
<1>5. CASE Get!Fatal
  BY <1>5 DEF Bare, Fresh, Get!Fatal, Get!Stop, Get!tables, Get!ranges, Get!lists, Get!outside, Get!ends
<1>6. CASE \E r \in 0..(2 * MaxHeight) : Get!TooManyResults(r)
  BY <1>6 DEF Bare, Fresh, Get!TooManyResults, Get!tables, Get!ranges, Get!lists, Get!outside, Get!ends
<1>7. CASE \E e \in Event : Get!SaveEvent(e)
  BY <1>7 DEF Bare, Fresh, Get!SaveEvent, Get!Least, Get!Stop, Get!tables, Get!ranges, Get!lists, Get!outside, Get!ends
<1>8. CASE \E e \in Event : Get!SmuggleData(e)
  <2>1. PICK e \in Event : Get!SmuggleData(e)
    BY <1>8
  <2>2. e \in asked /\ asked \subseteq Event \ AzimuthLogs
    BY <2>1 DEF Fresh, Get!SmuggleData, Get!Least
  <2>3. {f \in asked : TxOf[f] = TxOf[e]} = {e}
    BY <2>2 DEF OwnTransactions
  <2>4. Get!Max({e}) = e
    <3>1. {e} \subseteq Event /\ {e} # {}
      OBVIOUS
    <3>2. Get!Max({e}) \in {e}
      BY <3>1, GreatestOf, Zenon
    <3> QED
      BY <3>2
  <2>5. Get!LogOf(e) = e
    BY <2>3, <2>4 DEF Get!LogOf
  <2> QED
    BY <2>1, <2>5 DEF Bare, Get!SmuggleData, Get!ends
<1>9. CASE Get!NextRange
  BY <1>9 DEF Bare, Fresh, Get!NextRange, Get!tables, Get!ranges, Get!lists, Get!outside, Get!ends
<1>10. CASE Get!CatchUpNaive
  BY <1>10 DEF Bare, Fresh, Get!CatchUpNaive, Get!tables, Get!ranges, Get!lists, Get!outside, Get!ends
<1>11. CASE Get!GetTransactionData
  BY <1>11 DEF Bare, Fresh, Get!GetTransactionData, Get!tables, Get!ranges, Get!lists, Get!outside, Get!ends
<1>12. CASE Get!BatchCall
  BY <1>12 DEF Bare, Fresh, Get!BatchCall, Get!First, Get!tables, Get!ranges, Get!lists, Get!outside, Get!ends
<1>13. CASE Get!RetryElement
  BY <1>13 DEF Bare, Fresh, Get!RetryElement, Get!vars, Get!tables, Get!ranges, Get!lists, Get!outside, Get!ends
<1>14. CASE Get!NextRequest
  BY <1>14 DEF Bare, Fresh, Get!NextRequest, Get!tables, Get!ranges, Get!lists, Get!outside, Get!ends
<1>15. CASE Get!Done
  BY <1>15 DEF Bare, Fresh, Get!Done, Get!Stop, Get!tables, Get!ranges, Get!lists, Get!outside, Get!ends
<1>16. CASE Get!Die
  BY <1>16 DEF Bare, Fresh, Get!Die, Get!Stop, Get!tables, Get!ranges, Get!lists, Get!outside, Get!ends
<1> QED
  BY <1>2, <1>3, <1>4, <1>5, <1>6, <1>7, <1>8, <1>9, <1>10, <1>11, <1>12, <1>13, <1>14, <1>15, <1>16 DEF Get!Run, Get!Event, Event

-----------------------------------------------------------------------------
(* The replay.                                                             *)

LEMMA PlayedPlay ==
    ASSUME Fresh, Played, Play!Next, UNCHANGED <<stored, filled>>
    PROVE  Played'
<1>1. /\ \A e \in Event : Play!Writes(e)' = Play!Writes(e)
      /\ stored \subseteq Event
  BY DEF Play!Writes, Fresh
<1>2. CASE Play!Start \/ Play!SelectAzimuth \/ Play!SelectNaive \/ Play!Begin
  <2>1. /\ UNCHANGED <<processed, committed, marked, view>>
        /\ pc \in {"down", "azimuth", "naive", "next"}
        /\ pc' # "down" \/ todo' = {}
        /\ marked = processed
    BY <1>2 DEF Played, Play!Start, Play!SelectAzimuth, Play!SelectNaive, Play!Begin,
       Play!table, Play!database, Play!transaction
  <2>2. todo' \subseteq stored \ marked
    BY <1>2, <2>1 DEF Played, Play!Start, Play!SelectAzimuth, Play!SelectNaive, Play!Begin,
       Play!First, Play!Unprocessed
  <2>3. \A e \in Event \ marked : ~(view[e] > 0)
    BY <2>1 DEF Played, Play!Playing
  <2> QED
    BY <1>1, <2>1, <2>2, <2>3 DEF Played
<1>3. CASE Play!Commit
  <2>1. /\ UNCHANGED <<marked, view, todo>>
        /\ processed' = marked /\ committed' = view
        /\ pc' \in {"azimuth", "next"}
        /\ \A e \in Event : ~Play!Playing(e)
    BY <1>3 DEF Play!Commit, Play!Playing, Play!Least, Play!table, Play!database, Play!transaction
  <2>2. \A e \in Event \ marked : view[e] = 0
    BY <2>1 DEF Played
  <2> QED
    BY <1>1, <2>1, <2>2 DEF Played
<1>4. CASE \E e \in Event : Play!Write(e)
  <2>1. PICK e \in Event : Play!Write(e)
    BY <1>4
  <2>2. /\ UNCHANGED <<processed, committed, marked, todo, pc>>
        /\ view' = [view EXCEPT ![e] = @ + 1]
        /\ Play!Playing(e) /\ e \notin marked
    BY <2>1 DEF Played, Play!Write, Play!Playing, Play!Least, Play!table, Play!database, Play!transaction
  <2>3. \A f \in Event : Play!Playing(f)' <=> Play!Playing(f)
    BY <2>2 DEF Play!Playing
  <2> QED
    BY <1>1, <2>2, <2>3 DEF Played
<1>5. CASE \E e \in Event : Play!MarkProcessed(e)
  <2>1. PICK e \in Event : Play!MarkProcessed(e)
    BY <1>5
  <2>2. /\ UNCHANGED <<processed, committed, view, pc>>
        /\ marked' = marked \cup {e} /\ todo' = todo \ {e}
        /\ Play!Playing(e) /\ e \in todo /\ view[e] = Play!Writes(e)
        /\ pc \in {"batch", "event"}
    BY <2>1 DEF Play!MarkProcessed, Play!Playing, Play!Least, Play!table, Play!database, Play!transaction
  <2>3. \A f \in Event : Play!Playing(f) => f = e
    BY <2>2, EventAssumption DEF Play!Playing, Play!Least, Event
  <2> QED
    BY <1>1, <2>2, <2>3 DEF Played
<1>6. CASE Play!Crash \/ \E e \in Event : Play!Panic(e)
  <2>1. /\ UNCHANGED <<processed, committed>>
        /\ marked' = processed /\ view' = committed /\ todo' = {} /\ pc' = "down"
    BY <1>6 DEF Play!Crash, Play!Panic, Play!Die, Play!database
  <2>2. processed \subseteq Event
    BY <1>1 DEF Played
  <2>3. \A e \in Event \ processed : ~(committed[e] > 0)
    BY DEF Played
  <2> QED
    BY <1>1, <2>1, <2>2, <2>3 DEF Played
<1> QED
  BY <1>2, <1>3, <1>4, <1>5, <1>6 DEF Play!Next, Play!Step, Play!Event, Event
-----------------------------------------------------------------------------
(* Both, in turn.                                                          *)

LEMMA DataInit == Init => DataInv /\ Bare
<1> SUFFICES ASSUME Init PROVE DataInv /\ Bare
  OBVIOUS
<1>1. Get!Init /\ Play!Unplayed
  BY DEF Init
<1>2. Fresh /\ Bare
  BY <1>1 DEF Get!Init, Play!Unplayed, Fresh, Bare
<1>3. Played
  BY <1>1 DEF Get!Init, Play!Unplayed, Played, Play!Event, Event
<1> QED
  BY <1>2, <1>3, OneWriterInit DEF DataInv

(* The data of the commands, and a step that leaves it alone.              *)
data == <<stored, filled, got, parsed_logs, asked, txs, at, failed,
          processed, committed, marked, view, todo, pc>>

LEMMA PlayedKept ==
    ASSUME Played, UNCHANGED <<stored, filled, processed, committed, marked, view, todo, pc>>
    PROVE  Played'
<1>1. \A e \in Event : Play!Writes(e)' = Play!Writes(e)
  BY DEF Play!Writes
<1>2. \A e \in Event : Play!Playing(e) => Play!Playing(e)'
  BY DEF Play!Playing, Play!Least
<1>3. \A e \in marked : view[e] = Play!Writes(e)'
  BY <1>1 DEF Played, Play!Writes
<1>4. \A e \in Event : committed[e] = IF e \in processed THEN Play!Writes(e)' ELSE 0
  BY <1>1 DEF Played
<1>5. \A e \in Event \ marked : view[e] > 0 => Play!Playing(e)'
  BY <1>2 DEF Played
<1> QED
  BY <1>3, <1>4, <1>5 DEF Played

LEMMA DataKept ==
    ASSUME UNCHANGED data
    PROVE  /\ Fresh => Fresh'
           /\ Bare => Bare'
           /\ Played => Played'
<1>1. Fresh => Fresh'
  BY DEF Fresh, data
<1>2. Bare => Bare'
  BY DEF Bare, data
<1>3. Played => Played'
  BY PlayedKept DEF data
<1> QED
  BY <1>1, <1>2, <1>3

(* Each step is one of get_logs, while no play_logs runs, one of play_logs *)
(* while no get_logs does, or leaves what either has alone.                *)
LEMMA StepOfData ==
    ASSUME OneWriter, [Next]_vars
    PROVE  \/ UNCHANGED data
           \/ /\ Get!GetLogs \/ Get!Run \/ Get!Die
              /\ UNCHANGED player /\ pc = "down"
           \/ /\ Get!Stop /\ failed' = TRUE
              /\ UNCHANGED <<stored, filled, player>> /\ pc = "down"
           \/ /\ Play!Next
              /\ UNCHANGED <<stored, filled, scraper>> /\ at = "down"
<1>1. CASE \E p \in Processes : OpenDatabase(p)
  BY <1>1 DEF OpenDatabase, scraper, player, data
<1>2. CASE GetLogs
  BY <1>2 DEF GetLogs, OneWriter
<1>3. CASE NoTables
  BY <1>3 DEF NoTables, OneWriter
<1>4. CASE PlayLogs
  BY <1>4 DEF PlayLogs, OneWriter, scraper, player, data
<1>5. CASE Query
  BY <1>5 DEF Query, scraper, player, data
<1>6. CASE Outside
  BY <1>6 DEF Outside, Get!Mine, Get!Overload, Get!Recover, player, data,
      Get!tables, Get!ranges, Get!lists, Get!ends
<1>7. CASE UNCHANGED vars
  BY <1>7 DEF vars, scraper, player, data
<1> QED
  BY <1>1, <1>2, <1>3, <1>4, <1>5, <1>6, <1>7 DEF Next, Processes

(* get_logs never touches what was played.                                 *)
LEMMA PlayedRun ==
    ASSUME Fresh, Played, pc = "down", UNCHANGED player,
           Get!GetLogs \/ Get!Run \/ Get!Die
    PROVE  Played'
<1>1. UNCHANGED <<processed, committed, marked, view, todo, pc>>
  BY DEF player
<1>2. marked = processed /\ todo = {}
  BY DEF Played
<1>3. stored \subseteq stored' /\ \A e \in processed : e \in filled' <=> e \in filled
  BY RunWrites DEF Fresh
<1>4. processed \subseteq Event
  BY <1>2 DEF Played, Fresh
<1>5. \A e \in processed : Play!Writes(e)' = Play!Writes(e)
  BY <1>3 DEF Play!Writes
<1>6. \A e \in Event \ marked : ~(view'[e] > 0)
  BY <1>1, <1>2 DEF Played, Play!Playing
<1> QED
  BY <1>1, <1>2, <1>3, <1>4, <1>5, <1>6 DEF Played

LEMMA FreshPlay ==
    ASSUME Fresh, Played, at = "down", Play!Next, UNCHANGED <<stored, filled, scraper>>
    PROVE  Fresh'
<1>1. processed' \subseteq stored
  BY DEF Play!Next, Play!Step, Play!Start, Play!SelectAzimuth, Play!SelectNaive,
         Play!Begin, Play!Commit, Play!Write, Play!MarkProcessed, Play!Crash, Play!Panic,
         Play!Die, Play!table, Play!database, Play!transaction, Played
<1> QED
  BY <1>1 DEF Fresh, scraper

LEMMA DataStep ==
    ASSUME DataInv, [Next]_vars
    PROVE  DataInv'
<1>1. OneWriter'
  BY StepOfOne DEF DataInv
<1>2. CASE UNCHANGED data
  BY <1>1, <1>2, DataKept DEF DataInv
<1>3. CASE /\ Get!GetLogs \/ Get!Run \/ Get!Die
           /\ UNCHANGED player /\ pc = "down"
  <2>1. Played'
    BY <1>3, PlayedRun DEF DataInv
  <2>2. Fresh'
    BY <1>3, FreshRun DEF DataInv, player
  <2> QED
    BY <1>1, <2>1, <2>2 DEF DataInv
<1>4. CASE /\ Get!Stop /\ failed' = TRUE
           /\ UNCHANGED <<stored, filled, player>> /\ pc = "down"
  <2>1. Fresh'
    BY <1>4 DEF DataInv, Fresh, Get!Stop, player
  <2>2. Played'
    BY <1>4, PlayedKept DEF DataInv, player
  <2> QED
    BY <1>1, <2>1, <2>2 DEF DataInv
<1>5. CASE /\ Play!Next
           /\ UNCHANGED <<stored, filled, scraper>> /\ at = "down"
  BY <1>1, <1>5, PlayedPlay, FreshPlay DEF DataInv
<1> QED
  BY <1>2, <1>3, <1>4, <1>5, StepOfData DEF DataInv
(* What is marked was played, once, from the row as it stays (play_logs    *)
(* selects it by is_processed, get_logs inserts or fills only what no      *)
(* event of this range is yet), whichever command runs and dies when.      *)
THEOREM PlaysWhatStays == Spec => []PlayedAsStored
<1>1. Init => DataInv
  BY DataInit
<1>2. DataInv /\ [Next]_vars => DataInv'
  BY DataStep
<1>3. DataInv => PlayedAsStored
  BY DEF DataInv, Played, PlayedAsStored
<1> QED
  BY <1>1, <1>2, <1>3, PTL DEF Spec

LEMMA BareStep ==
    ASSUME OwnTransactions, DataInv, Bare, [Next]_vars
    PROVE  Bare'
<1>1. CASE UNCHANGED data
  BY <1>1, DataKept
<1>2. CASE Get!GetLogs \/ Get!Run \/ Get!Die
  BY <1>2, BareRun DEF DataInv
<1>3. CASE failed' = TRUE
  BY <1>3 DEF Bare
<1>4. CASE UNCHANGED <<stored, filled, scraper>>
  BY <1>4 DEF Bare, scraper
<1> QED
  BY <1>1, <1>2, <1>3, <1>4, StepOfData DEF DataInv

(* A step of get_logs stores an event, completes a batch or fails.         *)
LEMMA RunLives ==
    ASSUME Fresh, UNCHANGED processed, Get!GetLogs \/ Get!Run \/ Get!Die
    PROVE  \/ Lives!Next
           \/ UNCHANGED <<[e \in Event |-> Status(e)], failed>>
<1> DEFINE now == [e \in Event |-> Status(e)]
<1>1. CASE UNCHANGED <<stored, filled>> /\ failed' \in {failed, TRUE}
  <2>1. now' = now
    BY <1>1 DEF Status
  <2> QED
    BY <1>1, <2>1 DEF Lives!Next, Lives!Fail
<1>2. CASE \E e \in Event \ stored :
              /\ stored' = stored \cup {e}
              /\ filled' \in {filled, filled \cup {e}}
              /\ failed' = failed
  <2>1. PICK e \in Event \ stored :
              /\ stored' = stored \cup {e}
              /\ filled' \in {filled, filled \cup {e}}
              /\ failed' = failed
    BY <1>2
  <2>2. /\ e \notin filled /\ e \notin processed
        /\ \A f \in Event : f # e => Status(f)' = Status(f)
    BY <2>1 DEF Fresh, Status
  <2>3. Status(e) = "absent" /\ Status(e)' \in {"bare", "complete"}
    BY <2>1, <2>2 DEF Status
  <2>4. now' = [now EXCEPT ![e] = Status(e)']
    BY <2>2
  <2> QED
    BY <2>1, <2>3, <2>4 DEF Lives!Next, Lives!Store
<1>3. CASE \E e \in asked :
              /\ stored' = stored
              /\ filled' = filled \cup {e}
              /\ failed' = failed
  <2>1. PICK e \in asked :
              /\ stored' = stored
              /\ filled' = filled \cup {e}
              /\ failed' = failed
    BY <1>3
  <2>2. /\ e \in Event /\ e \in stored /\ e \notin processed
        /\ \A f \in Event : f # e => Status(f)' = Status(f)
    BY <2>1 DEF Fresh, Status
  <2>3. CASE e \in filled
    <3>1. now' = now
      BY <2>1, <2>3 DEF Status
    <3> QED
      BY <2>1, <3>1
  <2>4. CASE e \notin filled
    <3>1. Status(e) = "bare" /\ Status(e)' = "complete"
      BY <2>1, <2>2, <2>4 DEF Status
    <3>2. now' = [now EXCEPT ![e] = "complete"]
      BY <2>2, <3>1
    <3> QED
      BY <2>1, <2>2, <3>1, <3>2 DEF Lives!Next, Lives!Complete
  <2> QED
    BY <2>3, <2>4
<1> QED
  BY <1>1, <1>2, <1>3, RunWrites

(* A commit plays what it marks; a batch without data only after a failure.*)
LEMMA PlayLives ==
    ASSUME Fresh, Bare, Played, at = "down",
           Play!Next, UNCHANGED <<stored, filled, scraper>>
    PROVE  \/ Lives!Next
           \/ UNCHANGED <<[e \in Event |-> Status(e)], failed>>
<1> DEFINE now == [e \in Event |-> Status(e)]
           S == marked \ processed
<1>1. failed' = failed /\ UNCHANGED <<stored, filled>>
  BY DEF scraper
<1>2. processed' \in {processed, marked}
  BY DEF Play!Next, Play!Step, Play!Start, Play!SelectAzimuth, Play!SelectNaive,
         Play!Begin, Play!Commit, Play!Write, Play!MarkProcessed, Play!Crash, Play!Panic,
         Play!Die, Play!table, Play!database, Play!transaction
<1>3. CASE processed' = processed
  <2>1. now' = now
    BY <1>1, <1>3 DEF Status
  <2> QED
    BY <1>1, <2>1
<1>4. CASE processed' = marked
  <2>1. S \subseteq stored /\ S \subseteq Event
    BY DEF Played, Fresh
  <2>2. \A e \in S : Status(e) = IF e \in filled THEN "complete" ELSE "bare"
    BY <2>1 DEF Status
  <2>3. ~failed => S \subseteq filled
    BY <2>1 DEF Bare, Fresh
  <2>4. \A e \in S : Status(e) = "complete" \/ (failed /\ Status(e) = "bare")
    BY <2>2, <2>3 DEF Fresh
  <2>5. \A e \in S : Status(e)' = IF Status(e) = "bare" THEN "lost" ELSE "played"
    BY <1>1, <1>4, <2>2 DEF Status
  <2>6. \A e \in Event \ S : Status(e)' = Status(e)
    BY <1>1, <1>4 DEF Status, Played
  <2>7. now' = [e \in Event |-> IF e \notin S THEN now[e]
                                ELSE IF now[e] = "bare" THEN "lost" ELSE "played"]
    BY <2>1, <2>5, <2>6
  <2>8. Lives!Play(S)
    BY <1>1, <2>1, <2>4, <2>7 DEF Lives!Play
  <2> QED
    BY <2>1, <2>8 DEF Lives!Next
<1> QED
  BY <1>2, <1>3, <1>4

(* The commands keep the Lifecycle of the events, when no two batches are  *)
(* in one transaction: none goes back, is played twice or filled after it  *)
(* was played, and one is played without its data only after a get_logs    *)
(* that failed (CatchUpNaiveLogs and SmuggleNaiveBatchDataIntoEvent before,*)
(* PlayAzimuthLogs after).                                                 *)
THEOREM CommandsKeepLifecycle ==
    ASSUME OwnTransactions
    PROVE  Spec => KeepsLifecycle
<1> DEFINE now == [e \in Event |-> Status(e)]
           Inv == DataInv /\ Bare
<1>1. Init => Inv
  BY DataInit
<1>2. Inv /\ [Next]_vars => Inv'
  BY DataStep, BareStep
<1>3. Init => Lives!Init
  BY DEF Init, Get!Init, Play!Unplayed, Lives!Init, Status
<1>4. Inv /\ [Next]_vars => [Lives!Next]_<<now, failed>>
  <2> SUFFICES ASSUME Inv, [Next]_vars PROVE [Lives!Next]_<<now, failed>>
    OBVIOUS
  <2>1. CASE UNCHANGED data
    <3>1. UNCHANGED <<now, failed>>
      BY <2>1 DEF data, Status
    <3> QED
      BY <3>1
  <2>2. CASE (Get!GetLogs \/ Get!Run \/ Get!Die) /\ UNCHANGED player
    BY <2>2, RunLives DEF DataInv, player
  <2>3. CASE failed' = TRUE /\ UNCHANGED <<stored, filled, player>>
    <3>1. now' = now
      BY <2>3 DEF Status, player
    <3> QED
      BY <2>3, <3>1 DEF Lives!Next, Lives!Fail
  <2>4. CASE Play!Next /\ UNCHANGED <<stored, filled, scraper>> /\ at = "down"
    BY <2>4, PlayLives DEF DataInv
  <2> QED
    BY <2>1, <2>2, <2>3, <2>4, StepOfData DEF DataInv
<1> QED
  BY <1>1, <1>2, <1>3, <1>4, PTL DEF Spec, KeepsLifecycle, Lives!Spec
=============================================================================
