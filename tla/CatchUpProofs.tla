---------------------------- MODULE CatchUpProofs ----------------------------
(***************************************************************************)
(* The scraper, for any log, any chain, any answers and errors of the node *)
(* and any deaths: nothing below a watermark is missing, what is inserted  *)
(* twice is at the watermark or above it, a get_logs that ends leaves      *)
(* every batch with its data, and what one that died left without never    *)
(* gets it.                                                                *)
(***************************************************************************)
EXTENDS CatchUp, Least, FiniteSetTheorems, TLAPS

Batches == Event \ AzimuthLogs

(* What each phase has in memory.                                          *)
Phases ==
    /\ latest \in 0..height
    /\ \A e \in got \cup stored : BlockOf[e] <= height
    /\ stored \cap AzimuthLogs \subseteq filled
    /\ parsed_logs \cup asked \subseteq stored \ AzimuthLogs
    /\ got \subseteq CASE at = "save-azimuth" -> AzimuthLogs
                       [] at = "save-naive"   -> Batches
                       [] OTHER               -> {}
    /\ at \in {"down", "azimuth", "save-azimuth"} => parsed_logs = {}
    /\ at \in {"answers", "retry"} <=> asked # {}
    /\ at = "save-azimuth" => round < MaxRounds /\ to >= 0

(* The ranges advance from the watermark, or, once the node was            *)
(* unavailable, are empty for the rest of the run.                         *)
Advancing ==
    at \in {"azimuth", "save-azimuth"} =>
       /\ from >= 1
       /\ \/ from >= fetched["azimuth"] /\ batch_size >= 0 /\ to >= from - 1
          \/ batch_size <= 0 /\ to <= 0

(* Azimuth events below the range are stored, and those in it are stored   *)
(* or held, up to the block the run looks for.                             *)
AzimuthFetched ==
    /\ \A e \in AzimuthLogs : BlockOf[e] <= fetched["azimuth"] => e \in stored
    /\ at \in {"azimuth", "save-azimuth"} =>
          \A e \in AzimuthLogs : BlockOf[e] < from /\ BlockOf[e] <= latest => e \in stored
    /\ at = "save-azimuth" =>
          /\ \A e \in AzimuthLogs :
                BlockOf[e] \in from..to /\ BlockOf[e] <= latest => e \in stored \cup got
          /\ \A e \in got : BlockOf[e] \in from..to

(* Batches on their way: each is held in one of the lists until it has its *)
(* data, and they are asked for in the order of the chain.                 *)
BatchesHeld ==
    /\ at = "save-naive" => \A e \in got : BlockOf[e] >= fetched["naive"]
    /\ at \in {"save-naive", "request", "answers", "retry"} =>
          \A e \in Batches \cap (got \cup stored) : BlockOf[e] <= latest
    /\ \A e \in asked, f \in parsed_logs : e < f

(* Only so where each batch has a transaction of its own.                  *)
BatchesFetched ==
    /\ \A e \in Batches : BlockOf[e] < fetched["naive"] => e \in filled
    /\ at \in {"save-naive", "request", "answers", "retry"} =>
          \A e \in Batches :
             BlockOf[e] <= latest => e \in filled \cup got \cup parsed_logs \cup txs

OwnTransactions == \A e, f \in Batches : TxOf[e] = TxOf[f] => e = f

-----------------------------------------------------------------------------

LEMMA Constants ==
    /\ Last \in Nat /\ AzimuthLogs \subseteq Event
    /\ BlockOf \in [Event -> 1..MaxHeight]
    /\ \A e, f \in Event : e <= f => BlockOf[e] <= BlockOf[f]
    /\ StartBlock \in [Contract -> 1..MaxHeight]
    /\ \A e \in AzimuthLogs : BlockOf[e] >= StartBlock["azimuth"]
    /\ \A e \in Batches : BlockOf[e] >= StartBlock["naive"]
    /\ MaxHeight \in Nat /\ Chunk \in Nat /\ Few \in Nat /\ MaxRounds \in Nat
    /\ RpcBatch \in Nat /\ MaxDeaths \in Nat
    /\ StartHeight \in 1..MaxHeight
    /\ Chunk > 0 /\ RpcBatch > 0
BY EventAssumption, ChainAssumption DEF Batches

(* The greater and the lesser of two numbers, and the greatest event.      *)
LEMMA Two ==
    ASSUME NEW a \in Int, NEW b \in Int
    PROVE  /\ Max({a, b}) = IF a >= b THEN a ELSE b
           /\ Min({a, b}) = IF a >= b THEN b ELSE a
BY DEF Max, Min

LEMMA GreatestOf ==
    ASSUME NEW T, T \subseteq Event, T # {}
    PROVE  Max(T) \in T /\ \A e \in T : e <= Max(T)
<1>1. T \subseteq 0..Last /\ Last \in Nat
  BY EventAssumption DEF Event
<1>2. PICK m \in T : \A e \in T : e <= m
  BY <1>1, GreatestUpTo
<1> QED
  BY <1>2 DEF Max

(* A request asks for the first of the batches, and for one at least.      *)
LEMMA FirstOf ==
    ASSUME NEW T, T \subseteq Event, NEW k \in Nat, k > 0
    PROVE  /\ First(k, T) \subseteq T
           /\ T # {} => First(k, T) # {}
           /\ \A e \in First(k, T), f \in T \ First(k, T) : e < f
<1> DEFINE Below(e) == {f \in T : f < e}
<1>0. \A e \in T : e \in Nat
  BY EventAssumption DEF Event
<1>1. IsFiniteSet(Event)
  BY FS_Interval, EventAssumption DEF Event
<1>2. \A e \in T : IsFiniteSet(Below(e)) /\ Cardinality(Below(e)) \in Nat
  <2> SUFFICES ASSUME NEW e \in T PROVE IsFiniteSet(Below(e)) /\ Cardinality(Below(e)) \in Nat
    OBVIOUS
  <2>1. Below(e) \subseteq Event
    OBVIOUS
  <2> QED
    BY <1>1, <2>1, FS_Subset, FS_CardinalityType, Zenon
<1>3. ASSUME T # {} PROVE First(k, T) # {}
  <2>1. PICK e \in T : \A f \in T : e <= f
    <3>1. T \subseteq Nat
      BY <1>0
    <3> QED
      BY <1>3, <3>1, LeastOf
  <2>2. Below(e) = {}
    BY <1>0, <2>1
  <2>3. Cardinality(Below(e)) = 0
    BY <2>2, FS_EmptySet, Zenon
  <2> QED
    BY <2>3 DEF First
<1>4. ASSUME NEW e \in First(k, T), NEW f \in T \ First(k, T) PROVE e < f
  <2> SUFFICES ASSUME ~(e < f) PROVE FALSE
    OBVIOUS
  <2>1. e \in T /\ f \in T /\ Cardinality(Below(e)) < k /\ ~(Cardinality(Below(f)) < k)
    BY DEF First
  <2>2. f <= e
    BY <1>0, <2>1
  <2>3. Below(f) \subseteq Below(e)
    BY <1>0, <2>1, <2>2
  <2>4. Cardinality(Below(f)) <= Cardinality(Below(e))
    BY <1>2, <2>1, <2>3, FS_Subset, Zenon
  <2> QED
    BY <1>2, <2>1, <2>4
<1> QED
  BY <1>3, <1>4 DEF First

(* The log an answer is stored with is one that was asked for, and where   *)
(* each batch has its own transaction, the one that was answered.          *)
LEMMA LogOfAsked ==
    ASSUME asked \subseteq Batches, NEW e \in asked
    PROVE  /\ LogOf(e) \in asked
           /\ OwnTransactions => LogOf(e) = e
<1> DEFINE T == {f \in asked : TxOf[f] = TxOf[e]}
<1>1. e \in T /\ T \subseteq Event
  BY DEF Batches
<1>2. Max(T) \in T
  BY <1>1, GreatestOf, Zenon
<1>3. OwnTransactions => Max(T) = e
  BY <1>2 DEF OwnTransactions
<1> QED
  BY <1>2, <1>3 DEF LogOf

(* Types, and what each phase has.                                         *)
LEMMA PhasesStep ==
    ASSUME TypeOK, Phases, [Next]_vars
    PROVE  TypeOK' /\ Phases'
<1>1. CASE GetLogs
  <2>1. Resume("azimuth") \in Int
    BY Two, Constants DEF Resume, TypeOK, Contract
  <2> QED
    BY <1>1, <2>1, Constants DEF TypeOK, Phases, GetLogs, tables, lists, outside, ends
<1>2. CASE FilterLogs
  BY <1>2, Constants DEF TypeOK, Phases, LogsBetween, Looping, FilterLogs, tables, outside, ends
<1>3. CASE Unavailable
  BY <1>3, Constants DEF TypeOK, Phases, Looping, Unavailable, tables, lists, outside, ends
<1>4. CASE Fatal
  BY <1>4, Constants DEF TypeOK, Phases, Fatal, Stop, tables, outside
<1>5. CASE \E r \in 0..(2 * MaxHeight) : TooManyResults(r)
  BY <1>5, Constants DEF TypeOK, Phases, Looping, TooManyResults, tables, lists, outside, ends
<1>6. CASE \E e \in Event : SaveEvent(e)
  <2>1. PICK e \in Event : SaveEvent(e)
    BY <1>6
  <2>2. CASE e \in stored
    BY <2>1, <2>2, Constants DEF TypeOK, Phases, SaveEvent, Stop, tables, outside
  <2>3. CASE e \notin stored
    <3>1. e \in got /\ (e \in AzimuthLogs <=> at = "save-azimuth")
      BY <2>1 DEF Phases, SaveEvent, Least, Batches
    <3>2. TypeOK'
      BY <2>1, <2>3 DEF TypeOK, SaveEvent, ranges, outside, ends
    <3>3. Phases'
      BY <2>1, <2>3, <3>1 DEF Phases, SaveEvent, Batches, ranges, outside, ends
    <3> QED
      BY <3>2, <3>3
  <2> QED
    BY <2>2, <2>3
<1>7. CASE \E e \in Event : SmuggleData(e)
  <2>1. PICK e \in Event : SmuggleData(e)
    BY <1>7
  <2>2. LogOf(e) \in asked
    BY <2>1, LogOfAsked DEF SmuggleData, Least, TypeOK, Phases, Batches
  <2> QED
    BY <2>1, <2>2 DEF TypeOK, Phases, SmuggleData, ranges, outside, ends
<1>8. CASE NextRange
  <2> DEFINE least == Min({latest, to})
  <2>1. least \in Int /\ least <= MaxHeight
    <3>1. latest \in Int /\ to \in Int /\ latest <= MaxHeight
      BY Constants DEF TypeOK, Phases
    <3>2. least = IF latest >= to THEN to ELSE latest
      BY <3>1, Two, Zenon
    <3> HIDE DEF least
    <3> QED
      BY <3>1, <3>2, Constants
  <2>2. Max({fetched["azimuth"], least}) \in 0..MaxHeight
    <3>1. fetched["azimuth"] \in 0..MaxHeight
      BY DEF TypeOK, Contract
    <3> HIDE DEF least
    <3> QED
      BY <2>1, <3>1, Two, Constants
  <2>3. fetched' \in [Contract -> 0..MaxHeight]
    BY <1>8, <2>2 DEF NextRange, Watermark, TypeOK, Contract
  <2> QED
    BY <1>8, <2>3, Constants DEF TypeOK, Phases, NextRange, tables, lists, outside, ends
<1>9. CASE CatchUpNaive
  BY <1>9 DEF TypeOK, Phases, LogsBetween, Batches, CatchUpNaive, tables, outside, ends
<1>10. CASE GetTransactionData
  BY <1>10 DEF TypeOK, Phases, GetTransactionData, tables, ranges, lists, outside, ends
<1>11. CASE BatchCall
  <2>1. asked' \subseteq parsed_logs /\ asked' # {}
    BY <1>11, FirstOf, Constants DEF BatchCall, TypeOK
  <2> QED
    BY <1>11, <2>1 DEF TypeOK, Phases, BatchCall, tables, ranges, outside, ends
<1>12. CASE RetryElement
  BY <1>12 DEF TypeOK, Phases, RetryElement, vars, tables, ranges, lists, outside, ends
<1>13. CASE NextRequest
  <2>1. Max(asked) \in Event
    BY <1>13, GreatestOf DEF NextRequest, TypeOK, Phases
  <2>2. Max({fetched["naive"], BlockOf[Max(asked)]}) \in 0..MaxHeight
    BY <2>1, Two, Constants DEF TypeOK, Contract
  <2>3. fetched' \in [Contract -> 0..MaxHeight]
    BY <1>13, <2>2 DEF NextRequest, Watermark, TypeOK, Contract
  <2> QED
    BY <1>13, <2>3 DEF TypeOK, Phases, NextRequest, tables, ranges, outside, ends
<1>14. CASE Done
  <2>1. Max({fetched["naive"], latest}) \in 0..MaxHeight
    BY Two, Constants DEF TypeOK, Phases, Contract
  <2>2. fetched' \in [Contract -> 0..MaxHeight]
    BY <1>14, <2>1 DEF Done, Watermark, TypeOK, Contract
  <2> QED
    BY <1>14, <2>2, Constants DEF TypeOK, Phases, Done, Stop, tables, outside, ends
<1>15. CASE Die
  BY <1>15, Constants DEF TypeOK, Phases, Die, Stop, tables, outside
<1>16. CASE Mine
  BY <1>16, Constants DEF TypeOK, Phases, Mine, tables, ranges, lists, ends
<1>17. CASE Overload
  BY <1>17 DEF TypeOK, Phases, Overload, tables, ranges, lists, ends
<1>18. CASE Recover
  BY <1>18 DEF TypeOK, Phases, Recover, tables, ranges, lists, ends
<1>19. CASE UNCHANGED vars
  BY <1>19 DEF TypeOK, Phases, vars, tables, ranges, lists, outside, ends
<1> QED
  BY <1>1, <1>2, <1>3, <1>4, <1>5, <1>6, <1>7, <1>8, <1>9, <1>10, <1>11, <1>12, <1>13, <1>14, <1>15, <1>16, <1>17, <1>18, <1>19 DEF Next, Run

(* SetLatestContractBlockFetched never goes back, and a run resumes at it. *)
LEMMA WatermarkIs ==
    ASSUME TypeOK, NEW c \in Contract, NEW b \in Int
    PROVE  Watermark(c, b) = [fetched EXCEPT ![c] = IF @ >= b THEN @ ELSE b]
<1>1. fetched[c] \in Int
  BY Constants DEF TypeOK
<1>2. Max({fetched[c], b}) = IF fetched[c] >= b THEN fetched[c] ELSE b
  BY <1>1, Two, Zenon
<1> QED
  BY <1>2 DEF Watermark

LEMMA ResumeIs ==
    ASSUME TypeOK, NEW c \in Contract
    PROVE  Resume(c) = IF StartBlock[c] >= fetched[c] THEN StartBlock[c] ELSE fetched[c]
<1>1. fetched[c] \in Int /\ StartBlock[c] \in Int
  BY Constants DEF TypeOK
<1> QED
  BY <1>1, Two, Zenon DEF Resume

LEMMA LowerIs ==
    ASSUME TypeOK
    PROVE  Min({latest, to}) = IF latest >= to THEN to ELSE latest
<1>1. latest \in Int /\ to \in Int
  BY DEF TypeOK
<1> QED
  BY <1>1, Two, Zenon

LEMMA AdvancingStep ==
    ASSUME TypeOK, Phases, Advancing, [Next]_vars
    PROVE  Advancing'
<1>1. CASE GetLogs
  <2>1. Resume("azimuth") >= fetched["azimuth"] /\ Resume("azimuth") >= 1
        /\ Resume("azimuth") \in Int
    BY ResumeIs, Constants DEF TypeOK, Contract
  <2> QED
    BY <1>1, <2>1, Constants DEF GetLogs, Advancing
<1>2. CASE FilterLogs
  <2>1. batch_size' \in {batch_size, 2 * batch_size}
    BY <1>2 DEF FilterLogs
  <2> QED
    BY <1>2, <2>1 DEF FilterLogs, Looping, Advancing, TypeOK
<1>3. CASE Unavailable
  BY <1>3 DEF Advancing, TypeOK, Unavailable, tables, lists, outside, ends
<1>4. CASE Fatal
  BY <1>4 DEF Advancing, TypeOK, Fatal, Stop, tables, outside
<1>5. CASE \E r \in 0..(2 * MaxHeight) : TooManyResults(r)
  BY <1>5 DEF Advancing, TypeOK, TooManyResults, tables, lists, outside, ends
<1>6. CASE \E e \in Event : SaveEvent(e)
  BY <1>6 DEF Advancing, TypeOK, SaveEvent, Stop, Least, tables, ranges, outside, ends
<1>7. CASE \E e \in Event : SmuggleData(e)
  BY <1>7 DEF Advancing, TypeOK, SmuggleData, Least, ranges, outside, ends
<1>8. CASE NextRange
  <2> DEFINE low == IF latest >= to THEN to ELSE latest
  <2>1. /\ latest \in Nat /\ to \in Nat /\ from \in Int /\ batch_size \in Int
        /\ fetched \in [Contract -> Nat]
    BY <1>8 DEF TypeOK, Phases, NextRange
  <2>2. fetched' = [fetched EXCEPT !["azimuth"] = IF @ >= low THEN @ ELSE low]
    <3>1. Min({latest, to}) = low /\ low \in Int
      BY <2>1, LowerIs
    <3> QED
      BY <1>8, <3>1, WatermarkIs DEF NextRange, Contract
  <2>3. fetched'["azimuth"] = IF fetched["azimuth"] >= low THEN fetched["azimuth"] ELSE low
    BY <2>1, <2>2 DEF Contract
  <2>4. from' = to + 1 /\ to' = to + 1 + batch_size - 1 /\ batch_size' = batch_size
        /\ at = "save-azimuth"
    BY <1>8 DEF NextRange
  <2> QED
    BY <2>1, <2>3, <2>4 DEF Advancing, Contract
<1>9. CASE CatchUpNaive
  BY <1>9 DEF Advancing, TypeOK, CatchUpNaive, tables, outside, ends
<1>10. CASE GetTransactionData
  BY <1>10 DEF Advancing, TypeOK, GetTransactionData, tables, ranges, lists, outside, ends
<1>11. CASE BatchCall
  BY <1>11 DEF Advancing, TypeOK, BatchCall, tables, ranges, outside, ends
<1>12. CASE RetryElement
  BY <1>12 DEF Advancing, TypeOK, RetryElement, vars, tables, ranges, lists, outside, ends
<1>13. CASE NextRequest
  BY <1>13 DEF NextRequest, Advancing
<1>14. CASE Done
  BY <1>14 DEF Done, Stop, Advancing
<1>15. CASE Die
  BY <1>15 DEF Advancing, TypeOK, Die, Stop, tables, outside
<1>16. CASE Mine
  BY <1>16 DEF Advancing, TypeOK, Mine, tables, ranges, lists, ends
<1>17. CASE Overload
  BY <1>17 DEF Advancing, TypeOK, Overload, tables, ranges, lists, ends
<1>18. CASE Recover
  BY <1>18 DEF Advancing, TypeOK, Recover, tables, ranges, lists, ends
<1>19. CASE UNCHANGED vars
  BY <1>19 DEF Advancing, TypeOK, vars, tables, ranges, lists, outside, ends
<1> QED
  BY <1>1, <1>2, <1>3, <1>4, <1>5, <1>6, <1>7, <1>8, <1>9, <1>10, <1>11, <1>12, <1>13, <1>14, <1>15, <1>16, <1>17, <1>18, <1>19 DEF Next, Run

(* The watermark of the batches is not that of the others.                 *)
LEMMA NaiveOnly ==
    ASSUME TypeOK, NEW b
    PROVE  Watermark("naive", b)["azimuth"] = fetched["azimuth"]
BY DEF Watermark, TypeOK, Contract

LEMMA AzimuthStep ==
    ASSUME TypeOK, Phases, AzimuthFetched, [Next]_vars
    PROVE  AzimuthFetched'
<1>1. CASE GetLogs
  <2>1. Resume("azimuth") = StartBlock["azimuth"] \/ Resume("azimuth") = fetched["azimuth"]
    BY ResumeIs DEF Contract
  <2>2. \A e \in AzimuthLogs : BlockOf[e] < Resume("azimuth") => e \in stored
    <3>1. \A e \in AzimuthLogs : BlockOf[e] \in Nat
      BY Constants
    <3> QED
      BY <2>1, <3>1, Constants DEF AzimuthFetched, TypeOK, Contract
  <2> QED
    BY <1>1, <2>2 DEF GetLogs, AzimuthFetched, tables
<1>2. CASE FilterLogs
  <2>1. \A e \in AzimuthLogs : BlockOf[e] \in Nat
    BY Constants
  <2>2. latest \in Nat /\ height \in Nat /\ latest <= height
    BY Constants DEF Phases, TypeOK
  <2> QED
    BY <1>2, <2>1, <2>2 DEF FilterLogs, LogsBetween, Looping, AzimuthFetched, tables
<1>3. CASE Unavailable
  BY <1>3 DEF AzimuthFetched, Looping, Unavailable, tables, lists, outside, ends
<1>4. CASE Fatal
  BY <1>4 DEF AzimuthFetched, Fatal, Stop, tables, outside
<1>5. CASE \E r \in 0..(2 * MaxHeight) : TooManyResults(r)
  BY <1>5 DEF AzimuthFetched, Looping, TooManyResults, tables, lists, outside, ends
<1>6. CASE \E e \in Event : SaveEvent(e)
  <2>1. PICK e \in Event : SaveEvent(e)
    BY <1>6
  <2>2. CASE e \in stored
    BY <2>1, <2>2 DEF SaveEvent, Stop, AzimuthFetched, tables
  <2>3. CASE e \notin stored
    BY <2>1, <2>3 DEF SaveEvent, AzimuthFetched, ranges
  <2> QED
    BY <2>2, <2>3
<1>7. CASE \E e \in Event : SmuggleData(e)
  BY <1>7 DEF AzimuthFetched, SmuggleData, Least, ranges, outside, ends
<1>8. CASE NextRange
  <2> DEFINE low == IF latest >= to THEN to ELSE latest
  <2>1. /\ latest \in Nat /\ to \in Nat /\ from \in Int
        /\ fetched \in [Contract -> Nat]
    BY <1>8 DEF TypeOK, Phases, NextRange
  <2>2. fetched' = [fetched EXCEPT !["azimuth"] = IF @ >= low THEN @ ELSE low]
    <3>1. Min({latest, to}) = low /\ low \in Int
      BY <2>1, LowerIs
    <3> QED
      BY <1>8, <3>1, WatermarkIs DEF NextRange, Contract
  <2>3. fetched'["azimuth"] = IF fetched["azimuth"] >= low THEN fetched["azimuth"] ELSE low
    BY <2>1, <2>2 DEF Contract
  <2>4. /\ from' = to + 1 /\ at = "save-azimuth" /\ at' = "azimuth" /\ got = {}
        /\ UNCHANGED <<stored, latest>>
    BY <1>8 DEF NextRange, tables
  <2>5. ASSUME NEW e \in AzimuthLogs, BlockOf[e] <= to, BlockOf[e] <= latest
        PROVE  e \in stored
    <3>1. BlockOf[e] \in Nat
      BY Constants
    <3> QED
      BY <2>1, <2>4, <2>5, <3>1 DEF AzimuthFetched
  <2>6. \A e \in AzimuthLogs : BlockOf[e] \in Nat
    BY Constants
  <2>7. \A e \in AzimuthLogs : BlockOf[e] <= fetched'["azimuth"] => e \in stored
    BY <2>1, <2>3, <2>5, <2>6 DEF AzimuthFetched, Contract
  <2>8. \A e \in AzimuthLogs : BlockOf[e] < from' /\ BlockOf[e] <= latest => e \in stored
    BY <2>1, <2>4, <2>5, <2>6
  <2> QED
    BY <2>4, <2>7, <2>8 DEF AzimuthFetched
<1>9. CASE CatchUpNaive
  BY <1>9 DEF AzimuthFetched, CatchUpNaive, tables, outside, ends
<1>10. CASE GetTransactionData
  BY <1>10 DEF AzimuthFetched, GetTransactionData, tables, ranges, lists, outside, ends
<1>11. CASE BatchCall
  BY <1>11 DEF AzimuthFetched, BatchCall, tables, ranges, outside, ends
<1>12. CASE RetryElement
  BY <1>12 DEF AzimuthFetched, RetryElement, vars, tables, ranges, lists, outside, ends
<1>13. CASE NextRequest
  BY <1>13, NaiveOnly DEF NextRequest, AzimuthFetched, tables
<1>14. CASE Done
  BY <1>14, NaiveOnly DEF Done, Stop, AzimuthFetched, tables
<1>15. CASE Die
  BY <1>15 DEF AzimuthFetched, Die, Stop, tables, outside
<1>16. CASE Mine
  BY <1>16 DEF AzimuthFetched, Mine, tables, ranges, lists, ends
<1>17. CASE Overload
  BY <1>17 DEF AzimuthFetched, Overload, tables, ranges, lists, ends
<1>18. CASE Recover
  BY <1>18 DEF AzimuthFetched, Recover, tables, ranges, lists, ends
<1>19. CASE UNCHANGED vars
  BY <1>19 DEF AzimuthFetched, vars, tables, ranges, lists, outside, ends
<1> QED
  BY <1>1, <1>2, <1>3, <1>4, <1>5, <1>6, <1>7, <1>8, <1>9, <1>10, <1>11, <1>12, <1>13, <1>14, <1>15, <1>16, <1>17, <1>18, <1>19 DEF Next, Run

LEMMA HeldStep ==
    ASSUME TypeOK, Phases, BatchesHeld, [Next]_vars
    PROVE  BatchesHeld'
<1>1. CASE GetLogs
  BY <1>1 DEF BatchesHeld, GetLogs, tables, lists, outside, ends
<1>2. CASE FilterLogs
  BY <1>2 DEF BatchesHeld, Phases, FilterLogs, tables, outside, ends
<1>3. CASE Unavailable
  BY <1>3 DEF BatchesHeld, Unavailable, tables, lists, outside, ends
<1>4. CASE Fatal
  BY <1>4 DEF BatchesHeld, Fatal, Stop, tables, outside
<1>5. CASE \E r \in 0..(2 * MaxHeight) : TooManyResults(r)
  BY <1>5 DEF BatchesHeld, TooManyResults, tables, lists, outside, ends
<1>6. CASE \E e \in Event : SaveEvent(e)
  <2>1. PICK e \in Event : SaveEvent(e)
    BY <1>6
  <2>2. CASE e \in stored
    BY <2>1, <2>2 DEF SaveEvent, Stop, BatchesHeld, tables
  <2>3. CASE e \notin stored
    <3>1. /\ e \in got /\ got' \subseteq got /\ stored' = stored \cup {e}
          /\ at \in {"save-azimuth", "save-naive"}
          /\ UNCHANGED <<at, latest, fetched, asked>>
      BY <2>1, <2>3 DEF SaveEvent, Least, ranges
    <3>2. asked' = {}
      BY <3>1 DEF Phases
    <3> QED
      BY <3>1, <3>2 DEF BatchesHeld
  <2> QED
    BY <2>2, <2>3
<1>7. CASE \E e \in Event : SmuggleData(e)
  BY <1>7 DEF BatchesHeld, SmuggleData, Least, ranges, outside, ends
<1>8. CASE NextRange
  BY <1>8 DEF BatchesHeld, Phases, NextRange, tables, lists, outside, ends
<1>9. CASE CatchUpNaive
  <2>1. Resume("naive") >= fetched["naive"] /\ Resume("naive") \in Int
    BY ResumeIs, Constants DEF TypeOK, Contract
  <2>2. \A e \in Event : BlockOf[e] \in Nat
    BY Constants
  <2>3. fetched["naive"] \in Nat /\ height \in Nat
    BY Constants DEF TypeOK, Contract
  <2>4. /\ latest' = height /\ at = "azimuth" /\ at' = "save-naive"
        /\ got' = LogsBetween(Batches, Resume("naive"), height)
        /\ UNCHANGED <<stored, fetched, asked, parsed_logs>>
    BY <1>9 DEF CatchUpNaive, Batches, tables
  <2>5. \A e \in got' : BlockOf[e] >= fetched["naive"] /\ BlockOf[e] <= height
    BY <2>1, <2>2, <2>3, <2>4 DEF LogsBetween, Batches
  <2>6. asked = {}
    BY <2>4 DEF Phases
  <2> QED
    BY <2>4, <2>5, <2>6 DEF BatchesHeld, Phases
<1>10. CASE GetTransactionData
  BY <1>10 DEF BatchesHeld, GetTransactionData, tables, ranges, lists, outside, ends
<1>11. CASE BatchCall
  <2>1. \A e \in asked', f \in parsed_logs' : e < f
    BY <1>11, FirstOf, Constants DEF BatchCall, TypeOK
  <2> QED
    BY <1>11, <2>1 DEF BatchCall, BatchesHeld, tables, ranges
<1>12. CASE RetryElement
  BY <1>12 DEF BatchesHeld, RetryElement, vars, tables, ranges, lists, outside, ends
<1>13. CASE NextRequest
  BY <1>13 DEF BatchesHeld, NextRequest, tables, ranges, outside, ends
<1>14. CASE Done
  BY <1>14 DEF BatchesHeld, Done, Stop, tables, outside, ends
<1>15. CASE Die
  BY <1>15 DEF BatchesHeld, Die, Stop, tables, outside
<1>16. CASE Mine
  BY <1>16 DEF BatchesHeld, Mine, tables, ranges, lists, ends
<1>17. CASE Overload
  BY <1>17 DEF BatchesHeld, Overload, tables, ranges, lists, ends
<1>18. CASE Recover
  BY <1>18 DEF BatchesHeld, Recover, tables, ranges, lists, ends
<1>19. CASE UNCHANGED vars
  BY <1>19 DEF BatchesHeld, vars, tables, ranges, lists, outside, ends
<1> QED
  BY <1>1, <1>2, <1>3, <1>4, <1>5, <1>6, <1>7, <1>8, <1>9, <1>10, <1>11, <1>12, <1>13, <1>14, <1>15, <1>16, <1>17, <1>18, <1>19 DEF Next, Run

LEMMA FetchedStep ==
    ASSUME OwnTransactions, TypeOK, Phases, BatchesHeld, BatchesFetched, [Next]_vars
    PROVE  BatchesFetched'
<1>1. CASE GetLogs
  BY <1>1 DEF BatchesFetched, GetLogs, tables, lists, outside, ends
<1>2. CASE FilterLogs
  BY <1>2 DEF BatchesFetched, Looping, FilterLogs, tables, outside, ends
<1>3. CASE Unavailable
  BY <1>3 DEF BatchesFetched, Looping, Unavailable, tables, lists, outside, ends
<1>4. CASE Fatal
  BY <1>4 DEF BatchesFetched, Fatal, Stop, tables, outside
<1>5. CASE \E r \in 0..(2 * MaxHeight) : TooManyResults(r)
  BY <1>5 DEF BatchesFetched, Looping, TooManyResults, tables, lists, outside, ends
<1>6. CASE \E e \in Event : SaveEvent(e)
  <2>1. PICK e \in Event : SaveEvent(e)
    BY <1>6
  <2>2. CASE e \in stored
    BY <2>1, <2>2 DEF SaveEvent, Stop, BatchesFetched, tables
  <2>3. CASE e \notin stored
    BY <2>1, <2>3 DEF SaveEvent, BatchesFetched, Batches, ranges
  <2> QED
    BY <2>2, <2>3
<1>7. CASE \E e \in Event : SmuggleData(e)
  <2>1. PICK e \in Event : SmuggleData(e)
    BY <1>7
  <2>2. LogOf(e) = e
    BY <2>1, LogOfAsked DEF SmuggleData, Least, TypeOK, Phases, Batches
  <2> QED
    BY <2>1, <2>2 DEF SmuggleData, BatchesFetched, ranges
<1>8. CASE NextRange
  <2>1. \E b \in Int : fetched' = Watermark("azimuth", b)
    <3>1. Min({latest, to}) \in Int
      BY LowerIs DEF TypeOK
    <3> QED
      BY <1>8, <3>1 DEF NextRange
  <2>2. fetched'["naive"] = fetched["naive"]
    BY <2>1 DEF Watermark, TypeOK, Contract
  <2> QED
    BY <1>8, <2>2 DEF NextRange, BatchesFetched, tables
<1>9. CASE CatchUpNaive
  <2>1. Resume("naive") = StartBlock["naive"] \/ Resume("naive") = fetched["naive"]
    BY ResumeIs DEF Contract
  <2>2. \A e \in Batches : BlockOf[e] \in Nat /\ BlockOf[e] >= StartBlock["naive"]
    BY Constants DEF Batches
  <2>3. fetched["naive"] \in Nat /\ StartBlock["naive"] \in Nat /\ height \in Nat
    BY Constants DEF TypeOK, Contract
  <2>4. \A e \in Batches : BlockOf[e] < Resume("naive") => e \in filled
    BY <2>1, <2>2, <2>3 DEF BatchesFetched
  <2>5. /\ latest' = height
        /\ got' = LogsBetween(Batches, Resume("naive"), height)
        /\ UNCHANGED <<filled, fetched>>
    BY <1>9 DEF CatchUpNaive, Batches, tables
  <2>6. \A e \in Batches : BlockOf[e] <= height => e \in filled \cup got'
    BY <2>1, <2>2, <2>3, <2>4, <2>5 DEF LogsBetween
  <2> QED
    BY <2>5, <2>6 DEF BatchesFetched
<1>10. CASE GetTransactionData
  BY <1>10 DEF BatchesFetched, GetTransactionData, tables, ranges, lists, outside, ends
<1>11. CASE BatchCall
  <2>1. asked' \subseteq parsed_logs
    BY <1>11, FirstOf, Constants DEF BatchCall, TypeOK
  <2>2. txs = {}
    BY <1>11 DEF BatchCall, Phases, TypeOK
  <2> QED
    BY <1>11, <2>1, <2>2 DEF BatchCall, BatchesFetched, tables, ranges
<1>12. CASE RetryElement
  BY <1>12 DEF BatchesFetched, RetryElement, vars, tables, ranges, lists, outside, ends
<1>13. CASE NextRequest
  <2> DEFINE last == Max(asked)
  <2>1. asked # {} /\ asked \subseteq Batches /\ asked \subseteq stored /\ at = "answers"
        /\ txs = {} /\ got = {}
    BY <1>13 DEF NextRequest, Phases, TypeOK, Batches
  <2>2. last \in asked /\ last \in Event
    BY <2>1, GreatestOf, Zenon DEF Batches
  <2>3. /\ BlockOf[last] \in Nat /\ BlockOf[last] <= latest
        /\ latest \in Nat /\ fetched["naive"] \in Nat
    BY <2>1, <2>2, Constants DEF BatchesHeld, Phases, TypeOK, Contract
  <2> HIDE DEF last
  <2>4. fetched' = [fetched EXCEPT !["naive"] = IF @ >= BlockOf[last] THEN @ ELSE BlockOf[last]]
    <3>1. fetched' = Watermark("naive", BlockOf[last])
      BY <1>13 DEF NextRequest, last
    <3> QED
      BY <2>3, <3>1, WatermarkIs DEF Contract
  <2>5. ASSUME NEW e \in Batches, BlockOf[e] < BlockOf[last]
        PROVE  e \in filled
    <3>1. BlockOf[e] \in Nat /\ e \in Event
      BY Constants DEF Batches
    <3>2. e \in filled \cup parsed_logs
      BY <2>1, <2>3, <2>5, <3>1 DEF BatchesFetched
    <3>3. e \notin parsed_logs
      <4> SUFFICES ASSUME e \in parsed_logs PROVE FALSE
        OBVIOUS
      <4>1. last < e
        BY <2>2 DEF BatchesHeld
      <4>2. BlockOf[last] <= BlockOf[e]
        BY <2>2, <3>1, <4>1, Constants DEF Event
      <4> QED
        BY <2>3, <2>5, <3>1, <4>2
    <3> QED
      BY <3>2, <3>3
  <2>6. \A e \in Batches : BlockOf[e] < fetched'["naive"] => e \in filled
    BY <2>3, <2>4, <2>5 DEF BatchesFetched, Contract, TypeOK
  <2> QED
    BY <1>13, <2>6 DEF NextRequest, BatchesFetched, tables, ranges
<1>14. CASE Done
  <2>1. /\ at = "request" /\ at' = "down" /\ got = {} /\ parsed_logs = {} /\ txs = {}
        /\ UNCHANGED filled
    BY <1>14 DEF Done, Stop, Phases, TypeOK, tables
  <2>2. latest \in Nat /\ fetched["naive"] \in Nat
    BY Constants DEF Phases, TypeOK, Contract
  <2>3. fetched' = [fetched EXCEPT !["naive"] = IF @ >= latest THEN @ ELSE latest]
    BY <1>14, <2>2, WatermarkIs DEF Done, Contract
  <2>4. \A e \in Batches : BlockOf[e] \in Nat
    BY Constants DEF Batches
  <2>5. \A e \in Batches : BlockOf[e] < fetched'["naive"] => e \in filled
    BY <2>1, <2>2, <2>3, <2>4 DEF BatchesFetched, Contract, TypeOK
  <2> QED
    BY <2>1, <2>5 DEF BatchesFetched
<1>15. CASE Die
  BY <1>15 DEF BatchesFetched, Die, Stop, tables, outside
<1>16. CASE Mine
  BY <1>16 DEF BatchesFetched, Mine, tables, ranges, lists, ends
<1>17. CASE Overload
  BY <1>17 DEF BatchesFetched, Overload, tables, ranges, lists, ends
<1>18. CASE Recover
  BY <1>18 DEF BatchesFetched, Recover, tables, ranges, lists, ends
<1>19. CASE UNCHANGED vars
  BY <1>19 DEF BatchesFetched, vars, tables, ranges, lists, outside, ends
<1> QED
  BY <1>1, <1>2, <1>3, <1>4, <1>5, <1>6, <1>7, <1>8, <1>9, <1>10, <1>11, <1>12, <1>13, <1>14, <1>15, <1>16, <1>17, <1>18, <1>19 DEF Next, Run

-----------------------------------------------------------------------------

Scraped == TypeOK /\ Phases /\ Advancing /\ AzimuthFetched /\ BatchesHeld

LEMMA ScrapedInit == Init => Scraped /\ BatchesFetched
<1> SUFFICES ASSUME Init PROVE Scraped /\ BatchesFetched
  OBVIOUS
<1>1. TypeOK
  <2>1. fetched \in [Contract -> 0..MaxHeight] /\ height \in 1..MaxHeight
    BY Constants DEF Init
  <2>2. round \in 0..MaxRounds /\ deaths \in 0..MaxDeaths
    BY Constants DEF Init
  <2>3. {latest, from, to, batch_size} \subseteq Int
    BY DEF Init
  <2> QED
    BY <2>1, <2>2, <2>3 DEF Init, TypeOK
<1>2. Phases
  BY Constants DEF Init, Phases
<1>3. \A e \in Event : BlockOf[e] > 0
  BY Constants
<1>4. AzimuthFetched /\ BatchesHeld /\ BatchesFetched /\ Advancing
  BY <1>3, Constants DEF Init, AzimuthFetched, BatchesHeld, BatchesFetched, Advancing,
     Contract, Batches
<1> QED
  BY <1>1, <1>2, <1>4 DEF Scraped

LEMMA SpecScraped == Spec => []Scraped
<1>1. Init => Scraped
  BY ScrapedInit
<1>2. Scraped /\ [Next]_vars => Scraped'
  BY PhasesStep, AdvancingStep, AzimuthStep, HeldStep DEF Scraped
<1> QED
  BY <1>1, <1>2, PTL DEF Spec

(* Every variable of the scraper keeps its type, for any answers of the    *)
(* node.                                                                   *)
THEOREM ScraperTypes == Spec => []TypeOK
<1>1. Scraped => TypeOK
  BY DEF Scraped
<1> QED
  BY <1>1, SpecScraped, PTL

(* However the ranges of CatchUpAzimuthLogs are adapted and wherever a run *)
(* dies, a row is fetched again (and its insert panics) only in the block  *)
(* of the watermark or above it.                                           *)
THEOREM RefetchesAtTheMark == Spec => []RefetchedAtTheMark
<1>1. Scraped => RefetchedAtTheMark
  <2> SUFFICES ASSUME Scraped, NEW e \in got \cap stored
               PROVE  BlockOf[e] >= fetched[IF at = "save-azimuth" THEN "azimuth" ELSE "naive"]
    BY DEF RefetchedAtTheMark
  <2>1. CASE at = "save-azimuth"
    <3>1. BlockOf[e] \in from..to /\ BlockOf[e] \in Nat
      BY <2>1, Constants DEF Scraped, AzimuthFetched, TypeOK
    <3>2. fetched["azimuth"] \in Nat /\ from \in Int /\ to \in Int /\ batch_size \in Int
      BY Constants DEF Scraped, TypeOK, Contract
    <3> QED
      BY <2>1, <3>1, <3>2 DEF Scraped, Advancing
  <2>2. CASE at = "save-naive"
    BY <2>2 DEF Scraped, BatchesHeld
  <2> QED
    BY <2>1, <2>2 DEF Scraped, Phases
<1> QED
  BY <1>1, SpecScraped, PTL

LEMMA SpecFetched ==
    ASSUME OwnTransactions
    PROVE  Spec => [](Scraped /\ BatchesFetched)
<1>1. Init => Scraped /\ BatchesFetched
  BY ScrapedInit
<1>2. Scraped /\ BatchesFetched /\ [Next]_vars => (Scraped /\ BatchesFetched)'
  BY PhasesStep, AdvancingStep, AzimuthStep, HeldStep, FetchedStep DEF Scraped
<1> QED
  BY <1>1, <1>2, PTL DEF Spec

(* Nothing below a watermark (SetLatestContractBlockFetched) is missing,   *)
(* wherever get_logs died, so that a resumed run has no need to go back,   *)
(* when no two batches are in one transaction.                             *)
THEOREM SkipsNothing ==
    ASSUME OwnTransactions
    PROVE  Spec => []NothingSkipped
<1>1. Scraped /\ BatchesFetched => NothingSkipped
  BY DEF Scraped, AzimuthFetched, BatchesFetched, NothingSkipped, Batches
<1> QED
  BY <1>1, SpecFetched, PTL

(* A get_logs that came to its end leaves no batch without its data        *)
(* (SmuggleNaiveBatchDataIntoEvent), when no two batches are in one        *)
(* transaction.                                                            *)
THEOREM EndsWithAllData ==
    ASSUME OwnTransactions
    PROVE  Spec => EachLogHasData
<1>1. Scraped /\ BatchesFetched /\ [Next]_vars =>
         [at = "request" /\ at' = "down" /\ deaths' = deaths => stored \subseteq filled]_vars
  <2> SUFFICES ASSUME Scraped, BatchesFetched, [Next]_vars,
                      at = "request", at' = "down", deaths' = deaths
               PROVE  stored \subseteq filled
    OBVIOUS
  <2>1. parsed_logs = {} /\ got = {} /\ txs = {}
    <3>1. Done
      BY Constants DEF Next, Run, GetLogs, FilterLogs, Unavailable, Fatal, TooManyResults,
         Looping, SaveEvent, SmuggleData, NextRange, CatchUpNaive, GetTransactionData,
         BatchCall, RetryElement, NextRequest, Die, Mine, Overload, Recover, vars, Scraped,
         TypeOK
    <3> QED
      BY <3>1 DEF Done, Scraped, Phases, TypeOK
  <2>2. \A e \in stored \cap Batches : e \in filled
    BY <2>1 DEF Scraped, BatchesHeld, BatchesFetched
  <2> QED
    BY <2>2 DEF Scraped, Phases, TypeOK, Batches
<1> QED
  BY <1>1, SpecFetched, PTL DEF Spec, EachLogHasData

(* A batch without its data that nobody is about to fetch.                 *)
Abandoned(e) == /\ e \in stored \ filled
                /\ e \notin AzimuthLogs
                /\ e \notin parsed_logs \cup asked

(* It is not taken up again: only rows that are new are asked for.         *)
LEMMA StaysAbandoned ==
    ASSUME Scraped, NEW e \in Event, Abandoned(e), [Next]_vars
    PROVE  Abandoned(e)'
<1>1. CASE UNCHANGED vars
  BY <1>1 DEF vars, tables, lists, Abandoned
<1>2. CASE UNCHANGED tables /\ parsed_logs' \cup asked' \subseteq parsed_logs \cup asked
  BY <1>2 DEF tables, Abandoned
<1>3. ASSUME NEW f \in Event, SaveEvent(f) PROVE Abandoned(e)'
  <2>1. CASE f \in stored
    BY <1>3, <2>1 DEF SaveEvent, Stop, tables, Abandoned
  <2>2. CASE f \notin stored
    BY <1>3, <2>2 DEF SaveEvent, Abandoned
  <2> QED
    BY <2>1, <2>2
<1>4. ASSUME NEW f \in Event, SmuggleData(f) PROVE Abandoned(e)'
  <2>1. asked \subseteq Batches /\ f \in asked
    BY <1>4 DEF SmuggleData, Least, Scraped, TypeOK, Phases, Batches
  <2>2. LogOf(f) \in asked
    BY <2>1, LogOfAsked
  <2> QED
    BY <1>4, <2>2 DEF SmuggleData, Abandoned
<1>5. ASSUME BatchCall
      PROVE  UNCHANGED tables /\ parsed_logs' \cup asked' \subseteq parsed_logs \cup asked
  <2>1. asked' \subseteq parsed_logs
    BY <1>5, FirstOf, Constants DEF BatchCall, Scraped, TypeOK
  <2> QED
    BY <1>5, <2>1 DEF BatchCall
<1>6. Next => \/ UNCHANGED tables /\ parsed_logs' \cup asked' \subseteq parsed_logs \cup asked
              \/ \E f \in Event : SaveEvent(f) \/ SmuggleData(f)
              \/ BatchCall
  BY DEF Next, Run, GetLogs, FilterLogs, Unavailable, Fatal, TooManyResults, Stop, NextRange,
     CatchUpNaive, GetTransactionData, RetryElement, NextRequest, Done, Die, Mine, Overload,
     Recover, lists, vars
<1> QED
  BY <1>1, <1>2, <1>3, <1>4, <1>5, <1>6

(* A file that some get_logs left with a batch but not its data stays one: *)
(* the insert of a row that is already there fails (SaveEvent), and only   *)
(* the data of rows that were new to a run is asked for.                   *)
THEOREM LeftBareForGood == Spec => InvalidForGood
<1> DEFINE Left == \E e \in Event : Abandoned(e)
<1>1. Scraped /\ at = "down" /\ stored # filled => Left
  <2> SUFFICES ASSUME Scraped, at = "down", stored # filled PROVE Left
    OBVIOUS
  <2>1. PICK e \in Event : e \in stored \ filled
    BY DEF Scraped, TypeOK
  <2>2. e \notin AzimuthLogs /\ parsed_logs \cup asked = {}
    BY <2>1 DEF Scraped, Phases
  <2> QED
    BY <2>1, <2>2 DEF Abandoned
<1>2. Scraped /\ Left /\ [Next]_vars => Left'
  <2> SUFFICES ASSUME Scraped, NEW e \in Event, Abandoned(e), [Next]_vars PROVE Left'
    OBVIOUS
  <2> QED
    BY StaysAbandoned
<1>3. Left => stored # filled
  BY DEF Abandoned
<1> HIDE DEF Left
<1> QED
  BY <1>1, <1>2, <1>3, SpecScraped, PTL DEF Spec, InvalidForGood
=============================================================================
