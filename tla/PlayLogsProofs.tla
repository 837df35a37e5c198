---------------------------- MODULE PlayLogsProofs ----------------------------
(***************************************************************************)
(* The replay engine plays the log in order, each event in full and once,  *)
(* for any log, any slice length, any panicking events and any crashes:    *)
(* PlayLogs implements Replay.                                             *)
(***************************************************************************)
EXTENDS PlayLogs, FiniteSetTheorems, TLAPS

LEMMA Constants ==
    /\ Last \in Nat
    /\ AzimuthLogs \subseteq Event
    /\ Size \in [Event -> Nat]
    /\ NaiveStart \in 1..(Last + 1)
    /\ 1..(NaiveStart - 1) \subseteq AzimuthLogs
    /\ Limit \in Nat \ {0}
    /\ Poison \subseteq Event
    /\ MaxCrashes \in Nat
BY EventAssumption, LogAssumption

(* A select takes a stretch of the log.                                    *)
LEMMA FirstOfStretch ==
    ASSUME NEW k \in Nat, NEW a \in Int, NEW b \in Int
    PROVE  First(k, a..b) = {e \in a..b : e - a < k}
<1>1. ASSUME NEW e \in a..b
      PROVE  Cardinality({f \in a..b : f < e}) = e - a
  <2>1. {f \in a..b : f < e} = a..(e - 1)
    OBVIOUS
  <2>2. Cardinality(a..(e - 1)) = IF a > e - 1 THEN 0 ELSE (e - 1) - a + 1
    BY FS_Interval
  <2>3. e - 1 \in Int /\ (IF a > e - 1 THEN 0 ELSE (e - 1) - a + 1) = e - a
    OBVIOUS
  <2> QED
    BY <2>1, <2>2, <2>3, Zenon
<1> QED
  BY <1>1 DEF First

LEMMA FirstIsStretch ==
    ASSUME NEW l \in Nat \ {0}, NEW k \in Nat, NEW b \in Nat, k <= b
    PROVE  \E t \in k..b : /\ First(l, (k + 1)..b) = (k + 1)..t
                           /\ t = k <=> b = k
<1> DEFINE t == IF k + l <= b THEN k + l ELSE b
<1>1. t \in k..b /\ (t = k <=> b = k)
  OBVIOUS
<1>2. {e \in (k + 1)..b : e - (k + 1) < l} = (k + 1)..t
  OBVIOUS
<1>3. First(l, (k + 1)..b) = (k + 1)..t
  <2>1. l \in Nat /\ k + 1 \in Int /\ b \in Int
    OBVIOUS
  <2>2. First(l, (k + 1)..b) = {e \in (k + 1)..b : e - (k + 1) < l}
    BY <2>1, FirstOfStretch, Zenon
  <2> QED
    BY <1>2, <2>2, Zenon
<1> QED
  BY <1>1, <1>3

-----------------------------------------------------------------------------
(* The first k events are committed, the first m marked in the open        *)
(* transaction, and those after m up to t are left of the last select.     *)
Frame(k, m, t) ==
    /\ k \in 0..Last
    /\ m \in k..Last
    /\ t \in m..Last
    /\ processed = 1..k
    /\ committed = Replayed!Upto(k)
    /\ marked = 1..m
    /\ todo = (m + 1)..t
    /\ view \in [Event -> Nat]
    /\ \A e \in 1..m : view[e] = Size[e]
    /\ \A e \in Event : e > m /\ view[e] > 0 => Playing(e) /\ view[e] <= Size[e]
    /\ pc \in {"down", "azimuth", "naive"} => t = k
    /\ pc = "next" => m = k
    /\ pc = "event" => \/ m = k /\ t > k
                       \/ m = k + 1

Inductive == /\ stored = Event
             /\ filled = Event
             /\ poison \subseteq Poison
             /\ crashes \in 0..MaxCrashes
             /\ pc \in {"down", "azimuth", "batch", "naive", "next", "event"}
             /\ \E k, m, t \in 0..Last : Frame(k, m, t)

LEMMA UptoType ==
    ASSUME NEW k \in 0..Last
    PROVE  /\ Replayed!Upto(k) \in [Event -> Nat]
           /\ \A e \in 1..k : Replayed!Upto(k)[e] = Size[e]
           /\ \A e \in Event : e > k => Replayed!Upto(k)[e] = 0
BY Constants DEF Replayed!Upto, Replayed!Event, Event

(* Nothing of an event not being played is in the open transaction.        *)
LEMMA ViewIsUpto ==
    ASSUME NEW k \in 0..Last, NEW m \in 0..Last, NEW t \in 0..Last,
           Frame(k, m, t), \A e \in Event : e > m => ~Playing(e)
    PROVE  view = Replayed!Upto(m)
<1>1. \A e \in Event : view[e] = Replayed!Upto(m)[e]
  <2> SUFFICES ASSUME NEW e \in Event PROVE view[e] = Replayed!Upto(m)[e]
    OBVIOUS
  <2>1. CASE e <= m
    BY <2>1, UptoType DEF Frame, Event
  <2>2. CASE e > m
    BY <2>2, UptoType DEF Frame, Event
  <2> QED
    BY <2>1, <2>2, Constants DEF Event
<1>2. view \in [Event -> Nat] /\ Replayed!Upto(m) \in [Event -> Nat]
  BY UptoType DEF Frame
<1> QED
  BY <1>1, <1>2

LEMMA InductiveInit == Init => Inductive
<1> SUFFICES ASSUME Init PROVE Inductive
  OBVIOUS
<1>1. Frame(0, 0, 0)
  <2>1. committed = Replayed!Upto(0)
    BY Constants DEF Init, Unplayed, Replayed!Upto, Replayed!Event, Event
  <2>2. committed \in [Event -> Nat] /\ \A e \in Event : committed[e] = 0
    BY DEF Init, Unplayed
  <2> QED
    BY <2>1, <2>2, Constants DEF Init, Unplayed, Frame
<1> QED
  BY <1>1, Constants DEF Init, Unplayed, Inductive

-----------------------------------------------------------------------------

LEMMA SelectAzimuthKeeps ==
    ASSUME Inductive, SelectAzimuth
    PROVE  Inductive'
<1>1. PICK k, m, t \in 0..Last : Frame(k, m, t)
  BY DEF Inductive
<1>2. m = k /\ t = k /\ ~(\E e \in Event : Playing(e))
  BY <1>1 DEF SelectAzimuth, Frame, Playing
<1> DEFINE b == IF k < NaiveStart THEN NaiveStart - 1 ELSE k
<1>3. {e \in Unprocessed \cap AzimuthLogs : e < NaiveStart} = (k + 1)..b
  <2>1. Unprocessed = (k + 1)..Last
    BY <1>1, Constants, SMTT(30) DEF Frame, Unprocessed, Inductive, Event
  <2>2. /\ NaiveStart \in 1..(Last + 1) /\ Last \in Nat /\ k \in 0..Last
        /\ 1..(NaiveStart - 1) \subseteq AzimuthLogs
    BY Constants
  <2>3. \A e \in (k + 1)..Last : e < NaiveStart => e \in AzimuthLogs
    BY <2>2
  <2>4. {e \in Unprocessed \cap AzimuthLogs : e < NaiveStart}
           = {e \in (k + 1)..Last : e < NaiveStart}
    BY <2>1, <2>3
  <2>5. {e \in (k + 1)..Last : e < NaiveStart} = (k + 1)..b
    BY <2>2
  <2> QED
    BY <2>4, <2>5
<1>4. b \in k..Last
  BY <1>1, Constants DEF Frame
<1>5. PICK u \in k..b : /\ First(Limit, (k + 1)..b) = (k + 1)..u
                        /\ u = k <=> b = k
  <2>1. Limit \in Nat \ {0} /\ k \in Nat /\ b \in Nat /\ k <= b
    BY <1>4, Constants
  <2> HIDE DEF b
  <2> QED
    BY <2>1, FirstIsStretch
<1>6. todo' = (k + 1)..u /\ u \in k..Last
  <2>1. todo' = First(Limit, {e \in Unprocessed \cap AzimuthLogs : e < NaiveStart})
    BY DEF SelectAzimuth
  <2>2. todo' = (k + 1)..u
    BY <1>3, <1>5, <2>1
  <2>3. u \in k..Last
    BY <1>4, <1>5, Constants
  <2> QED
    BY <2>2, <2>3
<1>7. pc' = IF u = k THEN "naive" ELSE "batch"
  <2>1. todo' = {} <=> u = k
    BY <1>6, Constants
  <2> QED
    BY <2>1 DEF SelectAzimuth
<1>8. view = Replayed!Upto(k)
  BY <1>1, <1>2, ViewIsUpto
<1>9. Frame(k, k, u)'
  BY <1>1, <1>2, <1>6, <1>7, <1>8, UptoType
     DEF Frame, SelectAzimuth, database, transaction, table
<1> QED
  BY <1>1, <1>6, <1>7, <1>9
     DEF Inductive, SelectAzimuth, table

LEMMA SelectNaiveKeeps ==
    ASSUME Inductive, SelectNaive
    PROVE  Inductive'
<1>1. PICK k, m, t \in 0..Last : Frame(k, m, t)
  BY DEF Inductive
<1>2. m = k /\ t = k /\ ~(\E e \in Event : Playing(e))
  BY <1>1 DEF SelectNaive, Frame, Playing
<1>3. todo' = (k + 1)..Last
  BY <1>1, Constants DEF Frame, Unprocessed, Inductive, Event, SelectNaive
<1>4. pc' = IF Last = k THEN "down" ELSE "next"
  BY <1>1, <1>3, Constants DEF SelectNaive, Frame
<1>5. view = Replayed!Upto(k)
  BY <1>1, <1>2, ViewIsUpto
<1>6. \A e \in Event : e > k => ~(view[e] > 0)
  BY <1>5, UptoType
<1>7. Last \in k..Last
  BY Constants
<1>8. Frame(k, k, Last)'
  BY <1>1, <1>2, <1>3, <1>4, <1>6, <1>7
     DEF Frame, SelectNaive, database, transaction, table
<1> QED
  BY <1>1, <1>4, <1>7, <1>8, Constants DEF Inductive, SelectNaive, table

LEMMA StartKeeps ==
    ASSUME Inductive, Start
    PROVE  Inductive'
<1>1. PICK k, m, t \in 0..Last : Frame(k, m, t)
  BY DEF Inductive
<1>2. Frame(k, m, t)'
  BY <1>1 DEF Frame, Start, Playing, Least, database, transaction, table
<1> QED
  BY <1>2 DEF Inductive, Start, table

LEMMA BeginKeeps ==
    ASSUME Inductive, Begin
    PROVE  Inductive'
<1>1. PICK k, m, t \in 0..Last : Frame(k, m, t)
  BY DEF Inductive
<1>2. m = k /\ ~(\E e \in Event : Playing(e))
  BY <1>1 DEF Begin, Frame, Playing
<1>3. todo = {} <=> t = k
  BY <1>1, <1>2, Constants DEF Frame
<1>4. Frame(k, m, t)'
  BY <1>1, <1>2, <1>3, Constants
     DEF Frame, Begin, database, transaction, table
<1> QED
  BY <1>4 DEF Inductive, Begin, table

LEMMA PlayingIsNext ==
    ASSUME Inductive, NEW k \in 0..Last, NEW m \in 0..Last, NEW t \in 0..Last,
           Frame(k, m, t), NEW e \in Event, Playing(e)
    PROVE  /\ e = m + 1 /\ m < t
           /\ pc \in {"batch", "event"}
           /\ pc = "event" => m = k
           /\ Writes(e) = Size[e]
BY Constants DEF Frame, Playing, Least, Inductive, Writes

LEMMA WriteKeeps ==
    ASSUME Inductive, NEW e \in Event, Write(e)
    PROVE  Inductive'
<1>1. PICK k, m, t \in 0..Last : Frame(k, m, t)
  BY DEF Inductive
<1>2. /\ e = m + 1 /\ pc \in {"batch", "event"}
      /\ Writes(e) = Size[e] /\ Playing(e)
  BY <1>1, PlayingIsNext DEF Write
<1>3. Playing(e)'
  BY <1>2 DEF Write, Playing, Least, database
<1>4. /\ view' \in [Event -> Nat]
      /\ \A f \in Event : view'[f] = IF f = e THEN view[f] + 1 ELSE view[f]
      /\ view[e] + 1 <= Size[e]
  BY <1>1, <1>2, Constants DEF Write, Frame
<1>5. \A f \in Event : f > m /\ view'[f] > 0 => Playing(f)' /\ view'[f] <= Size[f]
  <2> SUFFICES ASSUME NEW f \in Event, f > m, view'[f] > 0
               PROVE  Playing(f)' /\ view'[f] <= Size[f]
    OBVIOUS
  <2>1. CASE f = e
    BY <1>3, <1>4, <2>1
  <2>2. CASE f # e
    <3>1. Playing(f)
      BY <1>1, <1>4, <2>2 DEF Frame
    <3> QED
      BY <1>1, <1>2, <2>2, <3>1, PlayingIsNext
  <2> QED
    BY <2>1, <2>2
<1>6. \A f \in 1..m : view'[f] = Size[f]
  BY <1>1, <1>2, <1>4, Constants DEF Frame, Event
<1>7. Frame(k, m, t)'
  BY <1>1, <1>2, <1>4, <1>5, <1>6 DEF Frame, Write, database
<1> QED
  BY <1>7 DEF Inductive, Write, table

LEMMA MarkKeeps ==
    ASSUME Inductive, NEW e \in Event, MarkProcessed(e)
    PROVE  Inductive'
<1>1. PICK k, m, t \in 0..Last : Frame(k, m, t)
  BY DEF Inductive
<1>2. /\ e = m + 1 /\ m < t /\ pc \in {"batch", "event"}
      /\ pc = "event" => m = k
      /\ Writes(e) = Size[e] /\ Playing(e)
  BY <1>1, PlayingIsNext DEF MarkProcessed
<1>3. marked' = 1..(m + 1) /\ todo' = (m + 2)..t
  BY <1>1, <1>2, Constants DEF MarkProcessed, Frame
<1>4. \A f \in 1..(m + 1) : view[f] = Size[f]
  BY <1>1, <1>2 DEF MarkProcessed, Frame
<1>5. \A f \in Event : f > m + 1 => ~(view[f] > 0)
  <2> SUFFICES ASSUME NEW f \in Event, f > m + 1, view[f] > 0
               PROVE  FALSE
    OBVIOUS
  <2>1. f > m
    BY DEF Event
  <2>2. Playing(f)
    BY <1>1, <2>1 DEF Frame
  <2>3. f = m + 1
    BY <1>1, <2>2, PlayingIsNext
  <2> QED
    BY <2>3
<1>6. Frame(k, m + 1, t)'
  BY <1>1, <1>2, <1>3, <1>4, <1>5, Constants, SMTT(30)
     DEF Frame, MarkProcessed, database, Event
<1> QED
  <2>1. m + 1 \in 0..Last
    BY <1>1, <1>2, Constants DEF Frame
  <2>2. \E i, j, l \in 0..Last : Frame(i, j, l)'
    BY <1>6, <2>1
  <2> QED
    BY <2>2 DEF Inductive, MarkProcessed, table

LEMMA CommitKeeps ==
    ASSUME Inductive, Commit
    PROVE  /\ Inductive'
           /\ \E j \in 0..Last : \E m \in j..Last :
                 /\ committed = Replayed!Upto(j)
                 /\ committed' = Replayed!Upto(m)
<1>1. PICK k, m, t \in 0..Last : Frame(k, m, t)
  BY DEF Inductive
<1>2. ~(\E e \in Event : Playing(e))
  BY <1>1 DEF Commit, Playing, Least
<1>3. view = Replayed!Upto(m)
  BY <1>1, <1>2, ViewIsUpto
<1>4. pc = "batch" => t = m
  BY <1>1, Constants DEF Commit, Frame
<1>5. ~(\E e \in Event : Playing(e))'
  BY DEF Commit, Playing
<1>6. Frame(m, m, t)'
  BY <1>1, <1>3, <1>4, <1>5, UptoType, Constants
     DEF Commit, Frame, transaction
<1>7. Inductive'
  BY <1>1, <1>6 DEF Inductive, Commit, table
<1> QED
  BY <1>1, <1>3, <1>7 DEF Commit, Frame

LEMMA DieKeeps ==
    ASSUME Inductive, Die, crashes' \in 0..MaxCrashes
    PROVE  Inductive'
<1>1. PICK k, m, t \in 0..Last : Frame(k, m, t)
  BY DEF Inductive
<1>2. todo' = (k + 1)..k
  BY <1>1, Constants DEF Die, Frame
<1>3. Frame(k, k, k)'
  BY <1>1, <1>2, UptoType, Constants DEF Die, Frame, database
<1> QED
  BY <1>1, <1>3 DEF Inductive, Die, table

LEMMA InductiveStep == Inductive /\ [Next]_vars => Inductive'
<1> SUFFICES ASSUME Inductive, [Next]_vars PROVE Inductive'
  OBVIOUS
<1>1. CASE UNCHANGED vars
  BY <1>1 DEF vars, table, Inductive, Frame, Playing, Least
<1>2. CASE Crash
  <2>1. crashes' \in 0..MaxCrashes
    BY <1>2, Constants DEF Crash, Inductive
  <2> QED
    BY <1>2, <2>1, DieKeeps DEF Crash
<1>3. ASSUME NEW e \in Event, Panic(e)
      PROVE  Inductive'
  BY <1>3, DieKeeps DEF Panic, Inductive
<1> QED
  BY <1>1, <1>2, <1>3, StartKeeps, SelectAzimuthKeeps, SelectNaiveKeeps,
     BeginKeeps, CommitKeeps, WriteKeeps, MarkKeeps DEF Next, Step

LEMMA SpecInductive == Spec => []Inductive
BY InductiveInit, InductiveStep, PTL DEF Spec

-----------------------------------------------------------------------------

(* Every variable keeps its type, for any log and any crashes.             *)
THEOREM ReplayTypes == Spec => []TypeOK
<1>1. Inductive => TypeOK
  <2> SUFFICES ASSUME Inductive PROVE TypeOK
    OBVIOUS
  <2>1. PICK k, m, t \in 0..Last : Frame(k, m, t)
    BY DEF Inductive
  <2>2. /\ processed \subseteq Event /\ marked \subseteq Event
        /\ todo \subseteq Event
    BY <2>1, Constants DEF Frame, Event
  <2>3. \A e \in Event : view[e] <= Size[e]
    BY <2>1, Constants DEF Frame, Event
  <2>4. committed \in [Event -> Nat] /\ view \in [Event -> Nat]
    BY <2>1, UptoType DEF Frame
  <2> QED
    BY <2>2, <2>3, <2>4 DEF Inductive, TypeOK
<1> QED
  BY <1>1, SpecInductive, PTL

(* A handler sees the effects of exactly the events before its own, so L1  *)
(* and L2 are interleaved as on the chain (the comment of PlayNaiveLogs).  *)
THEOREM HandlersSeeThePast == Spec => []SeesThePast
<1>1. Inductive => SeesThePast
  <2> SUFFICES ASSUME Inductive, NEW e \in Event, view[e] > 0,
                      NEW f \in 1..(e - 1)
               PROVE  view[f] = Size[f]
    BY DEF SeesThePast
  <2>1. PICK k, m, t \in 0..Last : Frame(k, m, t)
    BY DEF Inductive
  <2>2. e <= m + 1
    <3>1. CASE e > m
      <4>1. Playing(e)
        BY <2>1, <3>1 DEF Frame
      <4> QED
        BY <2>1, <4>1, PlayingIsNext
    <3> QED
      BY <2>1, <3>1 DEF Frame, Event
  <2> QED
    BY <2>1, <2>2, Constants DEF Frame, Event
<1> QED
  BY <1>1, SpecInductive, PTL

(* The mark of an event is committed with its effects and never without:   *)
(* a restart neither repeats nor skips one.                                *)
THEOREM MarksFollowEffects == Spec => []MarkedIffPlayed
<1>1. Inductive => MarkedIffPlayed
  <2> SUFFICES ASSUME Inductive PROVE MarkedIffPlayed
    OBVIOUS
  <2>1. PICK k, m, t \in 0..Last : Frame(k, m, t)
    BY DEF Inductive
  <2>2. \A e \in processed : committed[e] = Size[e]
    BY <2>1, UptoType DEF Frame
  <2>3. \A e \in Event \ processed : committed[e] = 0
    <3>1. \A e \in Event \ processed : e > k
      BY <2>1, Constants DEF Frame, Event
    <3> QED
      BY <2>1, <3>1, UptoType DEF Frame
  <2>4. \A e \in marked : view[e] = Size[e]
    BY <2>1 DEF Frame
  <2>5. \A e \in Event \ marked : view[e] > 0 => Playing(e)
    BY <2>1, Constants DEF Frame, Event
  <2> QED
    BY <2>2, <2>3, <2>4, <2>5 DEF MarkedIffPlayed
<1> QED
  BY <1>1, SpecInductive, PTL

(* The replay engine, killed and started again at any time, implements the *)
(* abstract replay: whole events, in order, once.                          *)
THEOREM PlayLogsImplementsReplay == Spec => Implements
<1>1. Init => Replayed!Init
  BY Constants DEF Init, Unplayed, Replayed!Init, Replayed!Upto, Replayed!Event, Event
<1>2. Inductive /\ [Next]_vars => [Replayed!Advance]_committed
  <2> SUFFICES ASSUME Inductive, [Next]_vars, committed' # committed
               PROVE  Replayed!Advance
    OBVIOUS
  <2>1. Commit
    BY DEF Next, Step, Start, SelectAzimuth, SelectNaive, Begin, Write,
           MarkProcessed, Panic, Crash, Die, vars, database
  <2> QED
    BY <2>1, CommitKeeps DEF Replayed!Advance
<1> QED
  BY <1>1, <1>2, SpecInductive, PTL DEF Spec, Implements, Replayed!Spec
=============================================================================
