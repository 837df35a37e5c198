-------------------------------- MODULE Inspect --------------------------------
(***************************************************************************)
(* The commands that only read a database: query, which looks up a ship by *)
(* its name as show_logs, store_key, sign and verify do, and diff_roller.  *)
(* The variables describe the last of them that was run: they share        *)
(* nothing but the tables, so that two that overlap do nothing that they   *)
(* do not do one after the other.                                          *)
(*                                                                         *)
(* Sources: cmd/main.go, pkg/db/point.go.                                  *)
(***************************************************************************)
EXTENDS Phonemes, RollerDiff

CONSTANT Typed     \* the names that may be typed

VARIABLES
    asked,         \* the name of the last query
    answer         \* the point that it looked up, and what it printed of it

query_vars == <<asked, answer>>
vars == <<prf, replays, diff_vars, query_vars>>

NoName   == << >>
NotFound == 0

ASSUME InspectAssumption == Point \subseteq Long /\ Typed \subseteq Seq(Seq(Syllable))

-----------------------------------------------------------------------------

NoAnswer == <<NotAName, NotFound>>

Init == /\ prf \in Hashes
        /\ DiffInit
        /\ asked = NoName /\ answer = NoAnswer

(* AzimuthNumber(point) keeps 32 bits of the number that the name has.     *)
AzimuthNumber(i) == i % TwoWords

GetPoint(n) == IF n \in Point THEN table[n] ELSE NotFound

(* Not a ship's name: the command ends without a look at the database.     *)
Query(name) ==
    /\ at # "asking"
    /\ asked' = name
    /\ LET point == PhonemeToInt(name)
       IN answer' = IF point = NotAName THEN NoAnswer
                    ELSE <<point, GetPoint(AzimuthNumber(point))>>
    /\ at' = "down"
    /\ points' = NoRows /\ todo' = {}
    /\ seen' = NoRows /\ diffs' = NoDiffs
    /\ UNCHANGED <<prf, replays>>

Diff == /\ DiffNext
        /\ asked' = IF at' = at THEN asked ELSE NoName
        /\ answer' = IF at' = at THEN answer ELSE NoAnswer
        /\ UNCHANGED prf

Next == Diff \/ \E name \in Typed : Query(name)

Spec == Init /\ [][Next]_vars

-----------------------------------------------------------------------------

(* Each name that a number is given is that number's alone, also of moons  *)
(* and comets' halves, and a query of it answers with the row of that      *)
(* point or, when it is not below 2^32 (main.go:159), of its low 32 bits.  *)
NamesItself ==
    Canonical(asked) =>
       LET point == answer[1]
       IN /\ point \in ULong
          /\ IntToPhoneme(point) = asked
          /\ answer[2] <= GetPoint(point % TwoWords)
=============================================================================
