------------------------------ MODULE RollerDiff ------------------------------
(***************************************************************************)
(* diff_roller: reads the rows of all points at once, asks a roller for    *)
(* one point after the other, and prints the fields in which they differ.  *)
(* The roller plays the same chain, and goes on while it is asked; so may  *)
(* a play_logs on the database.                                            *)
(*                                                                         *)
(* The roller is external.  Its answer has all of a point but the voting   *)
(* proxy, a null for an escape that is not requested, and zeros for a key  *)
(* that is not set; or it is an error; or it has neither a result nor an   *)
(* error.  Numbers and keys in it are well formed: the code prints others  *)
(* as mismatches.                                                          *)
(*                                                                         *)
(* Sources: cmd/subcmd_diff_roller.go, cmd/main.go, pkg/db/point.go.       *)
(***************************************************************************)
EXTENDS Integers, Sequences

CONSTANT History   \* the rows that each point has, one after the other

VARIABLES
    table,       \* how far along its history each point of the database is
    roller,      \* and each point of the roller; 0 is no row
    points,      \* the rows that diff_roller read
    todo,        \* those it has not asked for yet
    at,          \* where it is, "down" before the first
    seen,        \* how far along the roller was when it was asked, 0 when
                 \* it was not, or NoResult
    diffs        \* the fields printed as mismatches

replays  == <<table, roller>>
diff_vars == <<points, todo, at, seen, diffs>>

Point == DOMAIN History

-----------------------------------------------------------------------------

Null == -1

dominionToString(code) == <<"l1", "l2", "spawn">>[code]

(* What the roller says of a point.                                        *)
RollerPoint(row) ==
    [row EXCEPT !.dominion = dominionToString(@),
                !.encryption_key = IF @ = "none" THEN "zeros" ELSE @,
                !.auth_key = IF @ = "none" THEN "zeros" ELSE @,
                !.escape_requested_to = IF row.is_escape_requested THEN @ ELSE Null]

isZeroOrEmpty(key) == key \in {"none", "zeros"}

(* Compared whatever the others are: the owner, the proxies with their     *)
(* nonces, and the numbers.                                                *)
Plain == {"owner", "management", "spawn", "transfer", "rift", "life", "suite",
          "has_sponsor"}

Keys == {"encryption_key", "auth_key"}

Fields == Plain \cup Keys \cup {"dominion", "sponsor", "is_escape_requested",
                               "escape_requested_to"}

(* What the columns of schema.sql:22 can hold: the events write no other   *)
(* dominion, and a target is the uint32 of another ship.                   *)
IsRow(row) == /\ DOMAIN row = Fields
              /\ row.dominion \in 1..3
              /\ row.has_sponsor \in BOOLEAN /\ row.is_escape_requested \in BOOLEAN
              /\ row.escape_requested_to \in Nat

ASSUME HistoryAssumption ==
    /\ Point \subseteq Nat
    /\ \A n \in Point : /\ Len(History[n]) \in Nat \ {0}
                        /\ \A i \in 1..Len(History[n]) : IsRow(History[n][i])

(* Mutant: no escape taken for an escape to ship 0. *)
NullIsZero(dbp, rp) ==
    {f \in Plain : dbp[f] # rp[f]}
    \cup {f \in {"dominion"} : dominionToString(dbp[f]) # rp[f]}
    \cup {f \in Keys : dbp[f] # rp[f] /\ ~(isZeroOrEmpty(dbp[f]) /\ isZeroOrEmpty(rp[f]))}
    \cup {f \in {"sponsor"} : rp.has_sponsor /\ dbp[f] # rp[f]}
    \cup {f \in {"is_escape_requested"} : dbp[f] # (rp.escape_requested_to > 0)}
    \cup {f \in {"escape_requested_to"} : rp[f] > 0 /\ dbp[f] # rp[f]}

DiffDBPointWithRemote(dbp, rp) ==
    {f \in Plain : dbp[f] # rp[f]}
    \cup {f \in {"dominion"} : dominionToString(dbp[f]) # rp[f]}
    \cup {f \in Keys : dbp[f] # rp[f] /\ ~(isZeroOrEmpty(dbp[f]) /\ isZeroOrEmpty(rp[f]))}
    \cup {f \in {"sponsor"} : rp.has_sponsor /\ dbp[f] # rp[f]}
    \cup {f \in {"is_escape_requested"} : dbp[f] # (rp.escape_requested_to # Null)}
    \cup {f \in {"escape_requested_to"} : rp[f] # Null /\ dbp[f] # rp[f]}

(* An answer without a result is decoded to a point whose numbers and      *)
(* addresses are empty strings, which are not those of any row.            *)
DiffDBPointWithNothing(dbp) ==
    (Plain \ {"has_sponsor"}) \cup {"dominion"}
    \cup {f \in Keys : ~isZeroOrEmpty(dbp[f])}
    \cup {f \in {"has_sponsor", "is_escape_requested"} : dbp[f]}

-----------------------------------------------------------------------------

NoResult == -1

NoRows  == [n \in Point |-> 0]
NoDiffs == [n \in Point |-> {}]

DiffInit == /\ table = NoRows /\ roller = NoRows /\ points = NoRows
            /\ todo = {}
            /\ at = "down"
            /\ seen = NoRows /\ diffs = NoDiffs

Plays(n) == /\ \/ /\ table[n] < Len(History[n])
                  /\ table' = [table EXCEPT ![n] = @ + 1]
                  /\ UNCHANGED roller
               \/ /\ roller[n] < Len(History[n])
                  /\ roller' = [roller EXCEPT ![n] = @ + 1]
                  /\ UNCHANGED table
            /\ UNCHANGED diff_vars

(* GetPoints.  Without a row there is nothing to ask.                      *)
CheckPoints == /\ at # "asking"
               /\ points' = table
               /\ todo' = {n \in Point : table[n] > 0}
               /\ at' = IF todo' = {} THEN "done" ELSE "asking"
               /\ seen' = NoRows /\ diffs' = NoDiffs
               /\ UNCHANGED replays

(* One request and its answer.                                             *)
Asks(n) == /\ at = "asking"
           /\ n \in todo /\ \A m \in todo : n <= m
           /\ todo' = todo \ {n}
           /\ at' = IF todo' = {} THEN "done" ELSE "asking"
           /\ UNCHANGED <<replays, points>>

AskRoller(n) ==
    /\ Asks(n)
    /\ roller[n] > 0
    /\ seen' = [seen EXCEPT ![n] = roller[n]]
    /\ diffs' = [diffs EXCEPT ![n] =
                    DiffDBPointWithRemote(History[n][points[n]],
                                          RollerPoint(History[n][roller[n]]))]

(* Neither a result nor an error.                                          *)
EmptyAnswer(n) ==
    /\ Asks(n)
    /\ seen' = [seen EXCEPT ![n] = NoResult]
    /\ diffs' = [diffs EXCEPT ![n] = DiffDBPointWithNothing(History[n][points[n]])]

(* An error of the connection or in the answer, as for a point the roller  *)
(* does not know: the rest is not asked for.                               *)
RollerFails == /\ at = "asking"
               /\ at' = "error"
               /\ todo' = {}
               /\ UNCHANGED <<replays, points, seen, diffs>>

DiffNext == \/ CheckPoints
            \/ RollerFails
            \/ \E n \in Point : Plays(n) \/ AskRoller(n) \/ EmptyAnswer(n)

-----------------------------------------------------------------------------

(* All that a row says in the fields that are compared, which the voting   *)
(* proxy and is_active are not among: an escape that is not requested has  *)
(* no target, a lost sponsor is none, a key of zeros is no key.            *)
Says(row) ==
    [f \in Plain \cup Keys \cup {"dominion", "sponsor", "escape_requested_to"} |->
        CASE f = "sponsor" /\ ~row.has_sponsor                     -> Null
          [] f = "escape_requested_to" /\ ~row.is_escape_requested -> Null
          [] f \in Keys /\ isZeroOrEmpty(row[f])                   -> "none"
          [] OTHER                                                 -> row[f]]

(* A diff_roller that came to its end asked for every point it read, and   *)
(* printed a mismatch exactly for those of which the roller, when it was   *)
(* asked, said nothing or something else in a field that is compared.      *)
ReportsTheDifferent ==
    /\ at = "done" => \A n \in Point : points[n] > 0 => seen[n] # 0
    /\ \A n \in Point : seen[n] # 0 =>
          (diffs[n] = {} <=>
              /\ seen[n] # NoResult
              /\ Says(History[n][points[n]]) = Says(History[n][seen[n]]))
=============================================================================
