-------------------------------- MODULE Database --------------------------------
(***************************************************************************)
(* Opening the database: each command makes the file and its schema when   *)
(* there is none, and else looks for its version.  SQLite commits the      *)
(* statements of the schema one by one, and another command may open the   *)
(* file between any two, or the one that makes it die there.               *)
(*                                                                         *)
(* MIGRATIONS is empty: the version is 0, and there is nothing to upgrade. *)
(* The table dns, which nothing writes, and the views are left out.        *)
(*                                                                         *)
(* Sources: pkg/db/db_connect.go, pkg/db/schema.sql, cmd/main.go.          *)
(***************************************************************************)
EXTENDS Integers, Sequences

CONSTANTS
    Process,     \* the commands that open the database
    MaxKills     \* bound on the times one of them is killed as it does

VARIABLES
    file,        \* is there one?
    made,        \* how often each statement of the schema was executed
    handle,      \* what get_db of a process does, or the DB it returned
    next,        \* the statement a creating process is at, 0 before the file
    kills

db_vars == <<file, made, handle, next, kills>>

sql_schema == <<"db_version", "version", "points", "diff_types", "diff_type_rows",
                "diffs", "contracts", "contract_rows", "event_types",
                "event_type_rows", "ethereum_events", "index">>

Statement == {sql_schema[k] : k \in DOMAIN sql_schema}

DbInit == /\ file = FALSE
          /\ made = [s \in Statement |-> 0]
          /\ handle = [p \in Process |-> "none"]
          /\ next = [p \in Process |-> 0]
          /\ kills = 0

(* The end of a process.                                                   *)
End(p) == handle' = [handle EXCEPT ![p] = "none"] /\ next' = [next EXCEPT ![p] = 0]

(* get_db: os.Stat, once.                                                  *)
DBCreate(p) ==
    /\ handle[p] = "none"
    /\ handle' = [handle EXCEPT ![p] = IF file THEN "connect" ELSE "create"]
    /\ UNCHANGED <<file, made, next, kills>>

MustOpen(p) ==
    /\ handle[p] = "create" /\ next[p] = 0
    /\ file' = TRUE
    /\ next' = [next EXCEPT ![p] = 1]
    /\ UNCHANGED <<made, handle, kills>>

(* Mutant: create table if not exists. *)
IfNotExists(p) ==
    /\ handle[p] = "create" /\ next[p] > 0
    /\ made' = [made EXCEPT ![sql_schema[next[p]]] = @ + 1]
    /\ IF next[p] < Len(sql_schema)
       THEN next' = [next EXCEPT ![p] = @ + 1] /\ UNCHANGED handle
       ELSE next' = [next EXCEPT ![p] = 0] /\ handle' = [handle EXCEPT ![p] = "open"]
    /\ UNCHANGED <<file, kills>>

(* A table, view or index that exists, or the name or address of a row,    *)
(* panics; a second version row does not.                                  *)
MustExec(p) ==
    LET s == sql_schema[next[p]]
    IN /\ handle[p] = "create" /\ next[p] > 0
       /\ IF made[s] > 0 /\ s # "version"
          THEN End(p) /\ UNCHANGED made
          ELSE /\ made' = [made EXCEPT ![s] = @ + 1]
               /\ IF next[p] < Len(sql_schema)
                  THEN next' = [next EXCEPT ![p] = @ + 1] /\ UNCHANGED handle
                  ELSE /\ next' = [next EXCEPT ![p] = 0]
                       /\ handle' = [handle EXCEPT ![p] = "open"]
       /\ UNCHANGED <<file, kills>>

(* CheckAndUpdateVersion.  No row, or no table, panics.                    *)
DBConnect(p) ==
    /\ handle[p] = "connect"
    /\ IF made["version"] > 0
       THEN handle' = [handle EXCEPT ![p] = "open"] /\ UNCHANGED next
       ELSE End(p)
    /\ UNCHANGED <<file, made, kills>>

Kill(p) == /\ handle[p] = "create"
           /\ kills < MaxKills
           /\ kills' = kills + 1
           /\ End(p)
           /\ UNCHANGED <<file, made>>

Open(p) == DBCreate(p) \/ MustOpen(p) \/ MustExec(p) \/ DBConnect(p) \/ Kill(p)

-----------------------------------------------------------------------------

(* Of the processes that found no file one makes the whole schema, and the *)
(* others panic at its first statement; only a kill leaves a part of it.   *)
SchemaOnce ==
    /\ \A s \in Statement : made[s] <= 1
    /\ \/ \A s \in Statement : made[s] = 1
       \/ ~file
       \/ \E p \in Process : handle[p] = "create" /\ next[p] > 0
       \/ kills > 0
=============================================================================
