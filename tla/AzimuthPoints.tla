---------------------------- MODULE AzimuthPoints ----------------------------
(***************************************************************************)
(* The points table of the database and the tail of the diffs table: the   *)
(* state that replaying the Azimuth contract's events (AzimuthEvents) and  *)
(* the Naive contract's L2 transactions (NaiveEffects) reads and writes.   *)
(*                                                                         *)
(* Sources: pkg/db/point.go, pkg/db/diffs.go, pkg/db/schema.sql.           *)
(***************************************************************************)
EXTENDS Integers

CONSTANTS
    Ships,        \* the azimuth numbers of the instance
    GalaxyEnd,    \* first number that is not a galaxy (0x100)
    StarEnd,      \* first number that is not a star or galaxy (0x10000)
    Address,      \* Ethereum addresses
    Zero,         \* the zero address, the default of every address column
    Deposit,      \* L2_DEPOSIT_ADDRESS
    Targets,      \* the addresses that events and transactions name
    KeySets,      \* values of (crypto_suite_version, auth_key, encryption_key)
    NoKeys,       \* the default of these columns: suite 0 and empty blobs
    ZeroKeys      \* suite 0 and two keys of 32 zero bytes

VARIABLES
    points,       \* the points table: azimuth number -> row
    diffs,        \* what the last handler appended to the diffs table
    panic         \* "none" while the process runs, else where it panicked

(* The natural parent.  A galaxy has none, and the code returns 0.         *)
Parent(p) ==
    IF p >= StarEnd THEN p % StarEnd
    ELSE IF p >= GalaxyEnd THEN p % GalaxyEnd
    ELSE 0

GALAXY == 0
STAR   == 1
PLANET == 2

Rank(p) ==
    IF p < GalaxyEnd THEN GALAXY ELSE IF p < StarEnd THEN STAR ELSE PLANET

ASSUME ShipsAssumption ==
    /\ Ships \subseteq Nat
    /\ 0 \in Ships
    /\ GalaxyEnd \in Nat \ {0}
    /\ StarEnd \in Nat
    /\ GalaxyEnd <= StarEnd
    /\ \A p \in Ships : Parent(p) \in Ships

ASSUME ValuesAssumption ==
    /\ {Zero, Deposit} \subseteq Address
    /\ Targets \subseteq Address
    /\ {NoKeys, ZeroKeys} \subseteq KeySets
    /\ Zero # Deposit

(* The five roles with an address and a nonce in every row.                *)
Proxy == {"owner", "spawn", "management", "voting", "transfer"}

(* dominion: 1 is L1, 2 is L2, 3 is on L1 but spawning on L2.              *)
Point == [row                 : BOOLEAN,   \* is there such a row?
          addr                : [Proxy -> Address],
          nonce               : [Proxy -> Nat],
          dominion            : 1..3,
          is_active           : BOOLEAN,
          life                : Nat,
          rift                : Nat,
          keys                : KeySets,
          has_sponsor         : BOOLEAN,
          sponsor             : Ships,
          is_escape_requested : BOOLEAN,
          escape_requested_to : Ships]

(* The column defaults; with row = FALSE, a number without a row.          *)
NoPoint == [row                 |-> FALSE,
            addr                |-> [r \in Proxy |-> Zero],
            nonce               |-> [r \in Proxy |-> 0],
            dominion            |-> 1,
            is_active           |-> FALSE,
            life                |-> 0,
            rift                |-> 0,
            keys                |-> NoKeys,
            has_sponsor         |-> FALSE,
            sponsor             |-> 0,
            is_escape_requested |-> FALSE,
            escape_requested_to |-> 0]

DiffOps == {"spawned", "activated", "changed-owner", "changed-spawn-proxy",
            "changed-transfer-proxy", "changed-management-proxy",
            "changed-voting-proxy", "escape-requested", "escape-canceled",
            "escape-accepted", "escape-rejected", "lost-sponsor", "breached",
            "reset-keys", "new-dominion"}

(* A row of the diffs table, its source event and its data left out.       *)
Diff == [azimuth_number : Ships, operation : DiffOps]

(* SaveDiff once for each operation.                                       *)
SaveDiffs(n, ops) == diffs' = [azimuth_number : {n}, operation : ops]

(* A Go panic: the open transaction is never committed.                    *)
Panic(why) == /\ panic' = why
              /\ diffs' = {}
              /\ UNCHANGED points

HasRow(n) == points[n].row
=============================================================================
