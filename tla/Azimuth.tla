-------------------------------- MODULE Azimuth --------------------------------
(***************************************************************************)
(* The replay of the chain: Azimuth events and Naive transactions applied  *)
(* one after the other, interleaved in any order the chain may hold.  Each *)
(* step is one handler on the state the handlers before it left, committed *)
(* or not; PlayLogs is about transactions and restarts.                    *)
(*                                                                         *)
(* Sources: pkg/db/events.go, pkg/db/naive_parser.go.                      *)
(***************************************************************************)
EXTENDS AzimuthEvents, NaiveEffects

CONSTANTS
    Registered,    \* the points the Azimuth contract knows at the start
    GenesisOwner   \* and the address that owns them

ASSUME GenesisAssumption ==
    /\ Registered \subseteq Ships
    /\ GenesisOwner \in Address
    /\ \A n \in Registered : Rank(n) # GALAXY =>
          Parent(n) \in Registered /\ Rank(Parent(n)) + 1 = Rank(n)

vars == <<points, diffs, panic, chain, spent>>

-----------------------------------------------------------------------------

(* The tables once PlayAzimuthLogs has played the Spawned, Activated and   *)
(* OwnerChanged events of the registered points.                           *)
GenesisPoint(n) == [NoPoint EXCEPT !.row = TRUE,
                                   !.addr["owner"] = GenesisOwner,
                                   !.is_active = TRUE,
                                   !.has_sponsor = TRUE,
                                   !.sponsor = IF Rank(n) = GALAXY THEN n
                                               ELSE Parent(n)]

Init == /\ points = [n \in Ships |-> IF n \in Registered THEN GenesisPoint(n)
                                     ELSE NoPoint]
        /\ diffs = {}
        /\ panic = "none"
        /\ chain = [n \in Ships |-> IF n \in Registered THEN "l1" ELSE "none"]
        /\ spent = {}

L1 == AzimuthEvent /\ UNCHANGED spent
L2 == NaiveTransaction /\ UNCHANGED chain

Next == L1 \/ L2

Spec == Init /\ [][Next]_vars

-----------------------------------------------------------------------------

Panics == {"none", "event", "source", "target", "signature", "opcode"}

(* Every variable stays in its type.                                       *)
TypeOK == /\ points \in [Ships -> Point]
          /\ diffs \subseteq Diff
          /\ panic \in Panics
          /\ chain \in [Ships -> {"none", "l1", "spawn", "l2"}]
          /\ spent \subseteq Ships \X Proxy \X Nat

(* The nonce of a role counts exactly the transactions carried out for it, *)
(* each signed over its own number: none is carried out twice, none is     *)
(* skipped, and an ignored one is used up as well (naive_parser.go:399).   *)
NonceCountsSpent ==
    \A n \in Ships, r \in Proxy :
       {x \in spent : x[1] = n /\ x[2] = r}
          = {<<n, r, k>> : k \in 0..(points[n].nonce[r] - 1)}

(* The two escape columns go together: without a request the sponsor asked *)
(* is back at its default, whichever layer ended the request.  Adopt and   *)
(* Reject look at that number alone (naive_parser.go:688, :728).           *)
EscapeCoherent ==
    \A n \in Ships :
       ~points[n].is_escape_requested => points[n].escape_requested_to = 0

DominionOf(view) == IF view = "l1" THEN 1 ELSE IF view = "l2" THEN 2 ELSE 3

(* The table's dominion column is where the contract has the point, and a  *)
(* point the contract never announced is one spawned on L2.                *)
DominionAgrees ==
    \A n \in Ships :
       IF chain[n] = "none"
       THEN HasRow(n) => points[n].dominion = 2
       ELSE HasRow(n) /\ points[n].dominion = DominionOf(chain[n])

(* Every galaxy of the instance is known before L2 starts.  Without this   *)
(* ship 0 could spawn a galaxy on L2: its Parent is 0.                     *)
GalaxiesRegistered == \A n \in Ships : Rank(n) = GALAXY => n \in Registered

(* No event of the contract meets a missing row or a row that is already   *)
(* there: neither the GetDominion of events.go:215, nor the join of        *)
(* LOST_SPONSOR, nor the insert of SPAWNED panics, whatever L2 did before. *)
L1NeverPanics == panic # "event"

-----------------------------------------------------------------------------

OnL1Step == spent' = spent
OnL2Step == spent' # spent

(* The transaction of this step was signed for ship n in one of the roles. *)
SignedBy(n, roles) == \E x \in spent' \ spent : x[1] = n /\ x[2] \in roles

(* A point moves from L1 to the spawn dominion, from either to L2, never   *)
(* back, and never by an L2 transaction (events.go:277, :320, :330).       *)
OneWayDominion ==
    [][\A n \in Ships :
          HasRow(n) /\ points'[n].dominion # points[n].dominion =>
             /\ points[n].dominion # 2
             /\ points'[n].dominion # 1
             /\ OnL1Step]_vars

Writers(role) == CASE role = "owner"      -> {"owner", "transfer"}
                   [] role = "transfer"   -> {"owner", "transfer"}
                   [] role = "voting"     -> {"owner", "transfer"}
                   [] role = "spawn"      -> {"owner", "transfer", "spawn"}
                   [] role = "management" -> {"owner", "transfer", "management"}

(* On L2 an address or the keys of a point change only by a transaction of *)
(* that very point, signed by a role with authority over the field, and a  *)
(* point comes into being only by its parent's owner or spawn proxy.       *)
OnlyWritersWrite ==
    [][OnL2Step => \A n \in Ships :
          IF HasRow(n)
          THEN /\ \A r \in Proxy :
                     points'[n].addr[r] # points[n].addr[r]
                        => SignedBy(n, Writers(r))
               /\ points'[n].keys # points[n].keys
                     => SignedBy(n, {"owner", "transfer", "management"})
          ELSE HasRow(n)' => SignedBy(Parent(n), {"owner", "spawn"})]_vars

SponsorOf(p) == IF p.has_sponsor THEN {p.sponsor} ELSE {}

Request(p) == <<p.is_escape_requested, p.escape_requested_to>>

Logged(n, ops) == \E d \in diffs' : d.azimuth_number = n /\ d.operation \in ops

(* The part of a row that belongs to the layer the point is on.            *)
Own(p) == <<p.row, p.addr, p.dominion, p.life, p.rift, p.keys>>

(* What an event did to the row of a point on L2: nothing of its own, and  *)
(* its request only ends, with the acceptance by a sponsor not on L2.      *)
OutOfReach(n, p, q) ==
    /\ Own(q) = Own(p) /\ q.nonce = p.nonce
    /\ Request(q) # Request(p) =>
          /\ Logged(n, {"escape-accepted"})
          /\ q.has_sponsor /\ points[q.sponsor].dominion # 2

LayerKept(n) == LET p == points[n] q == points'[n] IN
    HasRow(n) /\ q # p =>
       /\ OnL1Step /\ p.dominion = 2 => OutOfReach(n, p, q)
       /\ OnL1Step /\ SponsorOf(q) # SponsorOf(p) =>
             \A s \in IF SponsorOf(q) = {} THEN SponsorOf(p) ELSE SponsorOf(q) :
                points[s].dominion # 2 \/ s = n
       /\ OnL2Step => q.is_active = p.is_active
       /\ OnL2Step /\ p.dominion = 1 => Own(q) = Own(p)
       /\ OnL2Step /\ p.dominion = 3 =>
             Own([q EXCEPT !.addr["spawn"] = p.addr["spawn"]]) = Own(p)

(* An L1 event leaves an L2 point alone, its sponsorship apart, and brings *)
(* or takes away only a sponsor that is not on L2, whichever layer the     *)
(* point is on; an L2 transaction leaves an L1 point alone, but for its    *)
(* sponsorship, and its spawn proxy in the spawn dominion.  The escape     *)
(* opcodes look at no dominion, so a request is also L2's to write while   *)
(* the point is on L1; ACTIVATED looks at none either, so is_active is     *)
(* always the contract's.                                                  *)
LayersIsolated == [][\A n \in Ships : LayerKept(n)]_vars

(* Keys change only under a new life, unless both are blank, and a life on *)
(* L2 is never used up without a change; rift and life move by one.        *)
LifeNumbersKeys ==
    [][\A n \in Ships : LET p == points[n] q == points'[n] IN
          HasRow(n) =>
             /\ q.life \in {p.life, p.life + 1}
             /\ q.rift \in {p.rift, p.rift + 1}
             /\ q.life = p.life => q.keys = p.keys \/ (Blank(p.keys) /\ Blank(q.keys))
             /\ OnL2Step /\ q.life # p.life => q.keys # p.keys]_vars

(* The operation that tells of a new address in each role.                 *)
AddressOp == [owner      |-> "changed-owner",
              spawn      |-> "changed-spawn-proxy",
              management |-> "changed-management-proxy",
              voting     |-> "changed-voting-proxy",
              transfer   |-> "changed-transfer-proxy"]

(* The operations that tell of a new, another or no sponsor, and of a      *)
(* request that row q holds or no longer holds.                            *)
SponsorOps(q) == IF SponsorOf(q) = {} THEN {"lost-sponsor"}
                 ELSE {"escape-accepted", "activated"}

RequestOps(q) == IF q.is_escape_requested THEN {"escape-requested"}
                 ELSE {"escape-canceled", "escape-accepted", "escape-rejected"}

ChangeLogged(n) == LET p == points[n] q == points'[n] IN
    /\ ~p.row /\ q.row =>
          Logged(n, IF Rank(n) = GALAXY /\ OnL1Step
                    THEN {"activated"} ELSE {"spawned"})
    /\ p.row =>
          /\ Logged(n, {"new-dominion"}) <=> q.dominion # p.dominion
          /\ \A r \in Proxy : q.addr[r] # p.addr[r] =>
                \/ Logged(n, {AddressOp[r]})
                \/ OnL2Step /\ q.addr[r] = Zero /\ Logged(n, {"changed-owner"})
          /\ SponsorOf(q) # SponsorOf(p) => Logged(n, SponsorOps(q))
          /\ q.keys # p.keys => \/ Logged(n, {"reset-keys"})
                                \/ Blank(p.keys) /\ Blank(q.keys)
    /\ q.is_active # p.is_active => Logged(n, {"activated"})
    /\ Request(q) # Request(p) => Logged(n, RequestOps(q))
    /\ Logged(n, {"breached"}) <=> q.rift # p.rift
    /\ Logged(n, {"reset-keys"}) <=> q.life # p.life
    /\ Logged(n, {"spawned"}) => ~p.row

(* A column other than a nonce changes only with the operation that tells  *)
(* of it, logged under the point that changed, and a breach, new keys, a   *)
(* new dominion and a spawn are logged only when they happen.  Two changes *)
(* have no operation of their own: the proxies that an L2 transfer clears, *)
(* of which changed-owner is all that is told (naive_parser.go:432-479),   *)
(* and one blank pair of keys in place of the other.                       *)
ChangesAreLogged ==
    [][\A n \in Ships : points'[n] # points[n] \/ Logged(n, DiffOps)
          => ChangeLogged(n)]_vars

(* On L2 a point gains a sponsor only by spawning under its parent or by   *)
(* having asked that sponsor, and loses one only to that sponsor's         *)
(* signature; a request is made, or made to another, only by its own       *)
(* side's signature and to a point one rank above, and ends by its own     *)
(* side's or the sponsor's.  Ship 0 is left out as a new sponsor: see      *)
(* AdoptedOnRequest.                                                       *)
SponsorNeedsConsent ==
    [][OnL2Step => \A n \in Ships : LET p == points[n] q == points'[n] IN
          /\ \A s \in SponsorOf(q) \ (SponsorOf(p) \cup {0}) :
                IF p.row
                THEN /\ p.is_escape_requested /\ p.escape_requested_to = s
                     /\ SignedBy(s, {"owner", "management"})
                ELSE s = Parent(n)
          /\ SponsorOf(q) = {} => \A s \in SponsorOf(p) :
                SignedBy(s, {"owner", "management"})
          /\ Request(q) # Request(p) /\ q.is_escape_requested =>
                /\ SignedBy(n, {"owner", "management"})
                /\ Rank(q.escape_requested_to) + 1 = Rank(n)
          /\ p.is_escape_requested /\ ~q.is_escape_requested =>
                \/ SignedBy(n, {"owner", "management"})
                \/ SignedBy(p.escape_requested_to, {"owner", "management"})]_vars

-----------------------------------------------------------------------------
(* What comments in the code say of it, and the code does not do.          *)

(* naive_parser.go:687, "Assert tx.TargetShip has requested escape to      *)
(* tx.SourceShip".                                                         *)
AdoptedOnRequest ==
    [][OnL2Step => \A n \in Ships :
          HasRow(n) /\ Logged(n, {"escape-accepted"})
             => points[n].is_escape_requested]_vars
=============================================================================
