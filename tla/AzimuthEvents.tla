---------------------------- MODULE AzimuthEvents ----------------------------
(***************************************************************************)
(* EthereumEventLog.Effects: what each event of the Azimuth contract does  *)
(* to the points table, one action per event.                              *)
(*                                                                         *)
(* The contract itself is external.  `chain` is the contract's view of     *)
(* each point: "none" (never announced by an event), "l1", "spawn" (spawn  *)
(* proxy set to the deposit address) or "l2" (owned by the deposit         *)
(* address).  It decides which events the log can hold, and nothing else.  *)
(***************************************************************************)
EXTENDS AzimuthPoints

CONSTANTS
    Topics,       \* the events the instance plays
    Linked,       \* the points with keys in the contract from the start
    MaxLife,      \* bound on life
    MaxRift       \* bound on rift

VARIABLE chain

ASSUME L1BoundsAssumption == MaxLife \in Nat /\ MaxRift \in Nat

(* An event about n can be in the log only once the contract knows n.      *)
Emitted(topic, n) == /\ panic = "none"
                     /\ topic \in Topics
                     /\ chain[n] # "none"

(* Ecliptic.canEscapeTo: a point one rank above, or, for a point that was  *)
(* never linked, another of its own rank.  That this ends with the first   *)
(* keys, and that the sponsor must be linked, is left out, so the log here *)
(* may hold more than the contract's.  No handler below looks at a rank.   *)
CanEscapeTo(n, s) == /\ chain[s] # "none"
                     /\ \/ Rank(s) + 1 = Rank(n)
                        \/ Rank(s) = Rank(n) /\ s # n /\ n \notin Linked

(* A galaxy is its own first sponsor.                                      *)
MaySponsor(s, n) == CanEscapeTo(n, s) \/ (s = n /\ Rank(n) = GALAXY)

Skip == diffs' = {} /\ UNCHANGED <<points, panic>>

(* insert ... on conflict do update, and the diff that goes with it.       *)
Upsert(n, q, op) == /\ points' = [points EXCEPT ![n] = [q EXCEPT !.row = TRUE]]
                    /\ SaveDiffs(n, {op})
                    /\ UNCHANGED panic

(* The row of n becomes q, unless m is on L2.  GetDominion(m) panics when  *)
(* m has no row.                                                           *)
UnlessOnL2(n, m, q, op) ==
    IF ~HasRow(m) THEN Panic("event")
    ELSE IF points[m].dominion = 2 THEN Skip
    ELSE Upsert(n, q, op)

SetAddress(n, role, a) == [points[n] EXCEPT !.addr[role] = a]

-----------------------------------------------------------------------------

Spawned(n) ==
    /\ panic = "none"
    /\ "Spawned" \in Topics
    /\ chain[n] = "none"
    /\ chain[Parent(n)] = "l1"
    /\ Rank(Parent(n)) + 1 = Rank(n)
    /\ chain' = [chain EXCEPT ![n] = "l1"]
    /\ IF HasRow(n)                       \* a plain insert
       THEN Panic("event")
       ELSE Upsert(n, [NoPoint EXCEPT !.has_sponsor = TRUE,
                                      !.sponsor = Parent(n)], "spawned")

(* The contract activates a point once; for a galaxy, which it never       *)
(* announces with Spawned, this is the first event.                        *)
Activated(n) ==
    /\ panic = "none"
    /\ "Activated" \in Topics
    /\ chain[n] # "none" \/ Rank(n) = GALAXY
    /\ ~points[n].is_active
    /\ chain' = [chain EXCEPT ![n] = IF @ = "none" THEN "l1" ELSE @]
    /\ IF Rank(n) = GALAXY
       THEN Upsert(n, [points[n] EXCEPT !.is_active = TRUE,
                                        !.has_sponsor = TRUE,
                                        !.sponsor = n], "activated")
       ELSE Upsert(n, [points[n] EXCEPT !.is_active = TRUE], "activated")

(* Mutant: the deposit taken for an ordinary change of owner. *)
OwnerChangedDepositMissed(n, a) ==
    /\ Emitted("OwnerChanged", n)
    /\ chain' = [chain EXCEPT ![n] = IF a = Deposit THEN "l2" ELSE @]
    /\ UnlessOnL2(n, n, SetAddress(n, "owner", a), "changed-owner")

OwnerChanged(n, a) ==
    /\ Emitted("OwnerChanged", n)
    /\ chain' = [chain EXCEPT ![n] = IF a = Deposit THEN "l2" ELSE @]
    /\ IF a = Deposit
       THEN UnlessOnL2(n, n, [points[n] EXCEPT !.dominion = 2], "new-dominion")
       ELSE UnlessOnL2(n, n, SetAddress(n, "owner", a), "changed-owner")

(* Mutant: the dominion of the point not looked at. *)
ChangedSpawnProxyUnchecked(n, a) ==
    LET migrates == a = Deposit /\ Rank(n) # PLANET IN
    /\ Emitted("ChangedSpawnProxy", n)
    /\ chain' = [chain EXCEPT ![n] =
                    IF migrates /\ @ = "l1" THEN "spawn" ELSE @]
    /\ IF migrates
       THEN Upsert(n, [points[n] EXCEPT !.dominion = 3], "new-dominion")
       ELSE Upsert(n, SetAddress(n, "spawn", a), "changed-spawn-proxy")

(* Setting the spawn proxy of a star or galaxy to the deposit address      *)
(* moves it to the spawn dominion and leaves the proxy as it is.           *)
ChangedSpawnProxy(n, a) ==
    LET migrates == a = Deposit /\ Rank(n) # PLANET IN
    /\ Emitted("ChangedSpawnProxy", n)
    /\ chain' = [chain EXCEPT ![n] =
                    IF migrates /\ @ = "l1" THEN "spawn" ELSE @]
    /\ IF ~HasRow(n) THEN Panic("event")
       ELSE IF points[n].dominion # 1 THEN Skip
       ELSE IF migrates
       THEN Upsert(n, [points[n] EXCEPT !.dominion = 3], "new-dominion")
       ELSE Upsert(n, SetAddress(n, "spawn", a), "changed-spawn-proxy")

ChangedTransferProxy(n, a) ==
    /\ Emitted("ChangedTransferProxy", n)
    /\ UnlessOnL2(n, n, SetAddress(n, "transfer", a), "changed-transfer-proxy")
    /\ UNCHANGED chain

ChangedManagementProxy(n, a) ==
    /\ Emitted("ChangedManagementProxy", n)
    /\ UnlessOnL2(n, n, SetAddress(n, "management", a), "changed-management-proxy")
    /\ UNCHANGED chain

ChangedVotingProxy(n, a) ==
    /\ Emitted("ChangedVotingProxy", n)
    /\ UnlessOnL2(n, n, SetAddress(n, "voting", a), "changed-voting-proxy")
    /\ UNCHANGED chain

(* Mutant: the dominion of the point not looked at. *)
EscapeRequestedUnchecked(n, s) ==
    /\ Emitted("EscapeRequested", n)
    /\ CanEscapeTo(n, s)
    /\ Upsert(n, [points[n] EXCEPT !.is_escape_requested = TRUE,
                                   !.escape_requested_to = s],
              "escape-requested")
    /\ UNCHANGED chain

EscapeRequested(n, s) ==
    /\ Emitted("EscapeRequested", n)
    /\ CanEscapeTo(n, s)
    /\ UnlessOnL2(n, n, [points[n] EXCEPT !.is_escape_requested = TRUE,
                                          !.escape_requested_to = s],
                  "escape-requested")
    /\ UNCHANGED chain

(* Mutant: -1 for "no request". *)
EscapeCanceledSentinel(n) ==
    /\ Emitted("EscapeCanceled", n)
    /\ UnlessOnL2(n, n, [points[n] EXCEPT !.is_escape_requested = FALSE,
                                          !.escape_requested_to = -1],
                  "escape-canceled")
    /\ UNCHANGED chain

EscapeCanceled(n) ==
    /\ Emitted("EscapeCanceled", n)
    /\ UnlessOnL2(n, n, [points[n] EXCEPT !.is_escape_requested = FALSE,
                                          !.escape_requested_to = 0],
                  "escape-canceled")
    /\ UNCHANGED chain

(* Here it is the dominion of the new sponsor that counts, so an L1 event  *)
(* may write the row of an L2 point.                                       *)
EscapeAccepted(n, s) ==
    /\ Emitted("EscapeAccepted", n)
    /\ CanEscapeTo(n, s)
    /\ UnlessOnL2(n, s, [points[n] EXCEPT !.is_escape_requested = FALSE,
                                          !.escape_requested_to = 0,
                                          !.has_sponsor = TRUE,
                                          !.sponsor = s], "escape-accepted")
    /\ UNCHANGED chain

(* The query joins the row of the sponsor the table records, which may not *)
(* be the event's; without either row it fails.                            *)
LostSponsor(n, s) ==
    /\ Emitted("LostSponsor", n)
    /\ MaySponsor(s, n)
    /\ IF ~HasRow(n) \/ ~HasRow(points[n].sponsor) THEN Panic("event")
       ELSE IF points[n].has_sponsor /\ s = points[n].sponsor
       THEN UnlessOnL2(n, s, [points[n] EXCEPT !.has_sponsor = FALSE],
                       "lost-sponsor")
       ELSE Skip
    /\ UNCHANGED chain

(* Rift and life come with the event.  The contract counts them, and until *)
(* the point moves to L2 the table follows it.                             *)
BrokeContinuity(n) ==
    /\ Emitted("BrokeContinuity", n)
    /\ points[n].rift < MaxRift
    /\ UnlessOnL2(n, n, [points[n] EXCEPT !.rift = @ + 1], "breached")
    /\ UNCHANGED chain

ChangedKeys(n, k) ==
    /\ Emitted("ChangedKeys", n)
    /\ points[n].life < MaxLife
    /\ UnlessOnL2(n, n, [points[n] EXCEPT !.keys = k, !.life = @ + 1],
                  "reset-keys")
    /\ UNCHANGED chain

(* The name server of a galaxy changed: nothing is recorded.               *)
ChangedDns ==
    /\ panic = "none"
    /\ "ChangedDns" \in Topics
    /\ Skip
    /\ UNCHANGED chain

AzimuthEvent ==
    \/ ChangedDns
    \/ \E n \in Ships :
          \/ Spawned(n)
          \/ Activated(n)
          \/ EscapeCanceled(n)
          \/ BrokeContinuity(n)
          \/ \E a \in Targets : \/ OwnerChanged(n, a)
                                \/ ChangedSpawnProxy(n, a)
                                \/ ChangedTransferProxy(n, a)
                                \/ ChangedManagementProxy(n, a)
                                \/ ChangedVotingProxy(n, a)
          \/ \E s \in Ships : \/ EscapeRequested(n, s)
                              \/ EscapeAccepted(n, s)
                              \/ LostSponsor(n, s)
          \/ \E k \in KeySets \ {NoKeys} : ChangedKeys(n, k)
=============================================================================
