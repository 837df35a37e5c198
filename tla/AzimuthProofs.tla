---------------------------- MODULE AzimuthProofs ----------------------------
(***************************************************************************)
(* Theorems about Azimuth, for any set of points, addresses, keys, events  *)
(* and opcodes.                                                            *)
(***************************************************************************)
EXTENDS AzimuthWrites

(* The invariant that holds whatever the instance.  Rowless is what makes  *)
(* the first write to a number without a row start at nonce 0.             *)
Counted == TypeOK /\ Rowless /\ Known /\ NonceCountsSpent /\ EscapeCoherent

LEMMA CountedInit == Init => Counted
<1> SUFFICES ASSUME Init PROVE Counted
  OBVIOUS
<1>1. ASSUME NEW n \in Registered
      PROVE  /\ GenesisPoint(n) \in Point
             /\ GenesisPoint(n).row
             /\ GenesisPoint(n).nonce = NoPoint.nonce
             /\ ~GenesisPoint(n).is_escape_requested
             /\ GenesisPoint(n).escape_requested_to = 0
  <2> DEFINE s == IF Rank(n) = GALAXY THEN n ELSE Parent(n)
             q0 == [NoPoint EXCEPT !.row = TRUE, !.addr["owner"] = GenesisOwner]
             q1 == [q0 EXCEPT !.is_active = TRUE]
             q == [q1 EXCEPT !.has_sponsor = TRUE, !.sponsor = s]
  <2>1. GenesisPoint(n) = q
    BY DEF GenesisPoint
  <2>2. s \in Ships
    BY ParentType, GenesisAssumption
  <2>3. q0 \in Point
    <3>1. [NoPoint EXCEPT !.row = TRUE] \in Point
      BY NoPointType, FieldTypes
    <3> QED
      BY <3>1, FieldTypes, GenesisAssumption DEF Proxy
  <2>4. q1 \in Point
    <3> HIDE DEF q0
    <3> QED
      BY <2>3, FieldTypes
  <2>5. q \in Point
    <3> HIDE DEF s, q1
    <3> QED
      BY <2>2, <2>4, SponsorType
  <2>6. /\ q.row /\ q.nonce = NoPoint.nonce
        /\ ~q.is_escape_requested /\ q.escape_requested_to = 0
    <3> HIDE DEF s
    <3> QED
      BY DEF NoPoint
  <2> HIDE DEF q
  <2> QED
    BY <2>1, <2>5, <2>6
<1>2. TypeOK
  BY <1>1, NoPointType, GenesisAssumption DEF Init, TypeOK, Panics
<1>3. Rowless
  BY <1>1 DEF Init, Rowless, HasRow
<1>4. /\ \A n \in Ships : points[n].nonce = NoPoint.nonce
      /\ Known
  BY <1>1 DEF Init, Known, HasRow
<1>5. NonceCountsSpent
  <2>1. \A n \in Ships, r \in Proxy : points[n].nonce[r] = 0
    BY <1>4 DEF NoPoint
  <2>2. spent = {}
    BY DEF Init
  <2>3. 0..(0-1) = {}
    OBVIOUS
  <2> QED
    BY <2>1, <2>2, <2>3 DEF NonceCountsSpent
<1>6. EscapeCoherent
  <2>1. \A n \in Ships : ~points[n].is_escape_requested /\ points[n].escape_requested_to = 0
    BY <1>1 DEF Init, NoPoint
  <2> QED
    BY <2>1 DEF EscapeCoherent
<1> QED
  BY <1>2, <1>3, <1>4, <1>5, <1>6 DEF Counted

(* The first event about a point brings its row.                           *)
LEMMA KnownL1 ==
    ASSUME TypeOK, Rowless, Known, AzimuthEvent
    PROVE  Known'
<1>1. \A m \in Ships : HasRow(m) => HasRow(m)'
  BY EventShape DEF Written, L1Write, HasRow, TypeOK
<1>2. ASSUME NEW n \in Ships, Spawned(n) \/ Activated(n)
      PROVE  Known'
  <2>1. \A m \in Ships : m # n => chain'[m] = chain[m]
    BY <1>2 DEF Spawned, Activated, TypeOK
  <2>2. HasRow(n) \/ points'[n].row
    <3>1. \A q \in Point : \A op : Upsert(n, q, op) => points'[n].row
      BY DEF Upsert, TypeOK, Point
    <3>2. /\ [NoPoint EXCEPT !.has_sponsor = TRUE, !.sponsor = Parent(n)] \in Point
          /\ [points[n] EXCEPT !.is_active = TRUE] \in Point
          /\ [points[n] EXCEPT !.is_active = TRUE, !.has_sponsor = TRUE,
                               !.sponsor = n] \in Point
      <4>1. [points[n] EXCEPT !.is_active = TRUE] \in Point
        BY FieldTypes DEF TypeOK
      <4> QED
        BY <4>1, NoPointType, ParentType, SponsorType
    <3> QED
      BY <1>2, <3>1, <3>2 DEF Spawned, Activated
  <2> QED
    BY <1>1, <2>1, <2>2, Zenon DEF Known, HasRow
<1>3. CASE \A n \in Ships : ~Spawned(n) /\ ~Activated(n)
  <2>1. \A m \in Ships : chain'[m] # "none" => chain[m] # "none"
    <3>1. ASSUME NEW n \in Ships, NEW a \in Targets,
                 OwnerChanged(n, a) \/ ChangedSpawnProxy(n, a)
          PROVE  \A m \in Ships : chain'[m] # "none" => chain[m] # "none"
      <4>1. chain[n] # "none" /\ \A m \in Ships \ {n} : chain'[m] = chain[m]
        BY <3>1 DEF OwnerChanged, ChangedSpawnProxy, Emitted, TypeOK
      <4> QED
        BY <4>1
    <3>2. \/ chain' = chain
          \/ \E n \in Ships, a \in Targets : OwnerChanged(n, a) \/ ChangedSpawnProxy(n, a)
      BY <1>3 DEF AzimuthEvent, ChangedDns, ChangedTransferProxy, ChangedManagementProxy,
         ChangedVotingProxy, EscapeRequested, EscapeCanceled, EscapeAccepted, LostSponsor,
         BrokeContinuity, ChangedKeys
    <3> QED
      BY <3>1, <3>2
  <2> QED
    BY <1>1, <2>1 DEF Known
<1> QED
  BY <1>2, <1>3

(* A write that keeps the nonces keeps the count.                          *)
LEMMA CountedL1 ==
    ASSUME Counted, L1
    PROVE  Counted'
<1> USE DEF Counted
<1>1. Written /\ spent' = spent
  BY EventShape DEF L1
<1>2. TypeOK' /\ Known'
  BY EventType, KnownL1 DEF L1, TypeOK, Typed
<1>3. CASE UNCHANGED points
  BY <1>1, <1>2, <1>3 DEF Rowless, HasRow, NonceCountsSpent, EscapeCoherent
<1>4. ASSUME NEW n \in Ships, NEW q \in Point, L1Write(n, q),
             points' = [points EXCEPT ![n] = q]
      PROVE  Counted'
  <2>1. \A m \in Ships : points'[m] = IF m = n THEN q ELSE points[m]
    BY <1>4 DEF TypeOK
  <2>2. Rowless'
    BY <1>4, <2>1 DEF Rowless, HasRow, L1Write
  <2>3. \A m \in Ships : points'[m].nonce = points[m].nonce
    BY <1>4, <2>1 DEF L1Write
  <2>4. NonceCountsSpent'
    BY <1>1, <2>3 DEF NonceCountsSpent
  <2>5. EscapeCoherent'
    BY <1>4, <2>1 DEF EscapeCoherent, Coherent, L1Write
  <2> QED
    BY <1>2, <2>2, <2>4, <2>5
<1> QED
  BY <1>1, <1>3, <1>4 DEF Written

(* BumpNonce touches one nonce of one row.                                 *)
LEMMA BumpShape ==
    ASSUME NEW table \in [Ships -> Point], NEW h \in Header, NEW m \in Ships
    PROVE  LET p == table[m] b == BumpNonce(table, h)[m] IN
           /\ m # h.ship => b = p
           /\ \A r \in Proxy : b.nonce[r] = IF m = h.ship /\ r = h.proxy
                                            THEN p.nonce[r] + 1 ELSE p.nonce[r]
           /\ b.row = p.row /\ b.addr = p.addr /\ b.dominion = p.dominion
           /\ b.life = p.life /\ b.rift = p.rift /\ b.keys = p.keys
           /\ b.has_sponsor = p.has_sponsor /\ b.sponsor = p.sponsor
           /\ b.is_escape_requested = p.is_escape_requested
           /\ b.escape_requested_to = p.escape_requested_to
           /\ b.is_active = p.is_active
<1> DEFINE p == table[m]
           q == [p EXCEPT !.nonce[h.proxy] = @ + 1]
<1>1. BumpNonce(table, h)[m] = IF m = h.ship THEN q ELSE p
  BY DEF BumpNonce
<1>2. p \in Point /\ h.proxy \in Proxy
  BY HeaderType
<1>3. /\ q.row = p.row /\ q.addr = p.addr /\ q.dominion = p.dominion
      /\ q.life = p.life /\ q.rift = p.rift /\ q.keys = p.keys
      /\ q.has_sponsor = p.has_sponsor /\ q.sponsor = p.sponsor
      /\ q.is_escape_requested = p.is_escape_requested
      /\ q.escape_requested_to = p.escape_requested_to
      /\ q.is_active = p.is_active
      /\ q.nonce = [p.nonce EXCEPT ![h.proxy] = @ + 1]
  BY <1>2 DEF Point
<1>4. \A r \in Proxy : q.nonce[r] = IF r = h.proxy THEN p.nonce[r] + 1 ELSE p.nonce[r]
  <2>1. p.nonce \in [Proxy -> Nat]
    BY <1>2 DEF Point
  <2> HIDE DEF p, q
  <2> QED
    BY <1>2, <1>3, <2>1
<1> HIDE DEF p, q
<1> QED
  BY <1>1, <1>3, <1>4 DEF p

(* Whatever else a carried transaction does, it adds one to one nonce and  *)
(* puts that nonce among the spent ones.                                   *)
LEMMA CarriedShape ==
    ASSUME TypeOK, NEW h \in Header, Carried(h)
    PROVE  /\ points' \in [Ships -> Point]
           /\ diffs' \subseteq Diff
           /\ panic' = panic
           /\ \A m \in Ships, r \in Proxy :
                 points'[m].nonce[r] = IF m = h.ship /\ r = h.proxy
                                       THEN points[m].nonce[r] + 1
                                       ELSE points[m].nonce[r]
           /\ spent' = spent \cup {<<h.ship, h.proxy, h.nonce>>}
           /\ h.nonce = points[h.ship].nonce[h.proxy]
<1>1. h.nonce = points[h.ship].nonce[h.proxy]
  BY DEF Carried, VerifySignature
<1>2. CASE Ignored(h)
  BY <1>1, <1>2, BumpType, BumpShape DEF Ignored, Spend, TypeOK
<1>3. ASSUME NEW n \in Ships, NEW q \in Point, NEW ops \in SUBSET DiffOps,
             L2Write(h, n, q), Applied(h, n, q, ops)
      PROVE  /\ points' \in [Ships -> Point]
             /\ diffs' \subseteq Diff
             /\ panic' = panic
             /\ \A m \in Ships, r \in Proxy :
                   points'[m].nonce[r] = IF m = h.ship /\ r = h.proxy
                                         THEN points[m].nonce[r] + 1
                                         ELSE points[m].nonce[r]
             /\ spent' = spent \cup {<<h.ship, h.proxy, h.nonce>>}
  <2> DEFINE table == [points EXCEPT ![n] = q]
  <2>1. table \in [Ships -> Point]
    BY DEF TypeOK
  <2>2. \A m \in Ships : table[m].nonce = points[m].nonce
    BY <1>3 DEF L2Write, TypeOK
  <2>3. points' = BumpNonce(table, h)
    BY <1>3 DEF Applied
  <2>4. diffs' \subseteq Diff
    BY <1>3 DEF Applied, SaveDiffs, Diff
  <2> HIDE DEF table
  <2>5. points' \in [Ships -> Point]
    BY <2>1, <2>3, BumpType
  <2>6. \A m \in Ships, r \in Proxy :
           points'[m].nonce[r] = IF m = h.ship /\ r = h.proxy
                                 THEN points[m].nonce[r] + 1
                                 ELSE points[m].nonce[r]
    BY <2>1, <2>2, <2>3, BumpShape
  <2> QED
    BY <1>3, <2>4, <2>5, <2>6 DEF Applied, Spend
<1> QED
  BY <1>1, <1>2, <1>3 DEF Carried

LEMMA CountedCarried ==
    ASSUME TypeOK, NonceCountsSpent, NEW h \in Header, Carried(h)
    PROVE  NonceCountsSpent'
<1> DEFINE t == <<h.ship, h.proxy, h.nonce>>
           Of(set, n, r) == {x \in set : x[1] = n /\ x[2] = r}
<1> SUFFICES ASSUME NEW n \in Ships, NEW r \in Proxy
             PROVE  Of(spent', n, r) = {<<n, r, k>> : k \in 0..(points'[n].nonce[r] - 1)}
  BY DEF NonceCountsSpent
<1>1. /\ spent' = spent \cup {t}
      /\ h.nonce = points[h.ship].nonce[h.proxy]
      /\ points'[n].nonce[r] = IF n = h.ship /\ r = h.proxy
                               THEN points[n].nonce[r] + 1 ELSE points[n].nonce[r]
  BY CarriedShape
<1>2. Of(spent, n, r) = {<<n, r, k>> : k \in 0..(points[n].nonce[r] - 1)}
  BY DEF NonceCountsSpent
<1>3. CASE n = h.ship /\ r = h.proxy
  <2>1. Of(spent', n, r) = Of(spent, n, r) \cup {t}
    BY <1>1, <1>3
  <2>2. points[n].nonce[r] \in Nat
    BY DEF TypeOK, Point
  <2>3. 0..(points'[n].nonce[r] - 1) = 0..(points[n].nonce[r] - 1) \cup {h.nonce}
    BY <1>1, <1>3, <2>2
  <2> HIDE DEF Of
  <2> QED
    BY <1>2, <1>3, <2>1, <2>3
<1>4. CASE ~(n = h.ship /\ r = h.proxy)
  <2>1. Of(spent', n, r) = Of(spent, n, r)
    BY <1>1, <1>4
  <2> QED
    BY <1>1, <1>2, <1>4, <2>1
<1> QED
  BY <1>3, <1>4

(* The other two parts.                                                    *)
LEMMA RowsCarried ==
    ASSUME TypeOK, Rowless, EscapeCoherent, NEW h \in Header, Carried(h)
    PROVE  Rowless' /\ EscapeCoherent' /\ \A m \in Ships : HasRow(m) => HasRow(m)'
<1>1. h.ship \in Ships /\ HasRow(h.ship)
  BY HeaderType DEF Carried
<1>2. CASE Ignored(h)
  <2>1. points' = BumpNonce(points, h)
    BY <1>2 DEF Ignored
  <2>2. \A m \in Ships : /\ m # h.ship => points'[m] = points[m]
                         /\ points'[m].row = points[m].row
                         /\ points'[m].is_escape_requested = points[m].is_escape_requested
                         /\ points'[m].escape_requested_to = points[m].escape_requested_to
    BY <2>1, BumpShape DEF TypeOK
  <2> QED
    BY <1>1, <2>2 DEF Rowless, HasRow, EscapeCoherent
<1>3. ASSUME NEW n \in Ships, NEW q \in Point, NEW ops \in SUBSET DiffOps,
             L2Write(h, n, q), Applied(h, n, q, ops)
      PROVE  Rowless' /\ EscapeCoherent' /\ \A m \in Ships : HasRow(m) => HasRow(m)'
  <2> DEFINE table == [points EXCEPT ![n] = q]
  <2>1. table \in [Ships -> Point]
    BY DEF TypeOK
  <2>2. points' = BumpNonce(table, h)
    BY <1>3 DEF Applied
  <2>3. \A m \in Ships : table[m] = IF m = n THEN q ELSE points[m]
    BY DEF TypeOK
  <2> HIDE DEF table
  <2>4. \A m \in Ships : /\ m # h.ship => points'[m] = table[m]
                         /\ points'[m].row = table[m].row
                         /\ points'[m].is_escape_requested = table[m].is_escape_requested
                         /\ points'[m].escape_requested_to = table[m].escape_requested_to
    BY <2>1, <2>2, BumpShape
  <2>5. Rowless' /\ \A m \in Ships : HasRow(m) => HasRow(m)'
    BY <1>1, <1>3, <2>3, <2>4 DEF Rowless, HasRow, L2Write
  <2>6. Coherent(q)
    BY <1>3, CoherentLemma DEF L2Write
  <2> QED
    BY <2>3, <2>4, <2>5, <2>6 DEF EscapeCoherent, Coherent
<1> QED
  BY <1>2, <1>3 DEF Carried

LEMMA CountedL2 ==
    ASSUME Counted, L2
    PROVE  Counted'
<1> USE DEF Counted
<1>1. chain' = chain
  BY DEF L2
<1>2. CASE Dropped
  BY <1>1, <1>2 DEF Dropped, TypeOK, Rowless, Known, HasRow, NonceCountsSpent, EscapeCoherent
<1>3. ASSUME NEW h \in Header, Carried(h)
      PROVE  Counted'
  <2>1. <<h.ship, h.proxy, h.nonce>> \in Ships \X Proxy \X Nat
    BY HeaderType
  <2>2. TypeOK'
    BY <1>1, <1>3, <2>1, CarriedShape DEF TypeOK
  <2>3. Rowless' /\ EscapeCoherent' /\ \A m \in Ships : HasRow(m) => HasRow(m)'
    BY <1>3, RowsCarried
  <2> QED
    BY <1>1, <1>3, <2>2, <2>3, CountedCarried DEF Known
<1> QED
  BY <1>2, <1>3, TransactionShape DEF L2

LEMMA CountedStep == Counted /\ [Next]_vars => Counted'
<1>1. ASSUME Counted, UNCHANGED vars
      PROVE  Counted'
  BY <1>1 DEF Counted, vars, TypeOK, Rowless, Known, HasRow, NonceCountsSpent, EscapeCoherent
<1> QED
  BY <1>1, CountedL1, CountedL2 DEF Next

LEMMA SpecCounted == Spec => []Counted
BY CountedInit, CountedStep, PTL DEF Spec

(* Every variable keeps its type, for any instance.                        *)
THEOREM TypesHold == Spec => []TypeOK
<1>1. Counted => TypeOK
  BY DEF Counted
<1> QED
  BY <1>1, SpecCounted, PTL

(* No transaction is carried out twice and no nonce is skipped, for any    *)
(* interleaving of events and transactions, forged and replayed ones       *)
(* included (VerifySignature and the nonce query of Effects).              *)
THEOREM NoncesCount == Spec => []NonceCountsSpent
<1>1. Counted => NonceCountsSpent
  BY DEF Counted
<1> QED
  BY <1>1, SpecCounted, PTL

(* Both layers keep the two escape columns together: whatever ends a       *)
(* request (its side, the sponsor, an event) clears both.                  *)
THEOREM EscapesCohere == Spec => []EscapeCoherent
<1>1. Counted => EscapeCoherent
  BY DEF Counted
<1> QED
  BY <1>1, SpecCounted, PTL

-----------------------------------------------------------------------------
(* Where the points are.  SPAWNED inserts a row for a child of an L1       *)
(* point, so no such child may have come from L2 before: a point the       *)
(* contract has not announced was spawned by a parent that had left L1.    *)
(* LOST_SPONSOR joins the sponsor's row, so every sponsor column names a   *)
(* row, the 0 that a detach leaves included.                               *)
Placed ==
    /\ Counted
    /\ DominionAgrees
    /\ L1NeverPanics
    /\ \A n \in Ships : Rank(n) = GALAXY => chain[n] # "none"
    /\ \A n \in Ships : HasRow(n) /\ chain[n] = "none" =>
          HasRow(Parent(n)) /\ chain[Parent(n)] # "l1"
    /\ \A n \in Ships : HasRow(points[n].sponsor)

(* What an event of a point n does to the two views of it.                 *)
Moves(n, q, c) ==
    /\ q \in Point /\ q.row
    /\ c \in {"l1", "spawn", "l2"}
    /\ q.dominion = DominionOf(c)
    /\ q.sponsor = n \/ HasRow(q.sponsor)
    /\ chain[n] = "none" => ~HasRow(n)
    /\ chain[n] \in {"spawn", "l2"} => c # "l1"
    /\ chain[n] = "l2" => c = "l2"
    /\ points' = [points EXCEPT ![n] = q]
    /\ chain' = [chain EXCEPT ![n] = c]

PlacedWrite == /\ panic' = panic
               /\ \/ UNCHANGED <<points, chain>>
                  \/ \E n \in Ships, q \in Point, c \in {"l1", "spawn", "l2"} :
                        Moves(n, q, c)

LEMMA KnownHasRow ==
    ASSUME Placed, NEW n \in Ships, chain[n] # "none"
    PROVE  HasRow(n) /\ points[n].dominion = DominionOf(chain[n])
BY DEF Placed, DominionAgrees

LEMMA DominionIsView ==
    ASSUME Placed, NEW n \in Ships, chain[n] # "none"
    PROVE  /\ points[n].dominion = 1 <=> chain[n] = "l1"
           /\ points[n].dominion = 2 <=> chain[n] = "l2"
           /\ points[n].dominion = 3 <=> chain[n] = "spawn"
BY KnownHasRow DEF Placed, Counted, TypeOK, DominionOf

(* An event that rewrites the row of a known point and leaves it where it  *)
(* is.                                                                     *)
LEMMA StaysPlaced ==
    ASSUME Placed, NEW n \in Ships, chain[n] # "none", NEW q \in Point,
           q.dominion = points[n].dominion,
           q.sponsor = points[n].sponsor \/ HasRow(q.sponsor),
           NEW op, Upsert(n, q, op), UNCHANGED chain
    PROVE  PlacedWrite
<1> DEFINE r == [q EXCEPT !.row = TRUE]
<1>1. r \in Point /\ r.row /\ r.dominion = q.dominion /\ r.sponsor = q.sponsor
  BY FieldTypes DEF Point
<1>2. points' = [points EXCEPT ![n] = r] /\ panic' = panic
  BY DEF Upsert
<1>3. chain[n] \in {"l1", "spawn", "l2"} /\ chain' = [chain EXCEPT ![n] = chain[n]]
  BY DEF Placed, Counted, TypeOK
<1>4. HasRow(r.sponsor)
  BY <1>1 DEF Placed
<1> HIDE DEF r
<1>5. Moves(n, r, chain[n])
  BY <1>1, <1>2, <1>3, <1>4, KnownHasRow DEF Moves
<1> QED
  BY <1>1, <1>2, <1>3, <1>5 DEF PlacedWrite

LEMMA StaysPlacedUnlessL2 ==
    ASSUME Placed, NEW n \in Ships, chain[n] # "none",
           NEW m \in Ships, chain[m] # "none", NEW q \in Point,
           q.dominion = points[n].dominion,
           q.sponsor = points[n].sponsor \/ HasRow(q.sponsor),
           NEW op, UnlessOnL2(n, m, q, op), UNCHANGED chain
    PROVE  PlacedWrite
BY StaysPlaced, KnownHasRow DEF UnlessOnL2, Skip, PlacedWrite

(* An event that moves a known point to dominion d, seen as c.             *)
LEMMA MovesPlaced ==
    ASSUME Placed, NEW n \in Ships, chain[n] # "none", chain[n] # "l2",
           NEW d \in {2, 3}, NEW c \in {"spawn", "l2"}, d = DominionOf(c),
           NEW op, Upsert(n, [points[n] EXCEPT !.dominion = d], op),
           chain' = [chain EXCEPT ![n] = c]
    PROVE  PlacedWrite
<1> DEFINE r == [points[n] EXCEPT !.dominion = d, !.row = TRUE]
<1>1. points[n] \in Point
  BY DEF Placed, Counted, TypeOK
<1>2. r \in Point
  <2>1. [points[n] EXCEPT !.dominion = d] \in Point
    BY <1>1 DEF Point
  <2> QED
    BY <2>1, FieldTypes
<1>3. r.row /\ r.dominion = d /\ r.sponsor = points[n].sponsor
  BY <1>1 DEF Point
<1>4. points' = [points EXCEPT ![n] = r] /\ panic' = panic
  BY DEF Upsert
<1> HIDE DEF r
<1>5. Moves(n, r, c)
  BY <1>2, <1>3, <1>4 DEF Moves, Placed
<1> QED
  BY <1>2, <1>4, <1>5 DEF PlacedWrite

LEMMA SpawnedPlaced ==
    ASSUME Placed, NEW n \in Ships, Spawned(n)
    PROVE  PlacedWrite
<1> DEFINE r == [NoPoint EXCEPT !.has_sponsor = TRUE, !.sponsor = Parent(n),
                                !.row = TRUE]
<1>1. Parent(n) \in Ships /\ chain[n] = "none" /\ chain[Parent(n)] = "l1"
  BY ParentType DEF Spawned
<1>2. ~HasRow(n) /\ HasRow(Parent(n))
  BY <1>1, KnownHasRow DEF Placed
<1>3. r \in Point
  BY <1>1, NoPointType, SponsorType, FieldTypes
<1>4. r.row /\ r.dominion = 1 /\ r.sponsor = Parent(n)
  BY DEF NoPoint
<1>5. /\ points' = [points EXCEPT ![n] = r] /\ panic' = panic
      /\ chain' = [chain EXCEPT ![n] = "l1"]
  BY <1>2 DEF Spawned, Upsert
<1> HIDE DEF r
<1>6. Moves(n, r, "l1")
  BY <1>1, <1>2, <1>3, <1>4, <1>5 DEF Moves, DominionOf
<1> QED
  BY <1>3, <1>5, <1>6 DEF PlacedWrite

LEMMA ActivatedPlaced ==
    ASSUME Placed, NEW n \in Ships, Activated(n)
    PROVE  PlacedWrite
<1> DEFINE q == [points[n] EXCEPT !.is_active = TRUE]
           g == [points[n] EXCEPT !.is_active = TRUE, !.has_sponsor = TRUE,
                                  !.sponsor = n]
<1>1. chain[n] # "none" /\ UNCHANGED chain
  BY DEF Activated, Placed, Counted, TypeOK
<1>2. points[n] \in Point
  BY DEF Placed, Counted, TypeOK
<1>3. q \in Point /\ g \in Point
  <2>1. q \in Point
    BY <1>2, FieldTypes
  <2> QED
    BY <2>1, SponsorType
<1>4. /\ q.dominion = points[n].dominion /\ q.sponsor = points[n].sponsor
      /\ g.dominion = points[n].dominion /\ g.sponsor = n
  BY <1>2 DEF Point
<1>5. Upsert(n, g, "activated") \/ Upsert(n, q, "activated")
  BY DEF Activated
<1> HIDE DEF q, g
<1> QED
  BY <1>1, <1>3, <1>4, <1>5, StaysPlaced, KnownHasRow

(* The events that write an address.                                       *)
LEMMA AddressPlaced ==
    ASSUME Placed, NEW n \in Ships, NEW a \in Targets,
           \/ OwnerChanged(n, a)
           \/ ChangedSpawnProxy(n, a)
           \/ ChangedTransferProxy(n, a)
           \/ ChangedManagementProxy(n, a)
           \/ ChangedVotingProxy(n, a)
    PROVE  PlacedWrite
<1>1. chain[n] # "none"
  BY DEF OwnerChanged, ChangedSpawnProxy, ChangedTransferProxy,
         ChangedManagementProxy, ChangedVotingProxy, Emitted
<1>2. points[n] \in Point /\ chain \in [Ships -> {"none", "l1", "spawn", "l2"}]
  BY DEF Placed, Counted, TypeOK
<1>3. ASSUME NEW role \in Proxy
      PROVE  /\ SetAddress(n, role, a) \in Point
             /\ SetAddress(n, role, a).dominion = points[n].dominion
             /\ SetAddress(n, role, a).sponsor = points[n].sponsor
  <2>1. SetAddress(n, role, a) \in Point
    BY <1>2, FieldTypes, ValuesAssumption DEF SetAddress
  <2> QED
    BY <1>2, <2>1 DEF SetAddress, Point
<1>4. HasRow(n) /\ (points[n].dominion = 1 <=> chain[n] = "l1")
                /\ (points[n].dominion = 2 <=> chain[n] = "l2")
  BY <1>1, KnownHasRow, DominionIsView
<1>5. CASE OwnerChanged(n, a)
  <2>1. CASE a = Deposit /\ points[n].dominion = 2
    BY <1>2, <1>4, <1>5, <2>1 DEF OwnerChanged, UnlessOnL2, Skip, PlacedWrite
  <2>2. CASE a = Deposit /\ points[n].dominion # 2
    <3>1. /\ Upsert(n, [points[n] EXCEPT !.dominion = 2], "new-dominion")
          /\ chain' = [chain EXCEPT ![n] = "l2"]
      BY <1>4, <1>5, <2>2 DEF OwnerChanged, UnlessOnL2
    <3>2. chain[n] # "l2" /\ 2 = DominionOf("l2")
      BY <1>4, <2>2 DEF DominionOf
    <3> QED
      BY <1>1, <3>1, <3>2, MovesPlaced
  <2>3. CASE a # Deposit
    <3>1. /\ UnlessOnL2(n, n, SetAddress(n, "owner", a), "changed-owner")
          /\ UNCHANGED chain
      BY <1>2, <1>5, <2>3 DEF OwnerChanged
    <3> QED
      BY <1>1, <1>3, <3>1, StaysPlacedUnlessL2 DEF Proxy
  <2> QED
    BY <2>1, <2>2, <2>3
<1>6. CASE ChangedSpawnProxy(n, a)
  <2> DEFINE migrates == a = Deposit /\ Rank(n) # PLANET
  <2>1. CASE points[n].dominion # 1
    BY <1>2, <1>4, <1>6, <2>1 DEF ChangedSpawnProxy, Skip, PlacedWrite
  <2>2. CASE points[n].dominion = 1 /\ migrates
    <3>1. /\ Upsert(n, [points[n] EXCEPT !.dominion = 3], "new-dominion")
          /\ chain' = [chain EXCEPT ![n] = "spawn"]
      BY <1>4, <1>6, <2>2 DEF ChangedSpawnProxy
    <3>2. chain[n] # "l2" /\ 3 = DominionOf("spawn")
      BY <1>4, <2>2 DEF DominionOf
    <3> QED
      BY <1>1, <3>1, <3>2, MovesPlaced
  <2>3. CASE points[n].dominion = 1 /\ ~migrates
    <3>1. /\ Upsert(n, SetAddress(n, "spawn", a), "changed-spawn-proxy")
          /\ UNCHANGED chain
      BY <1>2, <1>4, <1>6, <2>3 DEF ChangedSpawnProxy
    <3> QED
      BY <1>1, <1>3, <3>1, StaysPlaced DEF Proxy
  <2> QED
    BY <2>1, <2>2, <2>3
<1>7. CASE \/ ChangedTransferProxy(n, a)
           \/ ChangedManagementProxy(n, a)
           \/ ChangedVotingProxy(n, a)
  BY <1>1, <1>3, <1>7, StaysPlacedUnlessL2
     DEF ChangedTransferProxy, ChangedManagementProxy, ChangedVotingProxy, Proxy
<1> QED
  BY <1>5, <1>6, <1>7

(* The events about keys and breaches.                                     *)
LEMMA KeysPlaced ==
    ASSUME Placed, NEW n \in Ships,
           BrokeContinuity(n) \/ \E k \in KeySets : ChangedKeys(n, k)
    PROVE  PlacedWrite
<1>1. points[n] \in Point
  BY DEF Placed, Counted, TypeOK
<1>2. CASE BrokeContinuity(n)
  <2> DEFINE q == [points[n] EXCEPT !.rift = @ + 1]
  <2>1. q \in Point
    BY <1>1, FieldTypes, RiftLifeType
  <2>2. q.dominion = points[n].dominion /\ q.sponsor = points[n].sponsor
    BY <1>1 DEF Point
  <2>3. chain[n] # "none" /\ UnlessOnL2(n, n, q, "breached") /\ UNCHANGED chain
    BY <1>2 DEF BrokeContinuity, Emitted
  <2> HIDE DEF q
  <2> QED
    BY <2>1, <2>2, <2>3, StaysPlacedUnlessL2
<1>3. ASSUME NEW k \in KeySets, ChangedKeys(n, k)
      PROVE  PlacedWrite
  <2> DEFINE q == [points[n] EXCEPT !.keys = k, !.life = @ + 1]
  <2>1. q \in Point
    BY <1>1, FieldTypes, RiftLifeType
  <2>2. q.dominion = points[n].dominion /\ q.sponsor = points[n].sponsor
    BY <1>1 DEF Point
  <2>3. chain[n] # "none" /\ UnlessOnL2(n, n, q, "reset-keys") /\ UNCHANGED chain
    BY <1>3 DEF ChangedKeys, Emitted
  <2> HIDE DEF q
  <2> QED
    BY <2>1, <2>2, <2>3, StaysPlacedUnlessL2
<1> QED
  BY <1>2, <1>3

(* The events about sponsors.                                              *)
LEMMA SponsorPlaced ==
    ASSUME Placed, NEW n \in Ships, NEW s \in Ships,
           EscapeCanceled(n) \/ EscapeRequested(n, s) \/ EscapeAccepted(n, s)
              \/ LostSponsor(n, s)
    PROVE  PlacedWrite
<1>1. points[n] \in Point /\ chain[n] # "none"
  BY DEF Placed, Counted, TypeOK, EscapeCanceled, EscapeRequested,
         EscapeAccepted, LostSponsor, Emitted
<1>2. CASE EscapeCanceled(n)
  <2> DEFINE q == [points[n] EXCEPT !.is_escape_requested = FALSE,
                                    !.escape_requested_to = 0]
  <2>1. q \in Point
    BY <1>1, RequestType, ShipsAssumption
  <2>2. q.dominion = points[n].dominion /\ q.sponsor = points[n].sponsor
    BY <1>1 DEF Point
  <2>3. UnlessOnL2(n, n, q, "escape-canceled") /\ UNCHANGED chain
    BY <1>2 DEF EscapeCanceled
  <2> HIDE DEF q
  <2> QED
    BY <1>1, <2>1, <2>2, <2>3, StaysPlacedUnlessL2
<1>3. CASE EscapeRequested(n, s)
  <2> DEFINE q == [points[n] EXCEPT !.is_escape_requested = TRUE,
                                    !.escape_requested_to = s]
  <2>1. q \in Point
    BY <1>1, RequestType
  <2>2. q.dominion = points[n].dominion /\ q.sponsor = points[n].sponsor
    BY <1>1 DEF Point
  <2>3. UnlessOnL2(n, n, q, "escape-requested") /\ UNCHANGED chain
    BY <1>3 DEF EscapeRequested
  <2> HIDE DEF q
  <2> QED
    BY <1>1, <2>1, <2>2, <2>3, StaysPlacedUnlessL2
<1>4. CASE EscapeAccepted(n, s)
  <2> DEFINE q == [points[n] EXCEPT !.is_escape_requested = FALSE,
                                    !.escape_requested_to = 0,
                                    !.has_sponsor = TRUE,
                                    !.sponsor = s]
  <2>1. q \in Point
    BY <1>1, AcceptType
  <2>2. q.dominion = points[n].dominion /\ q.sponsor = s
    BY <1>1 DEF Point
  <2>3. /\ UnlessOnL2(n, s, q, "escape-accepted") /\ UNCHANGED chain
        /\ chain[s] # "none"
    BY <1>4 DEF EscapeAccepted, CanEscapeTo
  <2> HIDE DEF q
  <2> QED
    BY <1>1, <2>1, <2>2, <2>3, StaysPlacedUnlessL2, KnownHasRow
<1>5. CASE LostSponsor(n, s)
  <2> DEFINE q == [points[n] EXCEPT !.has_sponsor = FALSE]
  <2>1. q \in Point
    BY <1>1, FieldTypes
  <2>2. q.dominion = points[n].dominion /\ q.sponsor = points[n].sponsor
    BY <1>1 DEF Point
  <2>3. HasRow(n) /\ HasRow(points[n].sponsor)
    BY <1>1, KnownHasRow DEF Placed
  <2>4. /\ UNCHANGED chain /\ chain[s] # "none"
        /\ Skip \/ UnlessOnL2(n, s, q, "lost-sponsor")
    BY <1>1, <1>5, <2>3 DEF LostSponsor, MaySponsor, CanEscapeTo
  <2> HIDE DEF q
  <2> QED
    BY <1>1, <2>1, <2>2, <2>4, StaysPlacedUnlessL2 DEF Skip, PlacedWrite
<1> QED
  BY <1>2, <1>3, <1>4, <1>5

LEMMA EventPlaced ==
    ASSUME Placed, AzimuthEvent
    PROVE  PlacedWrite
<1>1. CASE ChangedDns
  BY <1>1 DEF ChangedDns, Skip, PlacedWrite
<1>2. ASSUME NEW n \in Ships,
             \/ Spawned(n)
             \/ Activated(n)
             \/ BrokeContinuity(n)
             \/ \E k \in KeySets \ {NoKeys} : ChangedKeys(n, k)
             \/ \E a \in Targets : \/ OwnerChanged(n, a)
                                    \/ ChangedSpawnProxy(n, a)
                                    \/ ChangedTransferProxy(n, a)
                                    \/ ChangedManagementProxy(n, a)
                                    \/ ChangedVotingProxy(n, a)
             \/ EscapeCanceled(n)
             \/ \E s \in Ships : \/ EscapeRequested(n, s)
                                 \/ EscapeAccepted(n, s)
                                 \/ LostSponsor(n, s)
      PROVE  PlacedWrite
  BY <1>2, SpawnedPlaced, ActivatedPlaced, KeysPlaced, AddressPlaced, SponsorPlaced
<1> QED
  BY <1>1, <1>2 DEF AzimuthEvent

LEMMA PlacedInit == GalaxiesRegistered /\ Init => Placed
<1> SUFFICES ASSUME GalaxiesRegistered, Init PROVE Placed
  OBVIOUS
<1>1. ASSUME NEW n \in Registered
      PROVE  /\ GenesisPoint(n).row /\ GenesisPoint(n).dominion = 1
             /\ GenesisPoint(n).sponsor \in Registered
  <2> DEFINE s == IF Rank(n) = GALAXY THEN n ELSE Parent(n)
  <2>1. s \in Registered
    BY GenesisAssumption
  <2>2. GenesisPoint(n).row /\ GenesisPoint(n).dominion = 1 /\ GenesisPoint(n).sponsor = s
    BY DEF GenesisPoint, NoPoint
  <2> QED
    BY <2>1, <2>2
<1>2. \A n \in Ships : IF n \in Registered
                      THEN points[n] = GenesisPoint(n) /\ chain[n] = "l1"
                      ELSE points[n] = NoPoint /\ chain[n] = "none"
  BY DEF Init
<1>3. \A n \in Ships : HasRow(n) <=> n \in Registered
  <2>1. NoPoint.row = FALSE
    BY DEF NoPoint
  <2> QED
    BY <1>1, <1>2, <2>1 DEF HasRow
<1>4. 0 \in Registered
  BY ShipsAssumption DEF GalaxiesRegistered, Rank, GALAXY
<1>5. Counted
  BY CountedInit
<1>6. DominionAgrees
  <2>1. \A n \in Ships : IF n \in Registered
                        THEN HasRow(n) /\ points[n].dominion = 1 /\ chain[n] = "l1"
                        ELSE ~HasRow(n) /\ chain[n] = "none"
    BY <1>1, <1>2, <1>3, ZenonT(60)
  <2>2. DominionOf("l1") = 1 /\ "l1" # "none"
    BY DEF DominionOf
  <2> QED
    BY <2>1, <2>2, Zenon DEF DominionAgrees
<1>7. \A n \in Ships : Rank(n) = GALAXY => chain[n] # "none"
  BY <1>2 DEF GalaxiesRegistered
<1>8. \A n \in Ships : HasRow(points[n].sponsor)
  <2>1. NoPoint.sponsor = 0
    BY DEF NoPoint
  <2>2. ASSUME NEW n \in Ships
        PROVE  HasRow(points[n].sponsor)
    <3>1. CASE n \in Registered
      <4>1. points[n].sponsor \in Registered
        BY <1>1, <1>2, <3>1
      <4> QED
        BY <1>3, <4>1, GenesisAssumption
    <3>2. CASE n \notin Registered
      <4>1. points[n].sponsor = 0
        BY <1>2, <2>1, <3>2
      <4> QED
        BY <1>3, <1>4, <4>1, ShipsAssumption
    <3> QED
      BY <3>1, <3>2
  <2> QED
    BY <2>2
<1>9. L1NeverPanics
  BY DEF Init, L1NeverPanics
<1> QED
  BY <1>2, <1>3, <1>5, <1>6, <1>7, <1>8, <1>9 DEF Placed

LEMMA PlacedL1 ==
    ASSUME Placed, L1
    PROVE  Placed'
<1>1. PlacedWrite /\ Counted'
  BY EventPlaced, CountedL1 DEF L1, Placed
<1>2. CASE UNCHANGED <<points, chain>>
  BY <1>1, <1>2 DEF Placed, PlacedWrite, DominionAgrees, L1NeverPanics, HasRow
<1>3. ASSUME NEW n \in Ships, NEW q \in Point, NEW c \in {"l1", "spawn", "l2"},
             Moves(n, q, c)
      PROVE  Placed'
  <2>1. /\ \A m \in Ships : points'[m] = IF m = n THEN q ELSE points[m]
        /\ \A m \in Ships : chain'[m] = IF m = n THEN c ELSE chain[m]
    BY <1>3 DEF Moves, Placed, Counted, TypeOK
  <2>2. \A m \in Ships : HasRow(m) => HasRow(m)'
    BY <1>3, <2>1 DEF HasRow, Moves
  <2>3. DominionAgrees'
    BY <1>3, <2>1, <2>2 DEF Placed, DominionAgrees, HasRow, Moves
  <2>4. L1NeverPanics'
    BY <1>1 DEF Placed, PlacedWrite, L1NeverPanics
  <2>5. (\A m \in Ships : Rank(m) = GALAXY => chain[m] # "none")'
    BY <1>3, <2>1 DEF Placed, Moves
  <2>6. ASSUME NEW m \in Ships, HasRow(m)', chain'[m] = "none"
        PROVE  HasRow(Parent(m))' /\ chain'[Parent(m)] # "l1"
    <3>1. m # n /\ HasRow(m) /\ chain[m] = "none"
      BY <1>3, <2>1, <2>6 DEF HasRow
    <3>2. Parent(m) \in Ships /\ HasRow(Parent(m)) /\ chain[Parent(m)] # "l1"
      BY <3>1, ParentType DEF Placed
    <3>3. CASE Parent(m) = n
      <4>1. chain[n] \in {"spawn", "l2"}
        BY <1>3, <3>2, <3>3 DEF Moves, Placed, Counted, TypeOK
      <4> QED
        BY <1>3, <2>1, <2>2, <3>2, <3>3, <4>1 DEF Moves
    <3>4. CASE Parent(m) # n
      BY <2>1, <2>2, <3>2, <3>4
    <3> QED
      BY <3>3, <3>4
  <2>7. (\A m \in Ships : HasRow(points[m].sponsor))'
    <3>1. q.sponsor \in Ships /\ \A m \in Ships : points[m].sponsor \in Ships
      BY DEF Point, Placed, Counted, TypeOK
    <3>2. HasRow(n)'
      BY <1>3, <2>1 DEF Moves, HasRow
    <3>3. HasRow(q.sponsor)'
      BY <1>3, <2>2, <3>1, <3>2 DEF Moves
    <3> QED
      BY <2>1, <2>2, <3>1, <3>3 DEF Placed, HasRow
  <2> QED
    BY <1>1, <2>3, <2>4, <2>5, <2>6, <2>7 DEF Placed
<1> QED
  BY <1>1, <1>2, <1>3 DEF PlacedWrite

(* What a carried transaction leaves of the facts in Placed.               *)
LEMMA PlacedCarried ==
    ASSUME Placed, NEW h \in Header, Carried(h)
    PROVE  /\ panic' = panic
           /\ \A m \in Ships : HasRow(m) => /\ HasRow(m)'
                                            /\ points'[m].dominion = points[m].dominion
           /\ \A m \in Ships : HasRow(points'[m].sponsor)
           /\ \A m \in Ships : ~HasRow(m) /\ HasRow(m)' =>
                 /\ points'[m].dominion = 2
                 /\ h.ship = Parent(m)
                 /\ SpawnsOnL2(Parent(m))
<1> USE DEF Placed, Counted
<1>1. h.ship \in Ships /\ HasRow(h.ship) /\ HasRow(0)
  <2>1. Rank(0) = GALAXY /\ 0 \in Ships
    BY ShipsAssumption DEF Rank
  <2> QED
    BY <2>1, HeaderType, KnownHasRow DEF Carried
<1>2. CASE Ignored(h)
  <2>1. points' = BumpNonce(points, h)
    BY <1>2 DEF Ignored
  <2>2. \A m \in Ships : /\ points'[m].row = points[m].row
                         /\ points'[m].dominion = points[m].dominion
                         /\ points'[m].sponsor = points[m].sponsor
    BY <2>1, BumpShape DEF TypeOK
  <2> QED
    BY <1>2, <2>2 DEF Ignored, HasRow
<1>3. ASSUME NEW n \in Ships, NEW q \in Point, NEW ops \in SUBSET DiffOps,
             L2Write(h, n, q), Applied(h, n, q, ops)
      PROVE  /\ panic' = panic
             /\ \A m \in Ships : HasRow(m) => /\ HasRow(m)'
                                              /\ points'[m].dominion = points[m].dominion
             /\ \A m \in Ships : HasRow(points'[m].sponsor)
             /\ \A m \in Ships : ~HasRow(m) /\ HasRow(m)' =>
                   /\ points'[m].dominion = 2
                   /\ h.ship = Parent(m)
                   /\ SpawnsOnL2(Parent(m))
  <2> DEFINE table == [points EXCEPT ![n] = q]
  <2>1. table \in [Ships -> Point]
    BY DEF TypeOK
  <2>2. points' = BumpNonce(table, h) /\ panic' = panic
    BY <1>3 DEF Applied
  <2>3. \A m \in Ships : table[m] = IF m = n THEN q ELSE points[m]
    BY DEF TypeOK
  <2> HIDE DEF table
  <2>4. \A m \in Ships : /\ points'[m].row = table[m].row
                         /\ points'[m].dominion = table[m].dominion
                         /\ points'[m].sponsor = table[m].sponsor
    BY <2>1, <2>2, BumpShape
  <2>5. \A m \in Ships : HasRow(m) => /\ HasRow(m)'
                                      /\ points'[m].dominion = points[m].dominion
    BY <1>3, <2>3, <2>4 DEF HasRow, L2Write
  <2>6. \A m \in Ships : HasRow(points'[m].sponsor)
    BY <1>1, <1>3, <2>3, <2>4 DEF L2Write
  <2>7. \A m \in Ships : ~HasRow(m) /\ HasRow(m)' =>
           /\ points'[m].dominion = 2 /\ h.ship = Parent(m) /\ SpawnsOnL2(Parent(m))
    BY <1>3, <2>3, <2>4 DEF HasRow, L2Write
  <2> QED
    BY <2>2, <2>5, <2>6, <2>7
<1> QED
  BY <1>2, <1>3 DEF Carried

LEMMA PlacedL2 ==
    ASSUME Placed, L2
    PROVE  Placed'
<1>1. Counted' /\ chain' = chain
  BY CountedL2 DEF L2, Placed
<1>2. CASE Dropped
  BY <1>1, <1>2 DEF Dropped, Placed, DominionAgrees, L1NeverPanics, HasRow
<1>3. ASSUME NEW h \in Header, Carried(h)
      PROVE  Placed'
  <2>1. /\ panic' = panic
        /\ \A m \in Ships : HasRow(m) => /\ HasRow(m)'
                                         /\ points'[m].dominion = points[m].dominion
        /\ \A m \in Ships : HasRow(points'[m].sponsor)
        /\ \A m \in Ships : ~HasRow(m) /\ HasRow(m)' =>
              points'[m].dominion = 2 /\ h.ship = Parent(m) /\ SpawnsOnL2(Parent(m))
    BY <1>3, PlacedCarried
  <2>2. DominionAgrees'
    BY <1>1, <2>1 DEF Placed, DominionAgrees
  <2>3. L1NeverPanics'
    BY <2>1 DEF Placed, L1NeverPanics
  <2>4. ASSUME NEW m \in Ships, HasRow(m)', chain[m] = "none"
        PROVE  HasRow(Parent(m))' /\ chain[Parent(m)] # "l1"
    <3>1. CASE HasRow(m)
      BY <2>1, <2>4, <3>1, ParentType DEF Placed
    <3>2. CASE ~HasRow(m)
      <4>1. Parent(m) \in Ships /\ SpawnsOnL2(Parent(m)) /\ HasRow(Parent(m))
        BY <1>3, <2>1, <2>4, <3>2, ParentType DEF Carried
      <4>2. chain[Parent(m)] # "l1"
        BY <4>1, KnownHasRow DEF SpawnsOnL2, DominionOf
      <4> QED
        BY <2>1, <4>1, <4>2
    <3> QED
      BY <3>1, <3>2
  <2>5. (\A m \in Ships : HasRow(points[m].sponsor))'
    BY <1>1, <2>1 DEF Placed, Counted, TypeOK, Point
  <2> QED
    BY <1>1, <2>2, <2>3, <2>4, <2>5 DEF Placed
<1> QED
  BY <1>2, <1>3, TransactionShape DEF L2, Placed, Counted

LEMMA PlacedStep == Placed /\ [Next]_vars => Placed'
<1>1. ASSUME Placed, UNCHANGED vars
      PROVE  Placed'
  <2>1. Counted'
    BY <1>1, CountedStep DEF Placed
  <2> QED
    BY <1>1, <2>1 DEF Placed, vars, DominionAgrees, L1NeverPanics, HasRow
<1> QED
  BY <1>1, PlacedL1, PlacedL2 DEF Next

LEMMA SpecPlaced == GalaxiesRegistered => (Spec => []Placed)
BY PlacedInit, PlacedStep, PTL DEF Spec

(* With the galaxies known at the start, the dominion column is where the  *)
(* contract has each point, after any interleaving of the two layers: no   *)
(* L2 transaction can spawn a number that SPAWNED will announce.           *)
THEOREM DominionsAgree == GalaxiesRegistered => (Spec => []DominionAgrees)
<1>1. Placed => DominionAgrees
  BY DEF Placed
<1> QED
  BY <1>1, SpecPlaced, PTL

(* With the galaxies known at the start, no event of the contract meets a  *)
(* missing row or one that is already there: GetDominion finds the point,  *)
(* the insert of SPAWNED meets no row, and the join of LOST_SPONSOR one.   *)
THEOREM EventsNeverPanic == GalaxiesRegistered => (Spec => []L1NeverPanics)
<1>1. Placed => L1NeverPanics
  BY DEF Placed
<1> QED
  BY <1>1, SpecPlaced, PTL

LEMMA MovesOneWay ==
    ASSUME Placed, [Next]_vars, NEW n \in Ships, HasRow(n),
           points'[n].dominion # points[n].dominion
    PROVE  points[n].dominion # 2 /\ points'[n].dominion # 1 /\ OnL1Step
<1>1. CASE L1
  <2>1. PICK m \in Ships, q \in Point, c \in {"l1", "spawn", "l2"} : Moves(m, q, c)
    <3>1. PlacedWrite
      BY <1>1, EventPlaced DEF L1
    <3> QED
      BY <3>1 DEF PlacedWrite
  <2>2. m = n /\ points'[n] = q
    BY <2>1 DEF Moves, Placed, Counted, TypeOK
  <2>3. chain[n] # "none" /\ points[n].dominion = DominionOf(chain[n])
    BY <2>1, <2>2, KnownHasRow DEF Moves
  <2>4. q.dominion = DominionOf(c)
    BY <2>1 DEF Moves
  <2>5. chain[n] # "l2" /\ c # "l1"
    <3>1. chain[n] \in {"l1", "spawn", "l2"}
      BY <2>3 DEF Placed, Counted, TypeOK
    <3>2. c # chain[n]
      BY <2>2, <2>3, <2>4
    <3> QED
      BY <2>1, <2>2, <3>1, <3>2 DEF Moves
  <2>6. points[n].dominion # 2 /\ points'[n].dominion # 1
    BY <2>2, <2>3, <2>4, <2>5 DEF DominionOf, Placed, Counted, TypeOK
  <2> QED
    BY <1>1, <2>6 DEF L1, OnL1Step
<1>2. CASE L2
  <2>1. CASE Dropped
    BY <2>1 DEF Dropped
  <2>2. ASSUME NEW h \in Header, Carried(h)
        PROVE  FALSE
    BY <2>2, PlacedCarried
  <2> QED
    BY <1>2, <2>1, <2>2, TransactionShape DEF L2, Placed, Counted
<1>3. CASE UNCHANGED vars
  BY <1>3 DEF vars
<1> QED
  BY <1>1, <1>2, <1>3 DEF Next

(* With the galaxies known at the start, a point leaves L1 for good, and   *)
(* only by an event: no transaction and no later event brings it back.     *)
THEOREM DominionsMoveOneWay == GalaxiesRegistered => (Spec => OneWayDominion)
<1>1. Placed /\ [Next]_vars =>
         [\A n \in Ships :
             HasRow(n) /\ points'[n].dominion # points[n].dominion =>
                /\ points[n].dominion # 2
                /\ points'[n].dominion # 1
                /\ OnL1Step]_vars
  BY MovesOneWay
<1> QED
  BY <1>1, SpecPlaced, PTL DEF Spec, OneWayDominion
-----------------------------------------------------------------------------
(* What a step may do: every row that is there after it, against the row   *)
(* before it and the operations logged about it.                           *)
OpsOf(n) == {op \in DiffOps : Logged(n, {op})}

(* Nothing a transaction may or may not do depends on a nonce.             *)
LEMMA LawfulButNonces ==
    ASSUME NEW h, NEW n, NEW p \in Point, NEW q \in Point, NEW b \in Point, NEW ops,
           Lawful(h, n, p, q, ops),
           b.row = q.row, b.addr = q.addr, b.dominion = q.dominion,
           b.life = q.life, b.rift = q.rift, b.keys = q.keys,
           b.has_sponsor = q.has_sponsor, b.sponsor = q.sponsor,
           b.is_escape_requested = q.is_escape_requested,
           b.escape_requested_to = q.escape_requested_to,
           b.is_active = q.is_active
    PROVE  Lawful(h, n, p, b, ops)
<1>1. /\ SponsorOf(b) = SponsorOf(q) /\ Own(b) = Own(q) /\ Request(b) = Request(q)
      /\ SponsorOps(b) = SponsorOps(q) /\ RequestOps(b) = RequestOps(q)
  BY DEF SponsorOf, Own, Request, SponsorOps, RequestOps
<1>2. Authorised(h, n, p, b) /\ Consented(h, n, p, b) /\ Numbered(p, b)
  BY <1>1 DEF Lawful, Authorised, Consented, Numbered
<1>3. KeptOnL1(p, b)
  <2>1. \A x : Own([b EXCEPT !.addr["spawn"] = x]) = Own([q EXCEPT !.addr["spawn"] = x])
    BY DEF Own, Point
  <2> QED
    BY <1>1, <2>1 DEF Lawful, KeptOnL1
<1>4. Explained(p, b, ops) /\ Readdressed(p, b, ops)
  BY <1>1 DEF Lawful, Explained, Readdressed
<1> QED
  BY <1>2, <1>3, <1>4 DEF Lawful

LEMMA LawfulUnchanged ==
    ASSUME NEW h, NEW n, NEW p \in Point
    PROVE  Lawful(h, n, p, p, {})
<1>1. Consented(h, n, p, p)
  BY SponsorshipKept
<1>2. KeptOnL1(p, p)
  BY OwnButSpawn DEF KeptOnL1
<1> QED
  BY <1>1, <1>2 DEF Lawful, Authorised, Numbered, Explained, Readdressed

(* What SaveDiff logged is what the step logged.                           *)
LEMMA OpsSaved ==
    ASSUME NEW n \in Ships, NEW ops \in SUBSET DiffOps, SaveDiffs(n, ops), NEW m \in Ships
    PROVE  OpsOf(m) = IF m = n THEN ops ELSE {}
<1>1. \A d \in diffs' : d.azimuth_number = n /\ d.operation \in ops
  BY DEF SaveDiffs
<1>2. ASSUME NEW op \in ops PROVE Logged(n, {op})
  <2> DEFINE d == [azimuth_number |-> n, operation |-> op]
  <2>1. d \in diffs' /\ d.azimuth_number = n /\ d.operation = op
    BY DEF SaveDiffs
  <2> HIDE DEF d
  <2> QED
    BY <2>1 DEF Logged
<1> QED
  BY <1>1, <1>2 DEF OpsOf, Logged

LEMMA NothingLogged ==
    ASSUME diffs' = {}, NEW m
    PROVE  OpsOf(m) = {}
BY DEF OpsOf, Logged

LEMMA CarriedLawful ==
    ASSUME TypeOK, NEW h \in Header, Carried(h), NEW m \in Ships
    PROVE  Lawful(h, m, points[m], points'[m], OpsOf(m))
<1>1. points'[m] \in Point /\ points[m] \in Point
  BY CarriedShape DEF TypeOK
<1>2. CASE Ignored(h)
  <2>1. points' = BumpNonce(points, h) /\ OpsOf(m) = {}
    BY <1>2, NothingLogged DEF Ignored
  <2>2. Lawful(h, m, points[m], points[m], {})
    BY <1>1, LawfulUnchanged
  <2>3. points \in [Ships -> Point]
    BY DEF TypeOK
  <2> QED
    BY <1>1, <2>1, <2>2, <2>3, BumpShape, LawfulButNonces
<1>3. ASSUME NEW n \in Ships, NEW q \in Point, NEW ops \in SUBSET DiffOps,
             Lawful(h, n, points[n], q, ops), Applied(h, n, q, ops)
      PROVE  Lawful(h, m, points[m], points'[m], OpsOf(m))
  <2> DEFINE table == [points EXCEPT ![n] = q]
  <2>1. table \in [Ships -> Point] /\ table[m] = IF m = n THEN q ELSE points[m]
    BY DEF TypeOK
  <2>2. points' = BumpNonce(table, h) /\ OpsOf(m) = IF m = n THEN ops ELSE {}
    BY <1>3, OpsSaved DEF Applied
  <2> HIDE DEF table
  <2>3. Lawful(h, m, points[m], table[m], OpsOf(m))
    BY <1>1, <1>3, <2>1, <2>2, LawfulUnchanged
  <2>4. table[m] \in Point
    BY <2>1
  <2> QED
    BY <1>1, <2>1, <2>2, <2>3, <2>4, BumpShape, LawfulButNonces
<1> QED
  BY <1>2, <1>3 DEF Carried

(* It is an L2 step, signed by whom its header says.                       *)
LEMMA CarriedSigned ==
    ASSUME Counted, NEW h \in Header, Carried(h)
    PROVE  OnL2Step /\ \A n, roles : For(h, n, roles) => SignedBy(n, roles)
<1> DEFINE x == <<h.ship, h.proxy, h.nonce>>
<1>1. spent' = spent \cup {x} /\ h.nonce = points[h.ship].nonce[h.proxy]
  BY CarriedShape DEF Counted
<1>2. h.ship \in Ships /\ h.proxy \in Proxy /\ h.nonce \in Nat
  BY HeaderType
<1>3. x \notin spent
  <2> SUFFICES ASSUME x \in spent PROVE FALSE
    OBVIOUS
  <2>1. x \in {y \in spent : y[1] = h.ship /\ y[2] = h.proxy}
    OBVIOUS
  <2>2. x \in {<<h.ship, h.proxy, k>> : k \in 0..(h.nonce - 1)}
    BY <1>1, <1>2, <2>1 DEF Counted, NonceCountsSpent
  <2>3. PICK k \in 0..(h.nonce - 1) : k = h.nonce
    BY <2>2
  <2> QED
    BY <1>2, <2>3
<1> QED
  BY <1>1, <1>3 DEF OnL2Step, For, SignedBy

(* The transactions of a step are carried out or leave no trace.           *)
LEMMA L2Step ==
    ASSUME Counted, L2
    PROVE  \/ UNCHANGED <<points, spent>> /\ diffs' = {}
           \/ \E h \in Header : Carried(h)
BY TransactionShape DEF L2, Counted, Dropped

(* What an event did, to the point it is about and to the others.          *)
LEMMA EventLawful ==
    ASSUME Counted, L1, NEW n \in Ships
    PROVE  /\ OnL1Step
           /\ \/ points'[n] = points[n] /\ OpsOf(n) = {}
              \/ \E op \in DiffOps :
                    /\ OpsOf(n) = {op} /\ L1Write(n, points'[n])
                    /\ LawfulEvent(n, points[n], points'[n], op)
<1>1. Written /\ OnL1Step
  BY EventShape DEF L1, OnL1Step, Counted
<1>2. CASE UNCHANGED points /\ diffs' = {}
  BY <1>1, <1>2, NothingLogged
<1>3. ASSUME NEW m \in Ships, NEW q \in Point, NEW op \in DiffOps,
             L1Write(m, q), LawfulEvent(m, points[m], q, op),
             points' = [points EXCEPT ![m] = q], SaveDiffs(m, {op})
      PROVE  \/ points'[n] = points[n] /\ OpsOf(n) = {}
             \/ \E o \in DiffOps :
                   /\ OpsOf(n) = {o} /\ L1Write(n, points'[n])
                   /\ LawfulEvent(n, points[n], points'[n], o)
  <2>1. points'[n] = IF n = m THEN q ELSE points[n]
    BY <1>3 DEF Counted, TypeOK
  <2>2. OpsOf(n) = IF n = m THEN {op} ELSE {}
    BY <1>3, OpsSaved
  <2> QED
    BY <1>3, <2>1, <2>2
<1> QED
  BY <1>1, <1>2, <1>3 DEF Written

(* The three things a step can be to a point: nothing, an event about it,  *)
(* a transaction carried out for somebody.                                 *)
LEMMA StepLawful ==
    ASSUME Counted, Next, NEW n \in Ships
    PROVE  \/ OnL1Step /\ points'[n] = points[n] /\ OpsOf(n) = {}
           \/ /\ OnL1Step /\ L1Write(n, points'[n])
              /\ \E op \in DiffOps :
                    OpsOf(n) = {op} /\ LawfulEvent(n, points[n], points'[n], op)
           \/ /\ OnL2Step
              /\ \E h \in Header :
                    /\ Lawful(h, n, points[n], points'[n], OpsOf(n))
                    /\ \A m, roles : For(h, m, roles) => SignedBy(m, roles)
<1>1. CASE L1
  BY <1>1, EventLawful
<1>2. CASE L2
  BY <1>2, L2Step, CarriedLawful, CarriedSigned, NothingLogged DEF Counted, OnL1Step
<1> QED
  BY <1>1, <1>2 DEF Next

(* On L2 a row changes, or comes to be, by the signature of a role with    *)
(* authority over the field that changed (the checks of Effects at the     *)
(* head of each opcode), whatever events come between.                     *)
THEOREM WritersOnly == Spec => OnlyWritersWrite
<1>1. Counted /\ [Next]_vars =>
         [OnL2Step => \A n \in Ships :
             IF HasRow(n)
             THEN /\ \A r \in Proxy :
                        points'[n].addr[r] # points[n].addr[r]
                           => SignedBy(n, Writers(r))
                  /\ points'[n].keys # points[n].keys
                        => SignedBy(n, {"owner", "transfer", "management"})
             ELSE HasRow(n)' => SignedBy(Parent(n), {"owner", "spawn"})]_vars
  BY StepLawful DEF OnL1Step, OnL2Step, Lawful, Authorised, HasRow
<1> QED
  BY <1>1, SpecCounted, PTL DEF Spec, OnlyWritersWrite

(* On L2 nobody is given a sponsor it did not ask for, and nobody loses    *)
(* one but by the sponsor's signature (Adopt, Reject, Detach, Escape and   *)
(* CancelEscape), and requests go one rank up, whatever events come        *)
(* between; ship 0 as a new sponsor aside.                                 *)
THEOREM ConsentNeeded == Spec => SponsorNeedsConsent
<1>1. Counted /\ [Next]_vars =>
         [OnL2Step => \A n \in Ships : LET p == points[n] q == points'[n] IN
             /\ \A s \in SponsorOf(q) \ (SponsorOf(p) \cup {0}) :
                   IF p.row
                   THEN /\ p.is_escape_requested /\ p.escape_requested_to = s
                        /\ SignedBy(s, {"owner", "management"})
                   ELSE s = Parent(n)
             /\ SponsorOf(q) = {} => \A s \in SponsorOf(p) :
                   SignedBy(s, {"owner", "management"})
             /\ Request(q) # Request(p) /\ q.is_escape_requested =>
                   /\ SignedBy(n, {"owner", "management"})
                   /\ Rank(q.escape_requested_to) + 1 = Rank(n)
             /\ p.is_escape_requested /\ ~q.is_escape_requested =>
                   \/ SignedBy(n, {"owner", "management"})
                   \/ SignedBy(p.escape_requested_to, {"owner", "management"})]_vars
  BY StepLawful DEF OnL1Step, OnL2Step, Lawful, Consented
<1> QED
  BY <1>1, SpecCounted, PTL DEF Spec, SponsorNeedsConsent

(* Neither layer writes what is the other's: on L1 only what the dominion  *)
(* check of each event lets through (events.go), on L2 only what OnL2 and  *)
(* SpawnsOnL2 do, for any interleaving of events and transactions.         *)
THEOREM LayersApart == Spec => LayersIsolated
<1>1. ASSUME Counted, Next, NEW n \in Ships
      PROVE  LayerKept(n)
  <2>1. ~(OnL1Step /\ OnL2Step)
    BY DEF OnL1Step, OnL2Step
  <2>2. CASE points'[n] = points[n]
    BY <2>2 DEF LayerKept
  <2>3. ASSUME OnL1Step, L1Write(n, points'[n]), NEW op, OpsOf(n) = {op},
               LawfulEvent(n, points[n], points'[n], op)
        PROVE  LayerKept(n)
    <3>1. op = "escape-accepted" => Logged(n, {"escape-accepted"})
      BY <2>3 DEF OpsOf
    <3>2. points[n].row /\ points[n].dominion = 2 =>
             OutOfReach(n, points[n], points'[n])
      BY <2>3, <3>1 DEF L1Write, LawfulEvent, RequestEnds, OutOfReach
    <3> QED
      BY <2>1, <2>3, <3>2 DEF LawfulEvent, LayerKept, HasRow
  <2>4. ASSUME OnL2Step, KeptOnL1(points[n], points'[n])
        PROVE  LayerKept(n)
    BY <2>1, <2>4 DEF KeptOnL1, LayerKept, HasRow
  <2> QED
    BY <1>1, <2>2, <2>3, <2>4, StepLawful DEF Lawful
<1>2. Counted /\ [Next]_vars => [\A n \in Ships : LayerKept(n)]_vars
  BY <1>1
<1> QED
  BY <1>2, SpecCounted, PTL DEF Spec, LayersIsolated

(* New keys are a new life and a life is not used up for nothing; life and *)
(* rift count one at a time, on both layers and across them.               *)
THEOREM LivesNumberKeys == Spec => LifeNumbersKeys
<1> DEFINE Counts(n) ==
              LET p == points[n] q == points'[n] IN
              HasRow(n) =>
                 /\ q.life \in {p.life, p.life + 1}
                 /\ q.rift \in {p.rift, p.rift + 1}
                 /\ q.life = p.life => q.keys = p.keys \/ (Blank(p.keys) /\ Blank(q.keys))
                 /\ OnL2Step /\ q.life # p.life => q.keys # p.keys
<1>1. ASSUME Counted, Next, NEW n \in Ships
      PROVE  Counts(n)
  BY <1>1, StepLawful DEF Lawful, LawfulEvent, Numbered, HasRow, OnL1Step, OnL2Step
<1>2. Counted /\ [Next]_vars => [\A n \in Ships : Counts(n)]_vars
  <2> HIDE DEF Counts
  <2> QED
    BY <1>1
<1> QED
  BY <1>2, SpecCounted, PTL DEF Spec, LifeNumbersKeys

(* SaveDiff tells of every column that changed but the nonces, under the   *)
(* point that changed, for each event and each transaction (applied,       *)
(* ignored, dropped or at a panic); of the proxies a transfer clears it    *)
(* tells no more than the new owner.                                       *)
THEOREM ChangesLogged == Spec => ChangesAreLogged
<1>1. ASSUME Counted, Next, NEW n \in Ships
      PROVE  ChangeLogged(n)
  <2> DEFINE p == points[n]
             q == points'[n]
             ops == OpsOf(n)
  <2>1. \A set \in SUBSET DiffOps : Logged(n, set) <=> ops \cap set # {}
    BY DEF OpsOf, Logged
  <2>2. Explained(p, q, ops) /\ Numbered(p, q)
    BY StepLawful, <1>1 DEF Lawful, LawfulEvent, Explained, Numbered
  <2>3. ~p.row /\ q.row =>
           (IF Rank(n) = GALAXY /\ OnL1Step THEN "activated" ELSE "spawned") \in ops
    BY StepLawful, <1>1 DEF Lawful, LawfulEvent, OnL1Step, OnL2Step
  <2>4. p.row => \A r \in Proxy : q.addr[r] # p.addr[r] =>
           \/ AddressOp[r] \in ops
           \/ OnL2Step /\ q.addr[r] = Zero /\ "changed-owner" \in ops
    BY StepLawful, <1>1 DEF Lawful, LawfulEvent, Readdressed
  <2>5. /\ SponsorOps(q) \in SUBSET DiffOps /\ RequestOps(q) \in SUBSET DiffOps
        /\ \A r \in Proxy : AddressOp[r] \in DiffOps
        /\ {"activated", "spawned", "new-dominion", "changed-owner", "breached",
            "reset-keys"} \subseteq DiffOps
    BY DEF SponsorOps, RequestOps, AddressOp, Proxy, DiffOps
  <2> HIDE DEF p, q, ops
  <2>6. \A op \in DiffOps : Logged(n, {op}) <=> op \in ops
    BY <2>1
  <2>7. ~p.row /\ q.row =>
           Logged(n, IF Rank(n) = GALAXY /\ OnL1Step THEN {"activated"} ELSE {"spawned"})
    BY <2>3, <2>5, <2>6
  <2>8. p.row => \A r \in Proxy : q.addr[r] # p.addr[r] =>
           \/ Logged(n, {AddressOp[r]})
           \/ OnL2Step /\ q.addr[r] = Zero /\ Logged(n, {"changed-owner"})
    BY <2>4, <2>5, <2>6
  <2>9. /\ p.row /\ SponsorOf(q) # SponsorOf(p) => Logged(n, SponsorOps(q))
        /\ Request(q) # Request(p) => Logged(n, RequestOps(q))
    BY <2>1, <2>2, <2>5 DEF Explained
  <2>10. /\ p.row => (Logged(n, {"new-dominion"}) <=> q.dominion # p.dominion)
         /\ q.is_active # p.is_active => Logged(n, {"activated"})
         /\ Logged(n, {"breached"}) <=> q.rift # p.rift
         /\ Logged(n, {"reset-keys"}) <=> q.life # p.life
         /\ Logged(n, {"spawned"}) => ~p.row
    BY <2>2, <2>5, <2>6 DEF Explained
  <2>11. p.row /\ q.keys # p.keys =>
            Logged(n, {"reset-keys"}) \/ (Blank(p.keys) /\ Blank(q.keys))
    BY <2>2, <2>10 DEF Numbered
  <2> QED
    BY <2>7, <2>8, <2>9, <2>10, <2>11 DEF ChangeLogged, p, q
<1>2. Counted /\ [Next]_vars =>
         [\A n \in Ships : points'[n] # points[n] \/ Logged(n, DiffOps)
             => ChangeLogged(n)]_vars
  BY <1>1
<1> QED
  BY <1>2, SpecCounted, PTL DEF Spec, ChangesAreLogged
=============================================================================
