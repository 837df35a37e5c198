---------------------------- MODULE AzimuthWrites ----------------------------
(***************************************************************************)
(* What one event of the Azimuth contract and one L2 transaction may write *)
(* to the tables, opcode by opcode: the lemmas behind AzimuthProofs.       *)
(***************************************************************************)
EXTENDS Azimuth, TLAPS

(* A row stays a row when a field of the right type replaces its own.      *)
LEMMA NoPointType == NoPoint \in Point
BY ShipsAssumption, ValuesAssumption DEF NoPoint, Point, Proxy

LEMMA ParentType == ASSUME NEW n \in Ships PROVE Parent(n) \in Ships
BY ShipsAssumption

(* A point with fields of the right type replaced, one at a time.          *)
LEMMA FieldTypes ==
    ASSUME NEW p \in Point
    PROVE  /\ \A b \in BOOLEAN : /\ [p EXCEPT !.row = b] \in Point
                               /\ [p EXCEPT !.is_active = b] \in Point
                               /\ [p EXCEPT !.has_sponsor = b] \in Point
                               /\ [p EXCEPT !.is_escape_requested = b] \in Point
           /\ \A s \in Ships : /\ [p EXCEPT !.sponsor = s] \in Point
                             /\ [p EXCEPT !.escape_requested_to = s] \in Point
           /\ \A i \in Nat : /\ [p EXCEPT !.life = i] \in Point
                           /\ [p EXCEPT !.rift = i] \in Point
           /\ \A k \in KeySets : [p EXCEPT !.keys = k] \in Point
           /\ \A d \in 1..3 : [p EXCEPT !.dominion = d] \in Point
           /\ \A r \in Proxy, a \in Address : [p EXCEPT !.addr[r] = a] \in Point
<1>1. \A b \in BOOLEAN : /\ [p EXCEPT !.row = b] \in Point
                         /\ [p EXCEPT !.is_active = b] \in Point
  BY DEF Point
<1>2. \A b \in BOOLEAN : /\ [p EXCEPT !.has_sponsor = b] \in Point
                         /\ [p EXCEPT !.is_escape_requested = b] \in Point
  BY DEF Point
<1>3. \A s \in Ships : /\ [p EXCEPT !.sponsor = s] \in Point
                       /\ [p EXCEPT !.escape_requested_to = s] \in Point
  BY DEF Point
<1>4. \A i \in Nat : /\ [p EXCEPT !.life = i] \in Point
                     /\ [p EXCEPT !.rift = i] \in Point
  BY DEF Point
<1>5. \A k \in KeySets : [p EXCEPT !.keys = k] \in Point
  BY DEF Point
<1>6. \A d \in 1..3 : [p EXCEPT !.dominion = d] \in Point
  BY DEF Point
<1>7. \A r \in Proxy, a \in Address : [p EXCEPT !.addr[r] = a] \in Point
  BY DEF Point
<1> QED
  BY <1>1, <1>2, <1>3, <1>4, <1>5, <1>6, <1>7

LEMMA RiftLifeType ==
    ASSUME NEW p \in Point
    PROVE  p.rift + 1 \in Nat /\ p.life + 1 \in Nat
BY DEF Point

(* The same, for the combinations the handlers write.                      *)
LEMMA RequestType ==
    ASSUME NEW p \in Point, NEW b \in BOOLEAN, NEW s \in Ships
    PROVE  [p EXCEPT !.is_escape_requested = b, !.escape_requested_to = s] \in Point
<1>1. [p EXCEPT !.is_escape_requested = b] \in Point
  BY FieldTypes
<1> QED
  BY <1>1, FieldTypes

LEMMA SponsorType ==
    ASSUME NEW p \in Point, NEW b \in BOOLEAN, NEW s \in Ships
    PROVE  [p EXCEPT !.has_sponsor = b, !.sponsor = s] \in Point
<1>1. [p EXCEPT !.has_sponsor = b] \in Point
  BY FieldTypes
<1> QED
  BY <1>1, FieldTypes

LEMMA AcceptType ==
    ASSUME NEW p \in Point, NEW s \in Ships
    PROVE  [p EXCEPT !.is_escape_requested = FALSE, !.escape_requested_to = 0,
                     !.has_sponsor = TRUE, !.sponsor = s] \in Point
<1>1. [p EXCEPT !.is_escape_requested = FALSE, !.escape_requested_to = 0] \in Point
  BY RequestType, ShipsAssumption
<1> QED
  BY <1>1, SponsorType

LEMMA UpsertType ==
    ASSUME TypeOK, NEW n \in Ships, NEW q \in Point, NEW op \in DiffOps,
           Upsert(n, q, op)
    PROVE  points' \in [Ships -> Point] /\ diffs' \subseteq Diff /\ panic' \in Panics
<1>1. [q EXCEPT !.row = TRUE] \in Point
  BY DEF Point
<1> QED
  BY <1>1 DEF TypeOK, Upsert, SaveDiffs, Diff

LEMMA SetAddressType ==
    ASSUME TypeOK, NEW n \in Ships, NEW role \in Proxy, NEW a \in Address
    PROVE  SetAddress(n, role, a) \in Point
BY DEF TypeOK, SetAddress, Point

LEMMA BumpType ==
    ASSUME NEW table \in [Ships -> Point], NEW h \in Header
    PROVE  BumpNonce(table, h) \in [Ships -> Point]
<1>1. h.ship \in Ships /\ h.proxy \in Proxy
  BY SendersAssumption DEF Header
<1> DEFINE p == table[h.ship]
<1>2. p \in Point
  BY <1>1
<1>3. [p EXCEPT !.nonce[h.proxy] = @ + 1] \in Point
  BY <1>1, <1>2 DEF Point
<1>4. BumpNonce(table, h)
        = [table EXCEPT ![h.ship] = [p EXCEPT !.nonce[h.proxy] = @ + 1]]
  BY DEF BumpNonce
<1> QED
  BY <1>1, <1>3, <1>4

(* What a handler may do to the tables, as far as types go.                *)
Typed == points' \in [Ships -> Point] /\ diffs' \subseteq Diff /\ panic' \in Panics

LEMMA UnlessOnL2Type ==
    ASSUME TypeOK, NEW n \in Ships, NEW m \in Ships, NEW q \in Point,
           NEW op \in DiffOps, UnlessOnL2(n, m, q, op)
    PROVE  Typed
BY UpsertType DEF UnlessOnL2, Panic, Panics, Skip, TypeOK, Typed

LEMMA EventType ==
    ASSUME TypeOK, AzimuthEvent
    PROVE  Typed /\ chain' \in [Ships -> {"none", "l1", "spawn", "l2"}]
<1> USE DEF TypeOK
<1>1. CASE ChangedDns
  BY <1>1 DEF ChangedDns, Skip, Typed
<1>2. ASSUME NEW n \in Ships, Spawned(n)
      PROVE  Typed /\ chain' \in [Ships -> {"none", "l1", "spawn", "l2"}]
  <2>1. [NoPoint EXCEPT !.has_sponsor = TRUE, !.sponsor = Parent(n)] \in Point
    BY NoPointType, ParentType, SponsorType
  <2> QED
    BY <1>2, <2>1, UpsertType DEF Spawned, Panic, Panics, DiffOps, Typed
<1>3. ASSUME NEW n \in Ships, Activated(n)
      PROVE  Typed /\ chain' \in [Ships -> {"none", "l1", "spawn", "l2"}]
  <2>1. [points[n] EXCEPT !.is_active = TRUE] \in Point
    BY FieldTypes
  <2>2. [points[n] EXCEPT !.is_active = TRUE, !.has_sponsor = TRUE,
                          !.sponsor = n] \in Point
    BY <2>1, SponsorType
  <2> QED
    BY <1>3, <2>1, <2>2, UpsertType DEF Activated, DiffOps, Typed
<1>4. ASSUME NEW n \in Ships, NEW a \in Targets, OwnerChanged(n, a)
      PROVE  Typed /\ chain' \in [Ships -> {"none", "l1", "spawn", "l2"}]
  <2>1. /\ [points[n] EXCEPT !.dominion = 2] \in Point
        /\ SetAddress(n, "owner", a) \in Point
    BY SetAddressType, ValuesAssumption DEF Point, Proxy
  <2> QED
    BY <1>4, <2>1, UnlessOnL2Type DEF OwnerChanged, DiffOps, Typed
<1>5. ASSUME NEW n \in Ships, NEW a \in Targets, ChangedSpawnProxy(n, a)
      PROVE  Typed /\ chain' \in [Ships -> {"none", "l1", "spawn", "l2"}]
  <2>1. /\ [points[n] EXCEPT !.dominion = 3] \in Point
        /\ SetAddress(n, "spawn", a) \in Point
    BY SetAddressType, ValuesAssumption DEF Point, Proxy
  <2> QED
    BY <1>5, <2>1, UpsertType
       DEF ChangedSpawnProxy, Panic, Panics, Skip, DiffOps, Typed
<1>6. ASSUME NEW n \in Ships, NEW a \in Targets,
             \/ ChangedTransferProxy(n, a)
             \/ ChangedManagementProxy(n, a)
             \/ ChangedVotingProxy(n, a)
      PROVE  Typed /\ chain' \in [Ships -> {"none", "l1", "spawn", "l2"}]
  <2>1. \A role \in Proxy : SetAddress(n, role, a) \in Point
    BY SetAddressType, ValuesAssumption
  <2> QED
    BY <1>6, <2>1, UnlessOnL2Type
       DEF ChangedTransferProxy, ChangedManagementProxy, ChangedVotingProxy,
           DiffOps, Proxy
<1>7. ASSUME NEW n \in Ships,
             EscapeCanceled(n) \/ BrokeContinuity(n)
      PROVE  Typed /\ chain' \in [Ships -> {"none", "l1", "spawn", "l2"}]
  <2>1. /\ [points[n] EXCEPT !.is_escape_requested = FALSE,
                             !.escape_requested_to = 0] \in Point
        /\ [points[n] EXCEPT !.rift = @ + 1] \in Point
    BY FieldTypes, RequestType, RiftLifeType, ShipsAssumption
  <2> QED
    BY <1>7, <2>1, UnlessOnL2Type DEF EscapeCanceled, BrokeContinuity, DiffOps
<1>8. ASSUME NEW n \in Ships, NEW s \in Ships,
             EscapeRequested(n, s) \/ EscapeAccepted(n, s) \/ LostSponsor(n, s)
      PROVE  Typed /\ chain' \in [Ships -> {"none", "l1", "spawn", "l2"}]
  <2>1. /\ [points[n] EXCEPT !.is_escape_requested = TRUE,
                             !.escape_requested_to = s] \in Point
        /\ [points[n] EXCEPT !.is_escape_requested = FALSE,
                             !.escape_requested_to = 0,
                             !.has_sponsor = TRUE,
                             !.sponsor = s] \in Point
        /\ [points[n] EXCEPT !.has_sponsor = FALSE] \in Point
    BY FieldTypes, RequestType, AcceptType
  <2> QED
    BY <1>8, <2>1, UnlessOnL2Type
       DEF EscapeRequested, EscapeAccepted, LostSponsor, Panic, Panics, Skip,
           DiffOps, Typed
<1>9. ASSUME NEW n \in Ships, NEW k \in KeySets \ {NoKeys}, ChangedKeys(n, k)
      PROVE  Typed /\ chain' \in [Ships -> {"none", "l1", "spawn", "l2"}]
  <2>1. [points[n] EXCEPT !.keys = k, !.life = @ + 1] \in Point
    BY FieldTypes, RiftLifeType
  <2> QED
    BY <1>9, <2>1, UnlessOnL2Type DEF ChangedKeys, DiffOps
<1> QED
  BY <1>1, <1>2, <1>3, <1>4, <1>5, <1>6, <1>7, <1>8, <1>9 DEF AzimuthEvent

-----------------------------------------------------------------------------
(* L2: every transaction leaves the table alone, or uses up the nonce it   *)
(* was signed over and writes at most one row q of a point n, where q has  *)
(* the properties below.                                                   *)

(* A number without a row has the column defaults.                         *)
Rowless == \A n \in Ships : ~HasRow(n) => points[n] = NoPoint

Coherent(q) == ~q.is_escape_requested => q.escape_requested_to = 0

L2Write(h, n, q) ==
    /\ q \in Point /\ q.row
    /\ q.nonce = points[n].nonce
    /\ Coherent(points[n]) => Coherent(q)
    /\ q.sponsor \in {points[n].sponsor, h.ship, 0}
    /\ IF HasRow(n) THEN q.dominion = points[n].dominion
       ELSE q.dominion = 2 /\ h.ship = Parent(n) /\ SpawnsOnL2(h.ship)

(* The transaction of header h was signed for ship n in one of the roles.  *)
For(h, n, roles) == h.ship = n /\ h.proxy \in roles

(* What is allowed when row q replaces row p of point n: who may write,    *)
(* who must have agreed, what a point that is not on L2 keeps, how life    *)
(* and rift move, and what is logged.                                      *)
Authorised(h, n, p, q) ==
    IF p.row
    THEN /\ \A r \in Proxy : q.addr[r] # p.addr[r] => For(h, n, Writers(r))
         /\ q.keys # p.keys => For(h, n, {"owner", "transfer", "management"})
    ELSE q.row => For(h, Parent(n), {"owner", "spawn"})

Consented(h, n, p, q) ==
    /\ \A s \in SponsorOf(q) \ (SponsorOf(p) \cup {0}) :
          IF p.row
          THEN /\ p.is_escape_requested /\ p.escape_requested_to = s
               /\ For(h, s, {"owner", "management"})
          ELSE s = Parent(n)
    /\ SponsorOf(q) = {} => \A s \in SponsorOf(p) : For(h, s, {"owner", "management"})
    /\ Request(q) # Request(p) /\ q.is_escape_requested =>
          For(h, n, {"owner", "management"}) /\ Rank(q.escape_requested_to) + 1 = Rank(n)
    /\ p.is_escape_requested /\ ~q.is_escape_requested =>
          \/ For(h, n, {"owner", "management"})
          \/ For(h, p.escape_requested_to, {"owner", "management"})

KeptOnL1(p, q) ==
    p.row =>
       /\ q.is_active = p.is_active
       /\ p.dominion = 1 => Own(q) = Own(p)
       /\ p.dominion = 3 => Own([q EXCEPT !.addr["spawn"] = p.addr["spawn"]]) = Own(p)

Numbered(p, q) ==
    p.row =>
       /\ q.life \in {p.life, p.life + 1}
       /\ q.rift \in {p.rift, p.rift + 1}
       /\ q.life = p.life => q.keys = p.keys \/ (Blank(p.keys) /\ Blank(q.keys))

Explained(p, q, ops) ==
    /\ p.row =>
          /\ "new-dominion" \in ops <=> q.dominion # p.dominion
          /\ SponsorOf(q) # SponsorOf(p) => ops \cap SponsorOps(q) # {}
    /\ q.is_active # p.is_active => "activated" \in ops
    /\ Request(q) # Request(p) => ops \cap RequestOps(q) # {}
    /\ "breached" \in ops <=> q.rift # p.rift
    /\ "reset-keys" \in ops <=> q.life # p.life
    /\ "spawned" \in ops => ~p.row

(* An address is new by its own operation, or cleared by a transfer.       *)
Readdressed(p, q, ops) ==
    p.row => \A r \in Proxy : q.addr[r] # p.addr[r] =>
       AddressOp[r] \in ops \/ (q.addr[r] = Zero /\ "changed-owner" \in ops)

Lawful(h, n, p, q, ops) ==
    /\ Authorised(h, n, p, q) /\ Consented(h, n, p, q) /\ KeptOnL1(p, q)
    /\ Numbered(p, q) /\ (p.row /\ q.life # p.life => q.keys # p.keys)
    /\ Explained(p, q, ops) /\ Readdressed(p, q, ops)
    /\ ~p.row /\ q.row => "spawned" \in ops

Carried(h) == /\ h \in Header /\ HasRow(h.ship) /\ VerifySignature(h)
              /\ \/ Ignored(h)
                 \/ \E n \in Ships, q \in Point, ops \in SUBSET DiffOps :
                       /\ L2Write(h, n, q) /\ Lawful(h, n, points[n], q, ops)
                       /\ Applied(h, n, q, ops)

Dropped == /\ UNCHANGED <<points, spent>>
           /\ diffs' = {}
           /\ panic' \in Panics \ {"event"}

LEMMA CoherentLemma ==
    EscapeCoherent <=> \A n \in Ships : Coherent(points[n])
BY DEF EscapeCoherent, Coherent

LEMMA HeaderType ==
    ASSUME NEW h \in Header
    PROVE  h.ship \in Ships /\ h.proxy \in Proxy /\ h.nonce \in Nat
BY SendersAssumption DEF Header

LEMMA OwnButSpawn ==
    ASSUME NEW p \in Point, NEW q \in Point,
           q.row = p.row, q.dominion = p.dominion,
           q.life = p.life, q.rift = p.rift, q.keys = p.keys,
           \A r \in Proxy : r # "spawn" => q.addr[r] = p.addr[r]
    PROVE  Own([q EXCEPT !.addr["spawn"] = p.addr["spawn"]]) = Own(p)
<1> DEFINE b == [q EXCEPT !.addr["spawn"] = p.addr["spawn"]]
<1>1. /\ b.row = q.row /\ b.dominion = q.dominion
      /\ b.life = q.life /\ b.rift = q.rift /\ b.keys = q.keys
      /\ b.addr = [q.addr EXCEPT !["spawn"] = p.addr["spawn"]]
  BY DEF Point
<1>2. q.addr \in [Proxy -> Address] /\ p.addr \in [Proxy -> Address]
  BY DEF Point
<1> HIDE DEF b
<1>3. b.addr = p.addr
  BY <1>1, <1>2
<1>4. Own(b) = Own(p)
  BY <1>1, <1>3 DEF Own
<1> QED
  BY <1>4 DEF b

(* A handler of sponsorship writes nothing else, and the others leave      *)
(* sponsorship alone.                                                      *)
LEMMA SponsorshipOnly ==
    ASSUME NEW h, NEW n, NEW p \in Point, NEW q \in Point, NEW ops, p.row, Own(q) = Own(p),
           q.is_active = p.is_active, Consented(h, n, p, q),
           SponsorOf(q) # SponsorOf(p) => ops \cap SponsorOps(q) # {},
           Request(q) # Request(p) => ops \cap RequestOps(q) # {},
           ops \cap {"breached", "reset-keys", "spawned", "new-dominion"} = {}
    PROVE  Lawful(h, n, p, q, ops)
<1>1. /\ q.row = p.row /\ q.addr = p.addr /\ q.dominion = p.dominion
      /\ q.life = p.life /\ q.rift = p.rift /\ q.keys = p.keys
  BY DEF Own
<1>2. Authorised(h, n, p, q) /\ Numbered(p, q)
  BY <1>1 DEF Authorised, Numbered
<1>3. KeptOnL1(p, q)
  BY <1>1, OwnButSpawn DEF KeptOnL1
<1>4. Explained(p, q, ops) /\ Readdressed(p, q, ops)
  BY <1>1 DEF Explained, Readdressed
<1> QED
  BY <1>1, <1>2, <1>3, <1>4 DEF Lawful

LEMMA SponsorshipKept ==
    ASSUME NEW h, NEW n, NEW p, NEW q,
           q.has_sponsor = p.has_sponsor, q.sponsor = p.sponsor,
           q.is_escape_requested = p.is_escape_requested,
           q.escape_requested_to = p.escape_requested_to
    PROVE  SponsorOf(q) = SponsorOf(p) /\ Request(q) = Request(p) /\ Consented(h, n, p, q)
<1>1. SponsorOf(q) = SponsorOf(p) /\ Request(q) = Request(p)
  BY DEF SponsorOf, Request
<1> QED
  BY <1>1 DEF Consented, SponsorOf

LEMMA EffectShape ==
    ASSUME NEW h \in Header, HasRow(h.ship), VerifySignature(h),
           NEW n \in Ships, NEW q, NEW ops \in SUBSET DiffOps, NEW valid,
           valid \in BOOLEAN, valid => L2Write(h, n, q) /\ Lawful(h, n, points[n], q, ops),
           Effect(valid, h, n, q, ops)
    PROVE  Carried(h)
<1>1. CASE valid
  <2>1. q \in Point
    BY <1>1 DEF L2Write
  <2> QED
    BY <1>1, <2>1 DEF Effect, Carried
<1>2. CASE ~valid
  BY <1>2 DEF Effect, Carried
<1> QED
  BY <1>1, <1>2

LEMMA TargetShape ==
    ASSUME TypeOK, panic = "none",
           NEW h \in Header, HasRow(h.ship), VerifySignature(h),
           NEW t \in Ships, NEW q, NEW op \in DiffOps, NEW valid \in BOOLEAN,
           HasRow(t) => L2Write(h, t, q),
           HasRow(t) /\ valid /\ By(h, {"owner", "management"})
              => Lawful(h, t, points[t], q, {op}),
           OnTarget(h, t, valid, q, op)
    PROVE  Carried(h) \/ Dropped
<1>1. CASE By(h, {"owner", "management"}) /\ ~HasRow(t)
  BY <1>1 DEF OnTarget, PanicL2, Panic, Dropped, Panics
<1>2. CASE ~By(h, {"owner", "management"})
  BY <1>2 DEF OnTarget, Effect, Carried
<1>3. CASE By(h, {"owner", "management"}) /\ HasRow(t)
  <2>1. Effect(valid, h, t, q, {op})
    BY <1>3 DEF OnTarget
  <2> QED
    BY <1>3, <2>1, EffectShape
<1> QED
  BY <1>1, <1>2, <1>3

LEMMA TransferShape ==
    ASSUME TypeOK, NEW h \in Header, NEW a \in Targets, NEW reset \in BOOLEAN,
           TransferPoint(h, a, reset)
    PROVE  Carried(h)
<1> DEFINE n == h.ship
           p == points[n]
           breach == reset /\ p.life # 0
           rekey == reset /\ ~Blank(p.keys)
           addr == [r \in Proxy |-> IF r = "owner" THEN a
                                    ELSE IF r = "transfer" \/ reset THEN Zero
                                    ELSE p.addr[r]]
           rift == IF breach THEN p.rift + 1 ELSE p.rift
           life == IF rekey THEN p.life + 1 ELSE p.life
           keys == IF reset THEN NoKeys ELSE p.keys
           q0 == [p EXCEPT !.addr = addr]
           q == [p EXCEPT !.addr = addr, !.rift = rift, !.life = life, !.keys = keys]
           ops == {"changed-owner"} \cup (IF breach THEN {"breached"} ELSE {})
                                   \cup (IF rekey THEN {"reset-keys"} ELSE {})
<1>1. n \in Ships /\ p \in Point
  BY HeaderType DEF TypeOK
<1>2. q0 \in Point
  <2>1. addr \in [Proxy -> Address]
    BY <1>1, ValuesAssumption DEF Point
  <2> HIDE DEF addr
  <2> QED
    BY <1>1, <2>1 DEF Point
<1>3. rift \in Nat /\ life \in Nat /\ keys \in KeySets
  BY <1>1, ValuesAssumption DEF Point
<1>4. q \in Point
  <2> HIDE DEF addr, rift, life, keys, q0
  <2>1. [q0 EXCEPT !.rift = rift] \in Point
    BY <1>2, <1>3, FieldTypes
  <2>2. [q0 EXCEPT !.rift = rift, !.life = life] \in Point
    BY <1>3, <2>1, FieldTypes
  <2>3. [q0 EXCEPT !.rift = rift, !.life = life, !.keys = keys] \in Point
    BY <1>3, <2>2, FieldTypes
  <2> QED
    BY <2>3 DEF q0
<1>5. /\ q.row = p.row /\ q.nonce = p.nonce /\ q.dominion = p.dominion
      /\ q.has_sponsor = p.has_sponsor /\ q.sponsor = p.sponsor
      /\ q.is_escape_requested = p.is_escape_requested
      /\ q.escape_requested_to = p.escape_requested_to
      /\ q.rift = rift /\ q.life = life /\ q.keys = keys
      /\ q.addr = addr /\ q.is_active = p.is_active
  <2> HIDE DEF addr, rift, life, keys
  <2> QED
    BY <1>1 DEF Point
<1>6. HasRow(n) /\ VerifySignature(h)
      /\ Effect(OnL2(n) /\ By(h, {"owner", "transfer"}), h, n, q, ops)
  BY DEF TransferPoint, Accepted
<1>7. L2Write(h, n, q)
  BY <1>4, <1>5, <1>6 DEF L2Write, Coherent, HasRow
<1>8. ops \in SUBSET DiffOps
  BY DEF DiffOps
<1>9. (OnL2(n) /\ By(h, {"owner", "transfer"})) \in BOOLEAN
  BY DEF OnL2, By
<1>10. OnL2(n) /\ By(h, {"owner", "transfer"}) => Lawful(h, n, p, q, ops)
  <2> SUFFICES ASSUME OnL2(n), By(h, {"owner", "transfer"})
               PROVE  Lawful(h, n, p, q, ops)
    OBVIOUS
  <2> HIDE DEF q, addr
  <2>1. p.row /\ q.row /\ p.dominion = 2
    BY <1>5, <1>6 DEF HasRow, OnL2
  <2>2. Authorised(h, n, p, q) /\ KeptOnL1(p, q)
    BY <1>5, <2>1 DEF Authorised, For, Writers, By, Proxy, KeptOnL1
  <2>3. SponsorOf(q) = SponsorOf(p) /\ Request(q) = Request(p)
    BY <1>5, SponsorshipKept
  <2>4. Consented(h, n, p, q)
    BY <1>5, SponsorshipKept
  <2>5. Numbered(p, q) /\ (q.life # p.life => q.keys # p.keys)
    BY <1>1, <1>5 DEF Numbered, Blank, Point
  <2>6. Explained(p, q, ops)
    BY <1>1, <1>5, <2>1, <2>3 DEF Explained, Point
  <2>7. Readdressed(p, q, ops)
    <3>1. \A r \in Proxy : q.addr[r] # p.addr[r] => r = "owner" \/ q.addr[r] = Zero
      BY <1>5 DEF addr
    <3> QED
      BY <3>1 DEF Readdressed, AddressOp
  <2> QED
    BY <2>1, <2>2, <2>4, <2>5, <2>6, <2>7 DEF Lawful
<1> HIDE DEF q, ops
<1> QED
  BY <1>1, <1>6, <1>7, <1>8, <1>9, <1>10, EffectShape

LEMMA SpawnShape ==
    ASSUME TypeOK, Rowless, NEW h \in Header, NEW t \in Ships, NEW a \in Targets,
           Spawn(h, t, a)
    PROVE  Carried(h)
<1> DEFINE n == h.ship
           owned == By(h, {"owner", "spawn"}) /\ a = points[n].addr[h.proxy]
           owner == IF owned THEN a ELSE points[n].addr["owner"]
           transfer == IF owned THEN Zero ELSE a
           q == [NoPoint EXCEPT !.row = TRUE, !.addr["owner"] = owner,
                                !.addr["transfer"] = transfer,
                                !.has_sponsor = TRUE, !.sponsor = n,
                                !.dominion = 2]
           valid == /\ n = Parent(t) /\ SpawnsOnL2(n)
                    /\ By(h, {"owner", "spawn"}) /\ ~HasRow(t)
<1>1. n \in Ships /\ points[n] \in Point
  BY HeaderType DEF TypeOK
<1>2. owner \in Address /\ transfer \in Address
  BY <1>1, ValuesAssumption DEF Point, Proxy
<1>3. q \in Point
  <2> HIDE DEF owner, transfer
  <2>1. [NoPoint EXCEPT !.row = TRUE, !.addr["owner"] = owner] \in Point
    <3>1. [NoPoint EXCEPT !.row = TRUE] \in Point
      BY NoPointType, FieldTypes
    <3> QED
      BY <1>2, <3>1, FieldTypes DEF Proxy
  <2>2. [NoPoint EXCEPT !.row = TRUE, !.addr["owner"] = owner,
                        !.addr["transfer"] = transfer] \in Point
    BY <1>2, <2>1, FieldTypes DEF Proxy
  <2>3. [NoPoint EXCEPT !.row = TRUE, !.addr["owner"] = owner,
                        !.addr["transfer"] = transfer,
                        !.has_sponsor = TRUE, !.sponsor = n] \in Point
    BY <1>1, <2>2, SponsorType
  <2> DEFINE q1 == [NoPoint EXCEPT !.row = TRUE, !.addr["owner"] = owner,
                                   !.addr["transfer"] = transfer,
                                   !.has_sponsor = TRUE, !.sponsor = n]
  <2>4. q = [q1 EXCEPT !.dominion = 2]
    OBVIOUS
  <2>5. q1 \in Point
    BY <2>3
  <2> HIDE DEF q1, q
  <2>6. [q1 EXCEPT !.dominion = 2] \in Point
    BY <2>5 DEF Point
  <2> QED
    BY <2>4, <2>6
<1>4. /\ q.row /\ q.nonce = NoPoint.nonce /\ q.dominion = 2
      /\ q.has_sponsor = TRUE /\ q.sponsor = n
      /\ q.is_escape_requested = FALSE /\ q.escape_requested_to = 0
      /\ q.rift = NoPoint.rift /\ q.life = NoPoint.life
      /\ q.is_active = FALSE
  <2> HIDE DEF owner, transfer
  <2> QED
    BY DEF NoPoint
<1>5. HasRow(n) /\ VerifySignature(h) /\ Effect(valid, h, t, q, {"spawned"})
  BY DEF Spawn, Accepted
<1>6. valid => L2Write(h, t, q)
  <2> HIDE DEF q
  <2> QED
    BY <1>3, <1>4 DEF L2Write, Coherent, Rowless
<1>7. valid \in BOOLEAN /\ {"spawned"} \in SUBSET DiffOps
  BY DEF By, SpawnsOnL2, DiffOps
<1>8. valid => Lawful(h, t, points[t], q, {"spawned"})
  <2> SUFFICES ASSUME valid PROVE Lawful(h, t, points[t], q, {"spawned"})
    OBVIOUS
  <2> HIDE DEF q
  <2>1. points[t] = NoPoint
    BY DEF Rowless
  <2>2. /\ ~points[t].row /\ ~points[t].has_sponsor
        /\ points[t].is_escape_requested = FALSE
        /\ points[t].escape_requested_to = 0 /\ points[t].is_active = FALSE
        /\ points[t].rift = q.rift /\ points[t].life = q.life
    BY <1>4, <2>1 DEF NoPoint
  <2>3. Authorised(h, t, points[t], q) /\ Request(points[t]) = Request(q)
    BY <1>4, <2>2 DEF Authorised, For, By, Request
  <2>4. Consented(h, t, points[t], q)
    BY <1>4, <2>2, <2>3 DEF Consented, SponsorOf
  <2>5. Explained(points[t], q, {"spawned"})
    BY <1>4, <2>2, <2>3 DEF Explained
  <2> QED
    BY <2>2, <2>3, <2>4, <2>5 DEF Lawful, KeptOnL1, Numbered, Readdressed
<1> HIDE DEF q, valid
<1> QED
  BY <1>1, <1>5, <1>6, <1>7, <1>8, EffectShape

LEMMA ConfigureKeysShape ==
    ASSUME TypeOK, NEW h \in Header, NEW k \in KeySets, NEW breach \in BOOLEAN,
           ConfigureKeys(h, k, breach)
    PROVE  Carried(h)
<1> DEFINE n == h.ship
           p == points[n]
           rekey == p.keys # k
           rift == IF breach THEN p.rift + 1 ELSE p.rift
           life == IF rekey THEN p.life + 1 ELSE p.life
           q == [p EXCEPT !.rift = rift, !.life = life, !.keys = k]
           ops == (IF breach THEN {"breached"} ELSE {})
                     \cup (IF rekey THEN {"reset-keys"} ELSE {})
           valid == OnL2(n) /\ By(h, {"owner", "management"})
<1>1. n \in Ships /\ p \in Point
  BY HeaderType DEF TypeOK
<1>2. rift \in Nat /\ life \in Nat
  BY <1>1 DEF Point
<1>3. q \in Point
  <2> HIDE DEF rift, life
  <2>1. [p EXCEPT !.rift = rift] \in Point
    BY <1>1, <1>2, FieldTypes
  <2>2. [p EXCEPT !.rift = rift, !.life = life] \in Point
    BY <1>2, <2>1, FieldTypes
  <2> QED
    BY <2>2, FieldTypes
<1>4. /\ q.row = p.row /\ q.nonce = p.nonce /\ q.dominion = p.dominion
      /\ q.addr = p.addr
      /\ q.has_sponsor = p.has_sponsor /\ q.sponsor = p.sponsor
      /\ q.is_escape_requested = p.is_escape_requested
      /\ q.escape_requested_to = p.escape_requested_to
      /\ q.rift = rift /\ q.life = life /\ q.keys = k
      /\ q.is_active = p.is_active
  <2> HIDE DEF rift, life
  <2> QED
    BY <1>1 DEF Point
<1>5. HasRow(n) /\ VerifySignature(h) /\ Effect(valid, h, n, q, ops)
  BY DEF ConfigureKeys, Accepted
<1>6. L2Write(h, n, q)
  <2> HIDE DEF q
  <2> QED
    BY <1>3, <1>4, <1>5 DEF L2Write, Coherent, HasRow
<1>7. valid \in BOOLEAN /\ ops \in SUBSET DiffOps
  BY DEF By, OnL2, DiffOps
<1>8. valid => Lawful(h, n, p, q, ops)
  <2> SUFFICES ASSUME valid PROVE Lawful(h, n, p, q, ops)
    OBVIOUS
  <2> HIDE DEF q
  <2>1. p.row /\ q.row /\ p.dominion = 2
    BY <1>4, <1>5 DEF HasRow, OnL2
  <2>2. Authorised(h, n, p, q) /\ KeptOnL1(p, q)
    BY <1>4, <2>1 DEF Authorised, For, By, KeptOnL1
  <2>3. /\ SponsorOf(q) = SponsorOf(p) /\ Request(q) = Request(p)
        /\ Consented(h, n, p, q)
    BY <1>4, SponsorshipKept
  <2>4. Numbered(p, q) /\ (q.life # p.life => q.keys # p.keys)
    BY <1>1, <1>4 DEF Numbered, Point
  <2>5. Explained(p, q, ops)
    BY <1>1, <1>4, <2>1, <2>3 DEF Explained, Point
  <2> QED
    BY <1>4, <2>1, <2>2, <2>3, <2>4, <2>5 DEF Lawful, Readdressed
<1> HIDE DEF q, valid, ops
<1> QED
  BY <1>1, <1>5, <1>6, <1>7, <1>8, EffectShape

(* The three opcodes that set one address of their own source.             *)
LEMMA SetProxyShape ==
    ASSUME TypeOK, NEW h \in Header, NEW a \in Targets,
           \/ SetManagementProxy(h, a)
           \/ SetSpawnProxy(h, a)
           \/ SetTransferProxy(h, a)
    PROVE  Carried(h)
<1> DEFINE n == h.ship
           q(role) == [points[n] EXCEPT !.addr[role] = a]
<1>1. n \in Ships /\ points[n] \in Point
  BY HeaderType DEF TypeOK
<1>2. HasRow(n) /\ VerifySignature(h)
  BY DEF SetManagementProxy, SetSpawnProxy, SetTransferProxy, Accepted
<1>3. ASSUME NEW role \in Proxy
      PROVE  /\ q(role).row = points[n].row /\ q(role).nonce = points[n].nonce
             /\ q(role).addr = [points[n].addr EXCEPT ![role] = a]
             /\ q(role).dominion = points[n].dominion
             /\ q(role).has_sponsor = points[n].has_sponsor
             /\ q(role).sponsor = points[n].sponsor
             /\ q(role).is_escape_requested = points[n].is_escape_requested
             /\ q(role).escape_requested_to = points[n].escape_requested_to
             /\ q(role).life = points[n].life /\ q(role).rift = points[n].rift
             /\ q(role).keys = points[n].keys
             /\ q(role).is_active = points[n].is_active
  BY <1>1 DEF Point
<1>4. ASSUME NEW role \in Proxy
      PROVE  L2Write(h, n, q(role))
  <2>1. q(role) \in Point
    BY <1>1, FieldTypes, ValuesAssumption
  <2> HIDE DEF q
  <2> QED
    BY <1>2, <1>3, <2>1 DEF L2Write, Coherent, HasRow
<1>5. ASSUME NEW role \in Proxy, h.proxy \in Writers(role),
             OnL2(n) \/ (role = "spawn" /\ SpawnsOnL2(n))
      PROVE  Lawful(h, n, points[n], q(role), {AddressOp[role]})
  <2> DEFINE p == points[n]
  <2>1. p.row /\ p.addr \in [Proxy -> Address]
    BY <1>1, <1>2 DEF HasRow, Point
  <2> HIDE DEF q
  <2>2. Authorised(h, n, p, q(role))
    BY <1>3, <1>5, <2>1 DEF Authorised, For
  <2>3. /\ SponsorOf(q(role)) = SponsorOf(p) /\ Request(q(role)) = Request(p)
        /\ Consented(h, n, p, q(role))
    BY <1>3, SponsorshipKept
  <2>4. KeptOnL1(p, q(role))
    <3> DEFINE t == q(role)
    <3>0. t.is_active = p.is_active
      BY <1>3
    <3> HIDE DEF t
    <3>1. CASE OnL2(n)
      <4>1. p.dominion = 2
        BY <3>1 DEF OnL2
      <4>2. KeptOnL1(p, t)
        BY <3>0, <4>1 DEF KeptOnL1
      <4> QED
        BY <4>2 DEF t
    <3>2. CASE role = "spawn" /\ SpawnsOnL2(n)
      <4>1. p.dominion \in {2, 3}
        BY <3>2 DEF SpawnsOnL2
      <4>2. q(role) \in Point /\ p \in Point
        BY <1>1, <1>4 DEF L2Write
      <4>3. \A r \in Proxy : r # "spawn" => q(role).addr[r] = p.addr[r]
        BY <1>3, <2>1, <3>2
      <4>4. Own([t EXCEPT !.addr["spawn"] = p.addr["spawn"]]) = Own(p)
        BY <1>3, <4>2, <4>3, OwnButSpawn DEF t
      <4>5. KeptOnL1(p, t)
        BY <3>0, <4>1, <4>4 DEF KeptOnL1
      <4> QED
        BY <4>5 DEF t
    <3> QED
      BY <1>5, <3>1, <3>2
  <2>5. AddressOp[role] \notin {"breached", "reset-keys", "spawned", "new-dominion"}
    BY DEF AddressOp, Proxy
  <2>6. Explained(p, q(role), {AddressOp[role]})
    BY <1>3, <2>1, <2>3, <2>5 DEF Explained
  <2>7. Readdressed(p, q(role), {AddressOp[role]})
    BY <1>3, <2>1 DEF Readdressed
  <2> QED
    BY <1>3, <2>1, <2>2, <2>3, <2>4, <2>6, <2>7 DEF Lawful, Numbered
<1>6. CASE SetManagementProxy(h, a)
  <2> DEFINE valid == OnL2(n) /\ By(h, {"owner", "management"})
  <2>1. Effect(valid, h, n, q("management"), {"changed-management-proxy"})
    BY <1>6 DEF SetManagementProxy
  <2>2. valid \in BOOLEAN
    BY DEF OnL2, By
  <2>3. valid => h.proxy \in Writers("management") /\ OnL2(n)
    BY DEF By, Writers
  <2> HIDE DEF q, valid
  <2> QED
    BY <1>1, <1>2, <1>4, <1>5, <2>1, <2>2, <2>3, EffectShape
       DEF Proxy, DiffOps, AddressOp
<1>7. CASE SetSpawnProxy(h, a)
  <2> DEFINE valid == /\ SpawnsOnL2(n) /\ By(h, {"owner", "spawn"})
                      /\ Rank(n) # PLANET
  <2>1. Effect(valid, h, n, q("spawn"), {"changed-spawn-proxy"})
    BY <1>7 DEF SetSpawnProxy
  <2>2. valid \in BOOLEAN
    BY DEF SpawnsOnL2, By
  <2>3. valid => h.proxy \in Writers("spawn") /\ SpawnsOnL2(n)
    BY DEF By, Writers
  <2> HIDE DEF q, valid
  <2> QED
    BY <1>1, <1>2, <1>4, <1>5, <2>1, <2>2, <2>3, EffectShape
       DEF Proxy, DiffOps, AddressOp
<1>8. CASE SetTransferProxy(h, a)
  <2> DEFINE valid == OnL2(n) /\ By(h, {"owner", "transfer"})
  <2>1. Effect(valid, h, n, q("transfer"), {"changed-transfer-proxy"})
    BY <1>8 DEF SetTransferProxy
  <2>2. valid \in BOOLEAN
    BY DEF OnL2, By
  <2>3. valid => h.proxy \in Writers("transfer") /\ OnL2(n)
    BY DEF By, Writers
  <2> HIDE DEF q, valid
  <2> QED
    BY <1>1, <1>2, <1>4, <1>5, <2>1, <2>2, <2>3, EffectShape
       DEF Proxy, DiffOps, AddressOp
<1> QED
  BY <1>6, <1>7, <1>8

LEMMA EscapeShape ==
    ASSUME TypeOK, NEW h \in Header, NEW t \in Ships, Escape(h, t)
    PROVE  Carried(h)
<1> DEFINE n == h.ship
           q == [points[n] EXCEPT !.is_escape_requested = TRUE,
                                  !.escape_requested_to = t]
           valid == By(h, {"owner", "management"}) /\ Rank(t) + 1 = Rank(n)
<1>1. n \in Ships /\ points[n] \in Point
  BY HeaderType DEF TypeOK
<1>2. q \in Point
  BY <1>1, RequestType
<1>3. /\ q.nonce = points[n].nonce
      /\ q.sponsor = points[n].sponsor
      /\ q.is_escape_requested = TRUE /\ q.escape_requested_to = t
      /\ Own(q) = Own(points[n]) /\ q.is_active = points[n].is_active
      /\ q.has_sponsor = points[n].has_sponsor
  BY <1>1 DEF Point, Own
<1>4. /\ HasRow(n) /\ VerifySignature(h)
      /\ Effect(valid, h, n, q, {"escape-requested"})
  BY DEF Escape, Accepted
<1>5. valid => L2Write(h, n, q)
  <2>1. q.row = points[n].row /\ q.dominion = points[n].dominion
    BY <1>1 DEF Point
  <2> HIDE DEF q
  <2> QED
    BY <1>2, <1>3, <2>1, <1>4 DEF L2Write, Coherent, HasRow
<1>6. valid \in BOOLEAN /\ {"escape-requested"} \in SUBSET DiffOps
  BY DEF By, DiffOps
<1>7. valid => Lawful(h, n, points[n], q, {"escape-requested"})
  <2> SUFFICES ASSUME valid PROVE Lawful(h, n, points[n], q, {"escape-requested"})
    OBVIOUS
  <2> HIDE DEF q
  <2>1. SponsorOf(q) = SponsorOf(points[n])
    BY <1>3 DEF SponsorOf
  <2>2. Consented(h, n, points[n], q)
    BY <1>3, <2>1 DEF Consented, SponsorOf, For, By
  <2> QED
    BY <1>1, <1>2, <1>3, <1>4, <2>1, <2>2, SponsorshipOnly DEF HasRow, RequestOps
<1> HIDE DEF q, valid
<1> QED
  BY <1>1, <1>4, <1>5, <1>6, <1>7, EffectShape

LEMMA CancelEscapeShape ==
    ASSUME TypeOK, NEW h \in Header, CancelEscape(h)
    PROVE  Carried(h)
<1> DEFINE n == h.ship
           q == [points[n] EXCEPT !.is_escape_requested = FALSE,
                                  !.escape_requested_to = 0]
           valid == By(h, {"owner", "management"})
<1>1. n \in Ships /\ points[n] \in Point
  BY HeaderType DEF TypeOK
<1>2. q \in Point
  BY <1>1, RequestType, ShipsAssumption
<1>3. /\ q.nonce = points[n].nonce
      /\ q.sponsor = points[n].sponsor
      /\ q.is_escape_requested = FALSE /\ q.escape_requested_to = 0
      /\ Own(q) = Own(points[n]) /\ q.is_active = points[n].is_active
      /\ q.has_sponsor = points[n].has_sponsor
  BY <1>1 DEF Point, Own
<1>4. /\ HasRow(n) /\ VerifySignature(h)
      /\ Effect(valid, h, n, q, {"escape-canceled"})
  BY DEF CancelEscape, Accepted
<1>5. L2Write(h, n, q)
  <2>1. q.row = points[n].row /\ q.dominion = points[n].dominion
    BY <1>1 DEF Point
  <2> HIDE DEF q
  <2> QED
    BY <1>2, <1>3, <2>1, <1>4 DEF L2Write, Coherent, HasRow
<1>6. valid \in BOOLEAN /\ {"escape-canceled"} \in SUBSET DiffOps
  BY DEF By, DiffOps
<1>7. valid => Lawful(h, n, points[n], q, {"escape-canceled"})
  <2> SUFFICES ASSUME valid PROVE Lawful(h, n, points[n], q, {"escape-canceled"})
    OBVIOUS
  <2> HIDE DEF q
  <2>1. SponsorOf(q) = SponsorOf(points[n])
    BY <1>3 DEF SponsorOf
  <2>2. Consented(h, n, points[n], q)
    BY <1>3, <2>1 DEF Consented, SponsorOf, For, By
  <2> QED
    BY <1>1, <1>2, <1>3, <1>4, <2>1, <2>2, SponsorshipOnly DEF HasRow, RequestOps
<1> HIDE DEF q, valid
<1> QED
  BY <1>1, <1>4, <1>5, <1>6, <1>7, EffectShape

LEMMA AdoptShape ==
    ASSUME TypeOK, NEW h \in Header, NEW t \in Ships, Adopt(h, t),
           Coherent(points[t])
    PROVE  Carried(h) \/ Dropped
<1> DEFINE q == [points[t] EXCEPT !.is_escape_requested = FALSE,
                                  !.escape_requested_to = 0,
                                  !.has_sponsor = TRUE,
                                  !.sponsor = h.ship]
           valid == points[t].escape_requested_to = h.ship
<1>1. h.ship \in Ships /\ points[t] \in Point
  BY HeaderType DEF TypeOK
<1>2. q \in Point
  BY <1>1, AcceptType
<1>3. /\ q.nonce = points[t].nonce
      /\ q.sponsor = h.ship
      /\ q.is_escape_requested = FALSE /\ q.escape_requested_to = 0
      /\ Own(q) = Own(points[t]) /\ q.is_active = points[t].is_active
      /\ q.has_sponsor = TRUE
  BY <1>1 DEF Point, Own
<1>4. /\ panic = "none" /\ HasRow(h.ship) /\ VerifySignature(h)
      /\ OnTarget(h, t, valid, q, "escape-accepted")
  BY DEF Adopt, Accepted
<1>5. HasRow(t) => L2Write(h, t, q)
  <2>1. q.row = points[t].row /\ q.dominion = points[t].dominion
    BY <1>1 DEF Point
  <2> HIDE DEF q
  <2> QED
    BY <1>2, <1>3, <2>1 DEF L2Write, Coherent, HasRow
<1>6. valid \in BOOLEAN /\ "escape-accepted" \in DiffOps
  BY DEF DiffOps
<1>7. ASSUME HasRow(t), valid, By(h, {"owner", "management"})
      PROVE  Lawful(h, t, points[t], q, {"escape-accepted"})
  <2> USE <1>7
  <2> HIDE DEF q
  <2>1. SponsorOf(q) = {h.ship} /\ points[t].escape_requested_to = h.ship
    BY <1>3 DEF SponsorOf
  <2>2. h.ship # 0 => points[t].is_escape_requested
    BY <2>1 DEF Coherent
  <2>3. For(h, h.ship, {"owner", "management"})
    BY DEF For, By
  <2>4. Consented(h, t, points[t], q)
    BY <1>3, <2>1, <2>2, <2>3 DEF Consented, HasRow
  <2> QED
    BY <1>1, <1>2, <1>3, <2>1, <2>4, SponsorshipOnly DEF HasRow, RequestOps, SponsorOps
<1> HIDE DEF q, valid
<1> QED
  BY <1>4, <1>5, <1>6, <1>7, TargetShape

LEMMA RejectShape ==
    ASSUME TypeOK, NEW h \in Header, NEW t \in Ships, Reject(h, t)
    PROVE  Carried(h) \/ Dropped
<1> DEFINE q == [points[t] EXCEPT !.is_escape_requested = FALSE,
                                  !.escape_requested_to = 0]
           valid == points[t].escape_requested_to = h.ship
<1>1. points[t] \in Point
  BY DEF TypeOK
<1>2. q \in Point
  BY <1>1, RequestType, ShipsAssumption
<1>3. /\ q.nonce = points[t].nonce
      /\ q.sponsor = points[t].sponsor
      /\ q.is_escape_requested = FALSE /\ q.escape_requested_to = 0
      /\ Own(q) = Own(points[t]) /\ q.is_active = points[t].is_active
      /\ q.has_sponsor = points[t].has_sponsor
  BY <1>1 DEF Point, Own
<1>4. /\ panic = "none" /\ HasRow(h.ship) /\ VerifySignature(h)
      /\ OnTarget(h, t, valid, q, "escape-rejected")
  BY DEF Reject, Accepted
<1>5. HasRow(t) => L2Write(h, t, q)
  <2>1. q.row = points[t].row /\ q.dominion = points[t].dominion
    BY <1>1 DEF Point
  <2> HIDE DEF q
  <2> QED
    BY <1>2, <1>3, <2>1 DEF L2Write, Coherent, HasRow
<1>6. valid \in BOOLEAN /\ "escape-rejected" \in DiffOps
  BY DEF DiffOps
<1>7. ASSUME HasRow(t), valid, By(h, {"owner", "management"})
      PROVE  Lawful(h, t, points[t], q, {"escape-rejected"})
  <2> USE <1>7
  <2> HIDE DEF q
  <2>1. SponsorOf(q) = SponsorOf(points[t]) /\ Consented(h, t, points[t], q)
    BY <1>3 DEF Consented, SponsorOf, For, By
  <2> QED
    BY <1>1, <1>2, <1>3, <2>1, SponsorshipOnly DEF HasRow, RequestOps
<1> HIDE DEF q, valid
<1> QED
  BY <1>4, <1>5, <1>6, <1>7, TargetShape

LEMMA DetachShape ==
    ASSUME TypeOK, NEW h \in Header, NEW t \in Ships, Detach(h, t)
    PROVE  Carried(h) \/ Dropped
<1> DEFINE q == [points[t] EXCEPT !.has_sponsor = FALSE, !.sponsor = 0]
           valid == points[t].sponsor = h.ship
<1>1. points[t] \in Point
  BY DEF TypeOK
<1>2. q \in Point
  BY <1>1, SponsorType, ShipsAssumption
<1>3. /\ q.nonce = points[t].nonce
      /\ q.sponsor = 0
      /\ q.is_escape_requested = points[t].is_escape_requested
      /\ q.escape_requested_to = points[t].escape_requested_to
      /\ Own(q) = Own(points[t]) /\ q.is_active = points[t].is_active
      /\ q.has_sponsor = FALSE
  BY <1>1 DEF Point, Own
<1>4. /\ panic = "none" /\ HasRow(h.ship) /\ VerifySignature(h)
      /\ OnTarget(h, t, valid, q, "lost-sponsor")
  BY DEF Detach, Accepted
<1>5. HasRow(t) => L2Write(h, t, q)
  <2>1. q.row = points[t].row /\ q.dominion = points[t].dominion
    BY <1>1 DEF Point
  <2> HIDE DEF q
  <2> QED
    BY <1>2, <1>3, <2>1 DEF L2Write, Coherent, HasRow
<1>6. valid \in BOOLEAN /\ "lost-sponsor" \in DiffOps
  BY DEF DiffOps
<1>7. ASSUME HasRow(t), valid, By(h, {"owner", "management"})
      PROVE  Lawful(h, t, points[t], q, {"lost-sponsor"})
  <2> USE <1>7
  <2> HIDE DEF q
  <2>1. SponsorOf(q) = {} /\ Request(q) = Request(points[t])
    BY <1>3 DEF SponsorOf, Request
  <2>2. Consented(h, t, points[t], q)
    BY <1>3, <2>1 DEF Consented, SponsorOf, For, By
  <2> QED
    BY <1>1, <1>2, <1>3, <2>1, <2>2, SponsorshipOnly DEF HasRow, SponsorOps
<1> HIDE DEF q, valid
<1> QED
  BY <1>4, <1>5, <1>6, <1>7, TargetShape

(* All of them together.                                                   *)
LEMMA TransactionShape ==
    ASSUME TypeOK, Rowless, EscapeCoherent, NaiveTransaction
    PROVE  Dropped \/ \E h \in Header : Carried(h)
<1>1. PICK h \in Header :
         \/ BadSignature(h) \/ MalformedSignature(h)
         \/ UnknownSource(h) \/ UnknownOpcode(h)
         \/ CancelEscape(h)
         \/ \E a \in Targets :
               \/ SetManagementProxy(h, a)
               \/ SetSpawnProxy(h, a)
               \/ SetTransferProxy(h, a)
               \/ \E reset \in BOOLEAN : TransferPoint(h, a, reset)
               \/ \E t \in Ships : Spawn(h, t, a)
         \/ \E k \in KeySets \ {NoKeys}, breach \in BOOLEAN :
               ConfigureKeys(h, k, breach)
         \/ \E t \in Ships : Escape(h, t) \/ Adopt(h, t) \/ Reject(h, t) \/ Detach(h, t)
  BY DEF NaiveTransaction
<1>2. CASE \/ BadSignature(h) \/ MalformedSignature(h)
           \/ UnknownSource(h) \/ UnknownOpcode(h)
  BY <1>2 DEF BadSignature, MalformedSignature, UnknownSource, UnknownOpcode,
              Accepted, PanicL2, Panic, Dropped, Panics
<1>3. CASE CancelEscape(h)
  BY <1>3, CancelEscapeShape
<1>4. ASSUME NEW a \in Targets,
             SetManagementProxy(h, a) \/ SetSpawnProxy(h, a) \/ SetTransferProxy(h, a)
      PROVE  Carried(h)
  BY <1>4, SetProxyShape
<1>5. ASSUME NEW a \in Targets, NEW reset \in BOOLEAN, TransferPoint(h, a, reset)
      PROVE  Carried(h)
  BY <1>5, TransferShape
<1>6. ASSUME NEW a \in Targets, NEW t \in Ships, Spawn(h, t, a)
      PROVE  Carried(h)
  BY <1>6, SpawnShape
<1>7. ASSUME NEW k \in KeySets \ {NoKeys}, NEW breach \in BOOLEAN,
             ConfigureKeys(h, k, breach)
      PROVE  Carried(h)
  BY <1>7, ConfigureKeysShape
<1>8. ASSUME NEW t \in Ships, Escape(h, t) \/ Adopt(h, t) \/ Reject(h, t) \/ Detach(h, t)
      PROVE  Carried(h) \/ Dropped
  BY <1>8, EscapeShape, AdoptShape, RejectShape, DetachShape, CoherentLemma
<1> QED
  BY <1>1, <1>2, <1>3, <1>4, <1>5, <1>6, <1>7, <1>8

-----------------------------------------------------------------------------
(* L1: every event leaves the table alone or writes one row, with the      *)
(* nonces it had, and logs one operation.                                  *)

(* A point the contract knows has a row.                                   *)
Known == \A n \in Ships : chain[n] # "none" => HasRow(n)

(* What an event may do to the request of a point on L2.                   *)
RequestEnds(q, op) == /\ op = "escape-accepted"
                      /\ q.has_sponsor /\ points[q.sponsor].dominion # 2

(* What is allowed when an event replaces row p of point n by row q.       *)
LawfulEvent(n, p, q, op) ==
    /\ p.row =>
          /\ p.dominion = 2 =>
                /\ Own(q) = Own(p)
                /\ Request(q) # Request(p) => RequestEnds(q, op)
          /\ SponsorOf(q) # SponsorOf(p) =>
                \A s \in IF SponsorOf(q) = {} THEN SponsorOf(p) ELSE SponsorOf(q) :
                   points[s].dominion # 2 \/ s = n
          /\ \A r \in Proxy : q.addr[r] # p.addr[r] => op = AddressOp[r]
    /\ Numbered(p, q) /\ Explained(p, q, {op})
    /\ ~p.row => op = IF Rank(n) = GALAXY THEN "activated" ELSE "spawned"

L1Write(n, q) == /\ q \in Point /\ q.row
                 /\ q.nonce = points[n].nonce
                 /\ Coherent(points[n]) => Coherent(q)

Written == \/ UNCHANGED points /\ diffs' = {}
           \/ \E n \in Ships, q \in Point, op \in DiffOps :
                 /\ L1Write(n, q) /\ LawfulEvent(n, points[n], q, op)
                 /\ points' = [points EXCEPT ![n] = q] /\ SaveDiffs(n, {op})

(* What is left to show of q before the row flag is set.                   *)
Keeps(n, q) == /\ q \in Point
               /\ q.nonce = points[n].nonce
               /\ Coherent(points[n]) => Coherent(q)

LEMMA UpsertShape ==
    ASSUME TypeOK, NEW n \in Ships, NEW q, NEW op \in DiffOps, Keeps(n, q),
           LawfulEvent(n, points[n], q, op), Upsert(n, q, op)
    PROVE  Written
<1> DEFINE r == [q EXCEPT !.row = TRUE]
<1>1. r \in Point
  BY FieldTypes DEF Keeps
<1>2. /\ r.row /\ r.nonce = q.nonce /\ r.addr = q.addr
      /\ r.dominion = q.dominion /\ r.life = q.life /\ r.rift = q.rift
      /\ r.keys = q.keys
      /\ r.has_sponsor = q.has_sponsor /\ r.sponsor = q.sponsor
      /\ r.is_escape_requested = q.is_escape_requested
      /\ r.escape_requested_to = q.escape_requested_to
      /\ r.is_active = q.is_active
  BY DEF Keeps, Point
<1>3. points' = [points EXCEPT ![n] = r] /\ SaveDiffs(n, {op})
  BY DEF Upsert
<1>4. r.row = TRUE /\ points[n].row \in BOOLEAN
  BY <1>1, <1>2 DEF TypeOK, Point
<1> HIDE DEF r
<1>5. LawfulEvent(n, points[n], r, op)
  <2>1. /\ SponsorOf(r) = SponsorOf(q) /\ Request(r) = Request(q)
        /\ SponsorOps(r) = SponsorOps(q) /\ RequestOps(r) = RequestOps(q)
        /\ RequestEnds(q, op) => RequestEnds(r, op)
    BY <1>2 DEF SponsorOf, Request, SponsorOps, RequestOps, RequestEnds
  <2>2. points[n].row /\ points[n].dominion = 2 => Own(r) = Own(points[n])
    BY <1>2, <1>4 DEF LawfulEvent, Own
  <2>3. Numbered(points[n], r) /\ Explained(points[n], r, {op})
    BY <1>2, <2>1 DEF LawfulEvent, Numbered, Explained
  <2> QED
    BY <1>2, <2>1, <2>2, <2>3 DEF LawfulEvent
<1> QED
  BY <1>1, <1>2, <1>3, <1>5 DEF Keeps, L1Write, Coherent, Written

LEMMA UnlessOnL2Shape ==
    ASSUME TypeOK, NEW n \in Ships, NEW m \in Ships, NEW q, NEW op \in DiffOps,
           Keeps(n, q),
           HasRow(m) /\ points[m].dominion # 2 => LawfulEvent(n, points[n], q, op),
           UnlessOnL2(n, m, q, op)
    PROVE  Written
BY UpsertShape DEF UnlessOnL2, Panic, Skip, Written

LEMMA OwnLawful ==
    ASSUME NEW n, NEW p, NEW q, NEW op, Own(q) = Own(p),
           SponsorOf(q) # SponsorOf(p) =>
              /\ op \in SponsorOps(q)
              /\ \A s \in IF SponsorOf(q) = {} THEN SponsorOf(p) ELSE SponsorOf(q) :
                    points[s].dominion # 2 \/ s = n,
           Request(q) # Request(p) =>
              op \in RequestOps(q) /\ (p.row /\ p.dominion = 2 => RequestEnds(q, op)),
           q.is_active # p.is_active => op = "activated",
           op \notin {"breached", "reset-keys", "spawned", "new-dominion"},
           ~p.row => Rank(n) = GALAXY /\ op = "activated"
    PROVE  LawfulEvent(n, p, q, op)
<1>1. /\ q.row = p.row /\ q.addr = p.addr /\ q.dominion = p.dominion
      /\ q.life = p.life /\ q.rift = p.rift /\ q.keys = p.keys
  BY DEF Own
<1>2. Numbered(p, q) /\ Explained(p, q, {op})
  BY <1>1 DEF Numbered, Explained
<1> QED
  BY <1>1, <1>2 DEF LawfulEvent

LEMMA EventShape ==
    ASSUME TypeOK, Rowless, Known, AzimuthEvent
    PROVE  Written
<1> USE DEF TypeOK
<1>1. CASE ChangedDns
  BY <1>1 DEF ChangedDns, Skip, Written
<1>2. ASSUME NEW n \in Ships, Spawned(n)
      PROVE  Written
  <2> DEFINE q == [NoPoint EXCEPT !.has_sponsor = TRUE, !.sponsor = Parent(n)]
  <2>1. q \in Point
    BY NoPointType, ParentType, SponsorType
  <2>2. /\ q.nonce = NoPoint.nonce
        /\ q.is_escape_requested = FALSE /\ q.escape_requested_to = 0
        /\ q.life = NoPoint.life /\ q.rift = NoPoint.rift
        /\ Request(q) = Request(NoPoint) /\ q.is_active = NoPoint.is_active
    BY DEF NoPoint, Request
  <2>3. Panic("event") \/ (~HasRow(n) /\ Upsert(n, q, "spawned"))
    BY <1>2 DEF Spawned
  <2>4. Rank(n) # GALAXY
    BY <1>2 DEF Spawned, Rank, GALAXY, STAR, PLANET
  <2> HIDE DEF q
  <2>5. ASSUME ~HasRow(n)
        PROVE  Keeps(n, q) /\ LawfulEvent(n, points[n], q, "spawned")
    <3>1. points[n] = NoPoint
      BY <2>5 DEF Rowless
    <3>2. points[n].is_escape_requested = FALSE /\ ~points[n].row
      BY <2>5, <3>1 DEF NoPoint, HasRow
    <3>3. Explained(points[n], q, {"spawned"})
      BY <2>2, <3>1, <3>2 DEF Explained
    <3> QED
      BY <2>1, <2>2, <2>4, <3>1, <3>2, <3>3 DEF Keeps, Coherent, LawfulEvent, Numbered
  <2> QED
    BY <2>3, <2>5, UpsertShape DEF Panic, Written, DiffOps
<1>3. ASSUME NEW n \in Ships, Activated(n)
      PROVE  Written
  <2> DEFINE q == [points[n] EXCEPT !.is_active = TRUE]
             g == [points[n] EXCEPT !.is_active = TRUE, !.has_sponsor = TRUE,
                                    !.sponsor = n]
  <2>1. q \in Point /\ g \in Point
    <3>1. q \in Point
      BY FieldTypes
    <3> QED
      BY <3>1, SponsorType
  <2>2. /\ q.nonce = points[n].nonce /\ g.nonce = points[n].nonce
        /\ q.is_escape_requested = points[n].is_escape_requested
        /\ q.escape_requested_to = points[n].escape_requested_to
        /\ g.is_escape_requested = points[n].is_escape_requested
        /\ g.escape_requested_to = points[n].escape_requested_to
        /\ q.has_sponsor = points[n].has_sponsor /\ q.sponsor = points[n].sponsor
        /\ g.has_sponsor = TRUE /\ g.sponsor = n
        /\ Own(q) = Own(points[n]) /\ Own(g) = Own(points[n])
        /\ Request(q) = Request(points[n]) /\ Request(g) = Request(points[n])
    BY DEF Point, Own, Request
  <2>3. Upsert(n, g, "activated") \/ Upsert(n, q, "activated")
    BY <1>3 DEF Activated
  <2>4. Rank(n) # GALAXY => HasRow(n)
    BY <1>3 DEF Activated, Known
  <2> HIDE DEF q, g
  <2>5. Keeps(n, q) /\ Keeps(n, g)
    BY <2>1, <2>2 DEF Keeps, Coherent
  <2>6. LawfulEvent(n, points[n], q, "activated") /\ LawfulEvent(n, points[n], g, "activated")
    <3>1. SponsorOf(q) = SponsorOf(points[n]) /\ SponsorOf(g) = {n}
      BY <2>2 DEF SponsorOf
    <3> QED
      BY <2>2, <2>4, <3>1, OwnLawful DEF HasRow, SponsorOps
  <2> QED
    BY <2>3, <2>5, <2>6, UpsertShape DEF DiffOps
<1>4. ASSUME NEW n \in Ships, NEW a \in Address, NEW role \in Proxy
      PROVE  /\ Keeps(n, SetAddress(n, role, a))
             /\ HasRow(n) /\ points[n].dominion # 2 =>
                   LawfulEvent(n, points[n], SetAddress(n, role, a), AddressOp[role])
  <2> DEFINE q == [points[n] EXCEPT !.addr[role] = a]
  <2>1. q \in Point
    BY FieldTypes
  <2>2. /\ q.nonce = points[n].nonce
        /\ q.is_escape_requested = points[n].is_escape_requested
        /\ q.escape_requested_to = points[n].escape_requested_to
        /\ q.has_sponsor = points[n].has_sponsor /\ q.sponsor = points[n].sponsor
        /\ q.life = points[n].life /\ q.rift = points[n].rift
        /\ q.keys = points[n].keys
        /\ q.dominion = points[n].dominion
        /\ q.addr = [points[n].addr EXCEPT ![role] = a]
        /\ points[n].addr \in [Proxy -> Address]
        /\ Request(q) = Request(points[n]) /\ q.is_active = points[n].is_active
    BY DEF Point, Request
  <2>3. SetAddress(n, role, a) = q
    BY DEF SetAddress
  <2> HIDE DEF q
  <2>4. HasRow(n) /\ points[n].dominion # 2 =>
           LawfulEvent(n, points[n], q, AddressOp[role])
    <3>1. SponsorOf(q) = SponsorOf(points[n])
      BY <2>2 DEF SponsorOf
    <3>2. AddressOp[role] \notin {"breached", "reset-keys", "spawned", "new-dominion"}
      BY DEF AddressOp, Proxy
    <3>3. Explained(points[n], q, {AddressOp[role]})
      BY <2>2, <3>1, <3>2 DEF Explained
    <3>4. \A r \in Proxy : q.addr[r] # points[n].addr[r] => r = role
      BY <2>2
    <3> QED
      BY <2>2, <3>1, <3>3, <3>4 DEF LawfulEvent, Numbered, HasRow
  <2> QED
    BY <2>1, <2>2, <2>3, <2>4 DEF Keeps, Coherent
<1>5. ASSUME NEW n \in Ships, NEW d \in {2, 3}
      PROVE  /\ Keeps(n, [points[n] EXCEPT !.dominion = d])
             /\ HasRow(n) /\ points[n].dominion \notin {2, d} =>
                   LawfulEvent(n, points[n], [points[n] EXCEPT !.dominion = d],
                               "new-dominion")
  <2> DEFINE q == [points[n] EXCEPT !.dominion = d]
  <2>1. q \in Point
    BY DEF Point
  <2>2. /\ q.nonce = points[n].nonce
        /\ q.is_escape_requested = points[n].is_escape_requested
        /\ q.escape_requested_to = points[n].escape_requested_to
        /\ q.has_sponsor = points[n].has_sponsor /\ q.sponsor = points[n].sponsor
        /\ q.life = points[n].life /\ q.rift = points[n].rift
        /\ q.keys = points[n].keys
        /\ q.addr = points[n].addr /\ q.dominion = d
        /\ Request(q) = Request(points[n]) /\ q.is_active = points[n].is_active
    BY DEF Point, Request
  <2> HIDE DEF q
  <2>3. Keeps(n, q)
    BY <2>1, <2>2 DEF Keeps, Coherent
  <2>4. HasRow(n) /\ points[n].dominion \notin {2, d} =>
           LawfulEvent(n, points[n], q, "new-dominion")
    <3>1. SponsorOf(q) = SponsorOf(points[n])
      BY <2>2 DEF SponsorOf
    <3>2. points[n].dominion # d => Explained(points[n], q, {"new-dominion"})
      BY <2>2, <3>1 DEF Explained
    <3> QED
      BY <2>2, <3>1, <3>2 DEF LawfulEvent, Numbered, HasRow
  <2> QED
    BY <2>3, <2>4 DEF q
<1>6. ASSUME NEW n \in Ships, NEW a \in Targets,
             \/ OwnerChanged(n, a)
             \/ ChangedTransferProxy(n, a)
             \/ ChangedManagementProxy(n, a)
             \/ ChangedVotingProxy(n, a)
      PROVE  Written
  <2>1. a \in Address
    BY ValuesAssumption
  <2>2. CASE OwnerChanged(n, a)
    <3> DEFINE moved == [points[n] EXCEPT !.dominion = 2]
    <3>1. /\ Keeps(n, moved)
          /\ HasRow(n) /\ points[n].dominion # 2 =>
                LawfulEvent(n, points[n], moved, "new-dominion")
      BY <1>5
    <3>2. /\ Keeps(n, SetAddress(n, "owner", a))
          /\ HasRow(n) /\ points[n].dominion # 2 =>
                LawfulEvent(n, points[n], SetAddress(n, "owner", a), "changed-owner")
      BY <1>4, <2>1 DEF Proxy, AddressOp
    <3>3. \/ UnlessOnL2(n, n, moved, "new-dominion")
          \/ UnlessOnL2(n, n, SetAddress(n, "owner", a), "changed-owner")
      BY <2>2 DEF OwnerChanged
    <3> HIDE DEF moved
    <3> QED
      BY <3>1, <3>2, <3>3, UnlessOnL2Shape DEF DiffOps
  <2>3. CASE ChangedTransferProxy(n, a)
    BY <1>4, <2>1, <2>3, UnlessOnL2Shape
       DEF ChangedTransferProxy, Proxy, DiffOps, AddressOp
  <2>4. CASE ChangedManagementProxy(n, a)
    BY <1>4, <2>1, <2>4, UnlessOnL2Shape
       DEF ChangedManagementProxy, Proxy, DiffOps, AddressOp
  <2>5. CASE ChangedVotingProxy(n, a)
    BY <1>4, <2>1, <2>5, UnlessOnL2Shape
       DEF ChangedVotingProxy, Proxy, DiffOps, AddressOp
  <2> QED
    BY <1>6, <2>2, <2>3, <2>4, <2>5
<1>7. ASSUME NEW n \in Ships, NEW a \in Targets, ChangedSpawnProxy(n, a)
      PROVE  Written
  <2>1. a \in Address
    BY ValuesAssumption
  <2>2. CASE ~HasRow(n) \/ points[n].dominion # 1
    BY <1>7, <2>2 DEF ChangedSpawnProxy, Panic, Skip, Written
  <2>3. CASE HasRow(n) /\ points[n].dominion = 1
    <3> DEFINE moved == [points[n] EXCEPT !.dominion = 3]
    <3>1. Keeps(n, moved) /\ LawfulEvent(n, points[n], moved, "new-dominion")
      <4>1. HasRow(n) /\ points[n].dominion \notin {2, 3}
        BY <2>3
      <4> QED
        BY <1>5, <4>1
    <3>2. /\ Keeps(n, SetAddress(n, "spawn", a))
          /\ LawfulEvent(n, points[n], SetAddress(n, "spawn", a), "changed-spawn-proxy")
      BY <1>4, <2>1, <2>3 DEF Proxy, AddressOp
    <3>3. \/ Upsert(n, moved, "new-dominion")
          \/ Upsert(n, SetAddress(n, "spawn", a), "changed-spawn-proxy")
      BY <1>7, <2>3 DEF ChangedSpawnProxy
    <3> HIDE DEF moved
    <3> QED
      BY <3>1, <3>2, <3>3, UpsertShape DEF DiffOps
  <2> QED
    BY <2>2, <2>3
<1>8. ASSUME NEW n \in Ships, EscapeCanceled(n)
      PROVE  Written
  <2> DEFINE q == [points[n] EXCEPT !.is_escape_requested = FALSE,
                                    !.escape_requested_to = 0]
  <2>1. q \in Point
    BY RequestType, ShipsAssumption
  <2>2. /\ q.nonce = points[n].nonce
        /\ q.is_escape_requested = FALSE /\ q.escape_requested_to = 0
        /\ Own(q) = Own(points[n]) /\ q.is_active = points[n].is_active
        /\ q.has_sponsor = points[n].has_sponsor /\ q.sponsor = points[n].sponsor
    BY DEF Point, Own
  <2>3. UnlessOnL2(n, n, q, "escape-canceled")
    BY <1>8 DEF EscapeCanceled
  <2> HIDE DEF q
  <2>4. Keeps(n, q)
    BY <2>1, <2>2, <2>3 DEF Keeps, Coherent
  <2>5. HasRow(n) /\ points[n].dominion # 2 =>
           LawfulEvent(n, points[n], q, "escape-canceled")
    <3>1. SponsorOf(q) = SponsorOf(points[n])
      BY <2>2 DEF SponsorOf
    <3> QED
      BY <2>2, <3>1, OwnLawful DEF HasRow, RequestOps
  <2> QED
    BY <2>3, <2>4, <2>5, UnlessOnL2Shape DEF DiffOps
<1>9. ASSUME NEW n \in Ships, BrokeContinuity(n)
      PROVE  Written
  <2> DEFINE q == [points[n] EXCEPT !.rift = @ + 1]
  <2>1. q \in Point
    BY FieldTypes, RiftLifeType
  <2>2. /\ q.nonce = points[n].nonce
        /\ q.is_escape_requested = points[n].is_escape_requested
        /\ q.escape_requested_to = points[n].escape_requested_to
        /\ q.dominion = points[n].dominion /\ q.addr = points[n].addr
        /\ q.has_sponsor = points[n].has_sponsor /\ q.sponsor = points[n].sponsor
        /\ q.life = points[n].life /\ q.keys = points[n].keys
        /\ q.rift = points[n].rift + 1
        /\ Request(q) = Request(points[n]) /\ q.is_active = points[n].is_active
    BY DEF Point, Request
  <2>3. UnlessOnL2(n, n, q, "breached")
    BY <1>9 DEF BrokeContinuity
  <2> HIDE DEF q
  <2>4. Keeps(n, q)
    BY <2>1, <2>2 DEF Keeps, Coherent
  <2>5. HasRow(n) /\ points[n].dominion # 2 => LawfulEvent(n, points[n], q, "breached")
    <3>1. SponsorOf(q) = SponsorOf(points[n])
      BY <2>2 DEF SponsorOf
    <3>2. points[n].life \in Nat /\ points[n].rift \in Nat
      BY DEF Point
    <3>3. Explained(points[n], q, {"breached"})
      BY <2>2, <3>1, <3>2 DEF Explained
    <3> QED
      BY <2>2, <3>1, <3>2, <3>3 DEF LawfulEvent, Numbered, HasRow
  <2> QED
    BY <2>3, <2>4, <2>5, UnlessOnL2Shape DEF DiffOps
<1>10. ASSUME NEW n \in Ships, NEW s \in Ships, EscapeRequested(n, s)
       PROVE  Written
  <2> DEFINE q == [points[n] EXCEPT !.is_escape_requested = TRUE,
                                    !.escape_requested_to = s]
  <2>1. q \in Point
    BY RequestType
  <2>2. /\ q.nonce = points[n].nonce
        /\ q.is_escape_requested = TRUE /\ q.escape_requested_to = s
        /\ Own(q) = Own(points[n]) /\ q.is_active = points[n].is_active
        /\ q.has_sponsor = points[n].has_sponsor /\ q.sponsor = points[n].sponsor
    BY DEF Point, Own
  <2>3. UnlessOnL2(n, n, q, "escape-requested")
    BY <1>10 DEF EscapeRequested
  <2> HIDE DEF q
  <2>4. Keeps(n, q)
    BY <2>1, <2>2, <2>3 DEF Keeps, Coherent
  <2>5. HasRow(n) /\ points[n].dominion # 2 =>
           LawfulEvent(n, points[n], q, "escape-requested")
    <3>1. SponsorOf(q) = SponsorOf(points[n])
      BY <2>2 DEF SponsorOf
    <3> QED
      BY <2>2, <3>1, OwnLawful DEF HasRow, RequestOps
  <2> QED
    BY <2>3, <2>4, <2>5, UnlessOnL2Shape DEF DiffOps
<1>11. ASSUME NEW n \in Ships, NEW s \in Ships, EscapeAccepted(n, s)
       PROVE  Written
  <2> DEFINE q == [points[n] EXCEPT !.is_escape_requested = FALSE,
                                    !.escape_requested_to = 0,
                                    !.has_sponsor = TRUE,
                                    !.sponsor = s]
  <2>1. q \in Point
    BY AcceptType
  <2>2. /\ q.nonce = points[n].nonce
        /\ q.is_escape_requested = FALSE /\ q.escape_requested_to = 0
        /\ Own(q) = Own(points[n]) /\ q.is_active = points[n].is_active
        /\ q.has_sponsor = TRUE /\ q.sponsor = s
    BY DEF Point, Own
  <2>3. UnlessOnL2(n, s, q, "escape-accepted")
    BY <1>11 DEF EscapeAccepted
  <2> HIDE DEF q
  <2>4. Keeps(n, q)
    BY <2>1, <2>2, <2>3 DEF Keeps, Coherent
  <2>5. HasRow(s) /\ points[s].dominion # 2 =>
           LawfulEvent(n, points[n], q, "escape-accepted")
    <3>1. SponsorOf(q) = {s}
      BY <2>2 DEF SponsorOf
    <3>2. HasRow(n)
      BY <1>11 DEF EscapeAccepted, Emitted, Known
    <3>3. "escape-accepted" \in SponsorOps(q) /\ "escape-accepted" \in RequestOps(q)
      BY <2>2, <3>1 DEF SponsorOps, RequestOps
    <3>4. points[s].dominion # 2 => RequestEnds(q, "escape-accepted")
      BY <2>2 DEF RequestEnds
    <3> QED
      BY <2>2, <3>1, <3>2, <3>3, <3>4, OwnLawful DEF HasRow
  <2> QED
    BY <2>3, <2>4, <2>5, UnlessOnL2Shape DEF DiffOps
<1>12. ASSUME NEW n \in Ships, NEW s \in Ships, LostSponsor(n, s)
       PROVE  Written
  <2> DEFINE q == [points[n] EXCEPT !.has_sponsor = FALSE]
  <2>1. q \in Point
    BY FieldTypes
  <2>2. /\ q.nonce = points[n].nonce
        /\ q.is_escape_requested = points[n].is_escape_requested
        /\ q.escape_requested_to = points[n].escape_requested_to
        /\ Own(q) = Own(points[n]) /\ Request(q) = Request(points[n])
        /\ q.has_sponsor = FALSE /\ q.is_active = points[n].is_active
    BY DEF Point, Own, Request
  <2>3. CASE Panic("event") \/ Skip
    BY <2>3 DEF Panic, Skip, Written
  <2>4. CASE HasRow(n) /\ points[n].sponsor = s /\ UnlessOnL2(n, s, q, "lost-sponsor")
    <3> HIDE DEF q
    <3>1. Keeps(n, q)
      BY <2>1, <2>2 DEF Keeps, Coherent
    <3>2. SponsorOf(q) = {} /\ SponsorOf(points[n]) \subseteq {s}
      BY <2>2, <2>4 DEF SponsorOf
    <3>3. points[s].dominion # 2 => LawfulEvent(n, points[n], q, "lost-sponsor")
      BY <2>2, <2>4, <3>2, OwnLawful DEF HasRow, SponsorOps
    <3> QED
      BY <2>4, <3>1, <3>3, UnlessOnL2Shape DEF DiffOps
  <2> QED
    BY <1>12, <2>3, <2>4 DEF LostSponsor
<1>13. ASSUME NEW n \in Ships, NEW k \in KeySets \ {NoKeys}, ChangedKeys(n, k)
       PROVE  Written
  <2> DEFINE q == [points[n] EXCEPT !.keys = k, !.life = @ + 1]
  <2>1. q \in Point
    BY FieldTypes, RiftLifeType
  <2>2. /\ q.nonce = points[n].nonce
        /\ q.is_escape_requested = points[n].is_escape_requested
        /\ q.escape_requested_to = points[n].escape_requested_to
        /\ q.dominion = points[n].dominion /\ q.addr = points[n].addr
        /\ q.has_sponsor = points[n].has_sponsor /\ q.sponsor = points[n].sponsor
        /\ q.rift = points[n].rift /\ q.life = points[n].life + 1
        /\ Request(q) = Request(points[n]) /\ q.is_active = points[n].is_active
    BY DEF Point, Request
  <2>3. UnlessOnL2(n, n, q, "reset-keys")
    BY <1>13 DEF ChangedKeys
  <2> HIDE DEF q
  <2>4. Keeps(n, q)
    BY <2>1, <2>2 DEF Keeps, Coherent
  <2>5. HasRow(n) /\ points[n].dominion # 2 => LawfulEvent(n, points[n], q, "reset-keys")
    <3>1. SponsorOf(q) = SponsorOf(points[n])
      BY <2>2 DEF SponsorOf
    <3>2. points[n].life \in Nat /\ points[n].rift \in Nat
      BY DEF Point
    <3>3. Explained(points[n], q, {"reset-keys"})
      BY <2>2, <3>1, <3>2 DEF Explained
    <3> QED
      BY <2>2, <3>1, <3>2, <3>3 DEF LawfulEvent, Numbered, HasRow
  <2> QED
    BY <2>3, <2>4, <2>5, UnlessOnL2Shape DEF DiffOps
<1> QED
  BY <1>1, <1>2, <1>3, <1>6, <1>7, <1>8, <1>9, <1>10, <1>11, <1>12, <1>13
     DEF AzimuthEvent

=============================================================================
