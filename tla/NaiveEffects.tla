----------------------------- MODULE NaiveEffects -----------------------------
(***************************************************************************)
(* ApplyBatchEvent's loop body and NaiveTx.Effects: what one L2            *)
(* transaction of a Naive batch does to the points table, one action per   *)
(* opcode.                                                                 *)
(*                                                                         *)
(* A transaction is a header h (source ship, source proxy, and the address *)
(* and nonce it was signed with) and the operands of its opcode.  The      *)
(* signature covers the nonce, so the same bytes verify only while the     *)
(* nonce in the table is the one signed.                                   *)
(***************************************************************************)
EXTENDS AzimuthPoints

CONSTANTS
    Opcodes,      \* the opcodes the instance plays
    Senders,      \* the <<ship, proxy>> pairs that send transactions
    Signers,      \* the addresses somebody holds the key of
    MaxNonce      \* bound on the signed nonces

(* History: the <<ship, proxy, signed nonce>> of every transaction that    *)
(* passed verification and was carried out, applied or ignored.            *)
VARIABLE spent

ASSUME SendersAssumption ==
    /\ Senders \subseteq Ships \X Proxy
    /\ Signers \subseteq Address \ {Zero}
    /\ MaxNonce \in Nat

Header == {[ship |-> x[1], proxy |-> x[2], signer |-> a, nonce |-> k] :
              x \in Senders, a \in Signers, k \in 0..MaxNonce}

(* Mutant: the nonce not part of what is signed. *)
VerifySigner(h) == h.signer = points[h.ship].addr[h.proxy]

(* Recovering the signer from the message with the table's nonce gives the *)
(* proxy's address.  For another nonce it gives some other address.        *)
VerifySignature(h) == /\ h.signer = points[h.ship].addr[h.proxy]
                      /\ h.nonce = points[h.ship].nonce[h.proxy]

Accepted(opcode, h) == /\ panic = "none"
                       /\ opcode \in Opcodes
                       /\ HasRow(h.ship)
                       /\ VerifySignature(h)

(* The first query of every transaction: the nonce goes up, whatever the   *)
(* rest does.                                                              *)
BumpNonce(table, h) == [table EXCEPT ![h.ship].nonce[h.proxy] = @ + 1]

Spend(h) == spent' = spent \cup {<<h.ship, h.proxy, h.nonce>>}

(* Mutant: an ignored transaction does not use up its nonce. *)
IgnoredUnspent(h) == /\ diffs' = {}
                     /\ Spend(h)
                     /\ UNCHANGED <<points, panic>>

(* "Ignoring tx": only the nonce changes.                                  *)
Ignored(h) == /\ points' = BumpNonce(points, h)
              /\ diffs' = {}
              /\ Spend(h)
              /\ UNCHANGED panic

(* The row of n becomes q, and ops are logged about n.                     *)
Applied(h, n, q, ops) ==
    /\ points' = BumpNonce([points EXCEPT ![n] = q], h)
    /\ SaveDiffs(n, ops)
    /\ Spend(h)
    /\ UNCHANGED panic

Effect(valid, h, n, q, ops) ==
    IF valid THEN Applied(h, n, q, ops) ELSE Ignored(h)

PanicL2(why) == Panic(why) /\ UNCHANGED spent

(* Mutants: a check of the dominion or of the proxy left out. *)
SpawnsAnywhere(n) == TRUE
ByAnyone(h, roles) == TRUE

OnL2(n)         == points[n].dominion = 2
SpawnsOnL2(n)   == points[n].dominion \in {2, 3}
By(h, roles)    == h.proxy \in roles
Blank(k)        == k \in {NoKeys, ZeroKeys}

-----------------------------------------------------------------------------

(* A signature by another address or over another nonce: the batch goes on *)
(* with the next transaction.                                              *)
BadSignature(h) ==
    /\ panic = "none"
    /\ HasRow(h.ship)
    /\ ~VerifySignature(h)
    /\ diffs' = {}
    /\ UNCHANGED <<points, panic, spent>>

(* No public key can be recovered from the signature bytes.                *)
MalformedSignature(h) ==
    /\ panic = "none"
    /\ "malformed-signature" \in Opcodes
    /\ HasRow(h.ship)
    /\ PanicL2("signature")

(* The source ship has no row.                                             *)
UnknownSource(h) ==
    /\ panic = "none"
    /\ "unknown-source" \in Opcodes
    /\ ~HasRow(h.ship)
    /\ PanicL2("source")

UnknownOpcode(h) ==
    /\ Accepted("unknown-opcode", h)
    /\ PanicL2("opcode")

(* The new owner; with reset, a breach if the point was ever keyed, fresh  *)
(* keys, and every proxy cleared.                                          *)
TransferPoint(h, a, reset) ==
    LET n      == h.ship
        p      == points[n]
        breach == reset /\ p.life # 0
        rekey  == reset /\ ~Blank(p.keys)
    IN
    /\ Accepted("transfer-point", h)
    /\ Effect(OnL2(n) /\ By(h, {"owner", "transfer"}), h, n,
              [p EXCEPT !.addr = [r \in Proxy |->
                                    IF r = "owner" THEN a
                                    ELSE IF r = "transfer" \/ reset THEN Zero
                                    ELSE p.addr[r]],
                        !.rift = IF breach THEN @ + 1 ELSE @,
                        !.life = IF rekey THEN @ + 1 ELSE @,
                        !.keys = IF reset THEN NoKeys ELSE @],
              {"changed-owner"}
                 \cup (IF breach THEN {"breached"} ELSE {})
                 \cup (IF rekey THEN {"reset-keys"} ELSE {}))

(* Mutant: an existing point spawned again. *)
Respawn(h, t, a) ==
    /\ Accepted("spawn", h)
    /\ Effect(/\ h.ship = Parent(t)
              /\ SpawnsOnL2(h.ship)
              /\ By(h, {"owner", "spawn"}),
              h, t,
              [NoPoint EXCEPT !.row = TRUE,
                              !.addr["owner"] = a,
                              !.has_sponsor = TRUE,
                              !.sponsor = h.ship,
                              !.dominion = 2],
              {"spawned"})

(* Mutant: the dominion of the new point left at its default. *)
SpawnOnL1(h, t, a) ==
    /\ Accepted("spawn", h)
    /\ Effect(/\ h.ship = Parent(t)
              /\ SpawnsOnL2(h.ship)
              /\ By(h, {"owner", "spawn"})
              /\ ~HasRow(t),
              h, t,
              [NoPoint EXCEPT !.row = TRUE,
                              !.addr["owner"] = a,
                              !.has_sponsor = TRUE,
                              !.sponsor = h.ship],
              {"spawned"})

(* The new point belongs to the target address at once if the signing role *)
(* holds that address; otherwise to the parent's owner, the target address *)
(* being its transfer proxy.  is_active keeps its default.                 *)
Spawn(h, t, a) ==
    LET n     == h.ship
        owned == By(h, {"owner", "spawn"}) /\ a = points[n].addr[h.proxy]
    IN
    /\ Accepted("spawn", h)
    /\ Effect(/\ n = Parent(t)
              /\ SpawnsOnL2(n)
              /\ By(h, {"owner", "spawn"})
              /\ ~HasRow(t),
              h, t,
              [NoPoint EXCEPT !.row = TRUE,
                              !.addr["owner"] =
                                  IF owned THEN a ELSE points[n].addr["owner"],
                              !.addr["transfer"] = IF owned THEN Zero ELSE a,
                              !.has_sponsor = TRUE,
                              !.sponsor = n,
                              !.dominion = 2],
              {"spawned"})

(* Mutant: a new life for keys that did not change. *)
ConfigureSameKeys(h, k, breach) ==
    /\ Accepted("configure-keys", h)
    /\ Effect(OnL2(h.ship) /\ By(h, {"owner", "management"}), h, h.ship,
              [points[h.ship] EXCEPT !.rift = IF breach THEN @ + 1 ELSE @,
                                     !.life = @ + 1,
                                     !.keys = k],
              (IF breach THEN {"breached"} ELSE {}) \cup {"reset-keys"})

ConfigureKeys(h, k, breach) ==
    LET p     == points[h.ship]
        rekey == p.keys # k
    IN
    /\ Accepted("configure-keys", h)
    /\ Effect(OnL2(h.ship) /\ By(h, {"owner", "management"}), h, h.ship,
              [p EXCEPT !.rift = IF breach THEN @ + 1 ELSE @,
                        !.life = IF rekey THEN @ + 1 ELSE @,
                        !.keys = k],
              (IF breach THEN {"breached"} ELSE {})
                 \cup (IF rekey THEN {"reset-keys"} ELSE {}))

(* Sponsorship: no opcode below looks at a dominion.                       *)
Escape(h, t) ==
    /\ Accepted("escape", h)
    /\ Effect(/\ By(h, {"owner", "management"})
              /\ Rank(t) + 1 = Rank(h.ship),
              h, h.ship,
              [points[h.ship] EXCEPT !.is_escape_requested = TRUE,
                                     !.escape_requested_to = t],
              {"escape-requested"})

(* Mutant: the number of the sponsor asked left in the row. *)
CancelEscapeFlagOnly(h) ==
    /\ Accepted("cancel-escape", h)
    /\ Effect(By(h, {"owner", "management"}), h, h.ship,
              [points[h.ship] EXCEPT !.is_escape_requested = FALSE],
              {"escape-canceled"})

CancelEscape(h) ==
    /\ Accepted("cancel-escape", h)
    /\ Effect(By(h, {"owner", "management"}), h, h.ship,
              [points[h.ship] EXCEPT !.is_escape_requested = FALSE,
                                     !.escape_requested_to = 0],
              {"escape-canceled"})

(* The target row is read after the role check and before the next one;    *)
(* get_point panics when there is none.                                    *)
OnTarget(h, t, valid, q, op) ==
    IF By(h, {"owner", "management"}) /\ ~HasRow(t)
    THEN PanicL2("target")
    ELSE Effect(By(h, {"owner", "management"}) /\ valid, h, t, q, {op})

(* Mutants: the request not looked at, and the wrong operation logged. *)
AdoptAnyone(h, t) ==
    /\ Accepted("adopt", h)
    /\ OnTarget(h, t, TRUE,
                [points[t] EXCEPT !.is_escape_requested = FALSE,
                                  !.escape_requested_to = 0,
                                  !.has_sponsor = TRUE,
                                  !.sponsor = h.ship], "escape-accepted")

AdoptLoggedAsRejection(h, t) ==
    /\ Accepted("adopt", h)
    /\ OnTarget(h, t, points[t].escape_requested_to = h.ship,
                [points[t] EXCEPT !.is_escape_requested = FALSE,
                                  !.escape_requested_to = 0,
                                  !.has_sponsor = TRUE,
                                  !.sponsor = h.ship], "escape-rejected")

Adopt(h, t) ==
    /\ Accepted("adopt", h)
    /\ OnTarget(h, t, points[t].escape_requested_to = h.ship,
                [points[t] EXCEPT !.is_escape_requested = FALSE,
                                  !.escape_requested_to = 0,
                                  !.has_sponsor = TRUE,
                                  !.sponsor = h.ship], "escape-accepted")

Reject(h, t) ==
    /\ Accepted("reject", h)
    /\ OnTarget(h, t, points[t].escape_requested_to = h.ship,
                [points[t] EXCEPT !.is_escape_requested = FALSE,
                                  !.escape_requested_to = 0],
                "escape-rejected")

(* Mutant: the operation after it in the list logged. *)
DetachLoggedAsBreach(h, t) ==
    /\ Accepted("detach", h)
    /\ OnTarget(h, t, points[t].sponsor = h.ship,
                [points[t] EXCEPT !.has_sponsor = FALSE, !.sponsor = 0],
                "breached")

Detach(h, t) ==
    /\ Accepted("detach", h)
    /\ OnTarget(h, t, points[t].sponsor = h.ship,
                [points[t] EXCEPT !.has_sponsor = FALSE, !.sponsor = 0],
                "lost-sponsor")

(* Mutant: the operation of another proxy logged. *)
SetManagementProxyMislogged(h, a) ==
    /\ Accepted("set-management-proxy", h)
    /\ Effect(OnL2(h.ship) /\ By(h, {"owner", "management"}), h, h.ship,
              [points[h.ship] EXCEPT !.addr["management"] = a],
              {"changed-spawn-proxy"})

SetManagementProxy(h, a) ==
    /\ Accepted("set-management-proxy", h)
    /\ Effect(OnL2(h.ship) /\ By(h, {"owner", "management"}), h, h.ship,
              [points[h.ship] EXCEPT !.addr["management"] = a],
              {"changed-management-proxy"})

SetSpawnProxy(h, a) ==
    /\ Accepted("set-spawn-proxy", h)
    /\ Effect(/\ SpawnsOnL2(h.ship)
              /\ By(h, {"owner", "spawn"})
              /\ Rank(h.ship) # PLANET,
              h, h.ship,
              [points[h.ship] EXCEPT !.addr["spawn"] = a],
              {"changed-spawn-proxy"})

SetTransferProxy(h, a) ==
    /\ Accepted("set-transfer-proxy", h)
    /\ Effect(OnL2(h.ship) /\ By(h, {"owner", "transfer"}), h, h.ship,
              [points[h.ship] EXCEPT !.addr["transfer"] = a],
              {"changed-transfer-proxy"})

NaiveTransaction ==
    \E h \in Header :
       \/ BadSignature(h)
       \/ MalformedSignature(h)
       \/ UnknownSource(h)
       \/ UnknownOpcode(h)
       \/ CancelEscape(h)
       \/ \E a \in Targets :
             \/ SetManagementProxy(h, a)
             \/ SetSpawnProxy(h, a)
             \/ SetTransferProxy(h, a)
             \/ \E reset \in BOOLEAN : TransferPoint(h, a, reset)
             \/ \E t \in Ships : Spawn(h, t, a)
       \/ \E k \in KeySets \ {NoKeys}, breach \in BOOLEAN :
             ConfigureKeys(h, k, breach)
       \/ \E t \in Ships : \/ Escape(h, t)
                           \/ Adopt(h, t)
                           \/ Reject(h, t)
                           \/ Detach(h, t)
=============================================================================
