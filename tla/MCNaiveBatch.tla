----------------------------- MODULE MCNaiveBatch -----------------------------
(***************************************************************************)
(* Instances of NaiveBatch for TLC: a signature and an address are two     *)
(* bytes long, a ship and a key one.  Opcode 0 is transfer-point, 1 spawn, *)
(* 2 configure-keys, 3 escape, 8 set-management-proxy, and 11 is none.     *)
(***************************************************************************)
EXTENDS NaiveBatch

Choice   == {0, 8}
Opcodes  == {0, 1, 2, 3, 8, 11}

Pieces(widths) ==
    {args \in UNION {[1..Len(widths) -> UNION {[1..w -> Choice] : w \in 1..2}]} :
        \A n \in DOMAIN widths : Len(args[n]) = widths[n]}

Signed(signatures, proxies) ==
    UNION {[signature : signatures, proxy : proxies, ship : [1..ShipBytes -> Choice],
            opcode : {op}, flag : IF HasFlag(op) THEN BOOLEAN ELSE {FALSE},
            args : Pieces(Takes(op))] : op \in Opcodes}

(* One transaction, or two of which the first read is one of a few.  No    *)
(* signature is all zeros.                                                 *)
Some == {tx \in Signed({<<0, 8>>}, {0}) :
            tx.opcode \in {0, 3, 11} /\ tx.args \in {<<>>, <<<<0>>>>, <<<<0, 0>>>>}}

Submissions ==
    LET Last1 == Signed({<<0, 8>>, <<8, 0>>}, {0, 3})
    IN {<<tx>> : tx \in Last1} \cup {<<first, last>> : first \in Some, last \in Last1}

(* Up to seven bytes; 130 is configure-keys without a breach.              *)
Noise    == UNION {[1..n -> {0, 8, 130}] : n \in 0..7}
=============================================================================
