------------------------------ MODULE NaiveBatch ------------------------------
(***************************************************************************)
(* The batch parser: ParseNaiveBatch reads the transactions of a batch     *)
(* from its last byte to its first.  Whoever submits a batch writes it as  *)
(* one number, whose leading zero bytes may be missing; the parser has to  *)
(* read it as if they were there.                                          *)
(*                                                                         *)
(* A field is the sequence of its bytes.  How many bytes the signature,    *)
(* an address, a ship and a key take are parameters; the other fields take *)
(* one byte each, and the suite as many as a ship.                         *)
(*                                                                         *)
(* Sources: pkg/db/naive_parser.go.                                        *)
(***************************************************************************)
EXTENDS Integers, SequencesExt

CONSTANTS
    SignatureBytes,   \* 65
    ShipBytes,        \* 4
    AddressBytes,     \* 20
    KeyBytes,         \* 32
    Sendings,         \* the sequences of transactions submitted as a batch
    Garbage           \* other bytes submitted as a batch

VARIABLES
    sent,             \* what was submitted, empty for garbage
    cut,              \* how many leading zero bytes are missing
    batch,            \* the bytes that are left
    i,                \* how many of them are still to be read
    ret               \* the transactions that were read

vars == <<sent, cut, batch, i, ret>>

Byte == 0..255

ASSUME WidthAssumption ==
    {SignatureBytes, ShipBytes, AddressBytes, KeyBytes} \subseteq Nat \ {0}

(* Mutant: the arguments of spawn the other way round. *)
ArgumentsInOrder(opcode) ==
    CASE opcode \in {0, 8, 9, 10} -> <<AddressBytes>>
      [] opcode = 1               -> <<AddressBytes, ShipBytes>>
      [] opcode = 2               -> <<KeyBytes, KeyBytes, ShipBytes>>
      [] opcode \in 3..7          -> <<ShipBytes>>
      [] OTHER                    -> <<>>

(* The widths of what an opcode takes, last bytes first.                   *)
Arguments(opcode) ==
    CASE opcode \in {0, 8, 9, 10} -> <<AddressBytes>>
      [] opcode = 1               -> <<ShipBytes, AddressBytes>>
      [] opcode = 2               -> <<KeyBytes, KeyBytes, ShipBytes>>
      [] opcode \in 3..7          -> <<ShipBytes>>
      [] OTHER                    -> <<>>

HasFlag(opcode) == opcode \in {0, 2}

-----------------------------------------------------------------------------
(* The transactions, the bytes that are signed, and those submitted.       *)

(* What the submitter writes for each opcode, last bytes first.            *)
Takes(op) == CASE op \in {0, 8, 9, 10} -> <<AddressBytes>>
               [] op = 1               -> <<ShipBytes, AddressBytes>>
               [] op = 2               -> <<KeyBytes, KeyBytes, ShipBytes>>
               [] op \in 3..7          -> <<ShipBytes>>
               [] OTHER                -> <<>>

(* No signature is all zeros: none is valid with r or s zero.              *)
Tx == {tx \in [signature : [1..SignatureBytes -> Byte], proxy : Byte,
               ship : [1..ShipBytes -> Byte], opcode : 0..127, flag : BOOLEAN,
               args : Seq(Seq(Byte))] :
         /\ Len(tx.args) = Len(Takes(tx.opcode))
         /\ \A n \in DOMAIN tx.args : Len(tx.args[n]) = Takes(tx.opcode)[n]
         /\ tx.flag => HasFlag(tx.opcode)
         /\ \E k \in 1..SignatureBytes : tx.signature[k] # 0}

ASSUME SendingsAssumption == Sendings \subseteq Seq(Tx) /\ Garbage \subseteq Seq(Byte)

Raw(tx) ==
    LET op == tx.opcode + IF HasFlag(tx.opcode) /\ ~tx.flag THEN 128 ELSE 0
    IN FlattenSeq(Reverse(tx.args)) \o <<op>> \o tx.ship \o <<tx.proxy>>

Submitted(txs) ==
    FlattenSeq([n \in DOMAIN txs |-> Raw(txs[n]) \o txs[n].signature])

(* The transaction that is read first comes last.                          *)
Encoded(txs) == Submitted(Reverse(txs))

AllZero(bytes) == \A k \in DOMAIN bytes : bytes[k] = 0

-----------------------------------------------------------------------------

(* Mutant: only the bytes that are there. *)
GetBatchUnpadded(from, to) ==
    SubSeq(batch, Max({0, from}) + 1, Max({0, to}))

(* get_batch: bytes before the first are zeros.                            *)
GetBatch(from, to) ==
    [k \in 1..(to - from) |-> IF from + k < 1 THEN 0 ELSE batch[from + k]]

(* Mutant: one byte too low. *)
ByteBelow(at) == batch[Max({1, at})]

(* batch[max(0, at)]: a byte before the first is the first.                *)
ByteAt(at) == batch[Max({0, at}) + 1]

(* Each argument ends where the one before it starts.                      *)
ReadArguments(opcode, end) ==
    LET width == Arguments(opcode)
        start[n \in 0..Len(width)] ==
            IF n = 0 THEN end ELSE start[n - 1] - width[n]
    IN [n \in DOMAIN width |-> GetBatch(start[n], start[n - 1])]

Init == /\ \/ /\ sent \in Sendings
              /\ cut \in 0..Len(Encoded(sent))
              /\ AllZero(SubSeq(Encoded(sent), 1, cut))
              /\ batch = SubSeq(Encoded(sent), cut + 1, Len(Encoded(sent)))
           \/ sent = <<>> /\ cut = 0 /\ batch \in Garbage
        /\ i = Len(batch)
        /\ ret = <<>>

(* Mutant: only the transaction cut short dropped. *)
DropLast == /\ i \in 1..(SignatureBytes - 1)
            /\ ret' = ret
            /\ i' = i - SignatureBytes
            /\ UNCHANGED <<sent, cut, batch>>

(* A signature that does not fit: the whole batch is dropped.              *)
NotValid == /\ i > 0
            /\ i - SignatureBytes < 0
            /\ ret' = <<>>
            /\ i' = i - SignatureBytes
            /\ UNCHANGED <<sent, cut, batch>>

(* One round of the loop.                                                  *)
ParseTx ==
    LET mark   == i - SignatureBytes
        op_at  == mark - 1 - ShipBytes - 1
        opcode == ByteAt(op_at) % 128
        args   == ReadArguments(opcode, op_at)
    IN /\ i > 0
       /\ mark >= 0
       /\ i' = op_at - Len(FlattenSeq(args))
       /\ ret' = Append(ret, [signature |-> GetBatch(mark, i),
                              proxy     |-> ByteAt(mark - 1),
                              ship      |-> GetBatch(mark - 1 - ShipBytes, mark - 1),
                              opcode    |-> opcode,
                              flag      |-> HasFlag(opcode) /\ ByteAt(op_at) < 128,
                              args      |-> args,
                              raw       |-> GetBatch(i', mark)])
       /\ UNCHANGED <<sent, cut, batch>>

Next == NotValid \/ ParseTx

Spec == Init /\ [][Next]_vars

-----------------------------------------------------------------------------

TypeOK == /\ cut \in 0..Len(Encoded(sent))
          /\ batch \in Seq(Byte)
          /\ i \in Int /\ i <= Len(batch)
          /\ \A n \in DOMAIN ret :
                /\ {ret[n].proxy, ret[n].opcode} \subseteq Byte
                /\ Len(ret[n].signature) = SignatureBytes
                /\ Len(ret[n].ship) = ShipBytes

Done == i <= 0

(* A transaction as it is to come out of the parser.                       *)
Expected(tx) == [f \in DOMAIN tx \cup {"raw"} |-> IF f = "raw" THEN Raw(tx) ELSE tx[f]]

(* What is missing of a batch is before the opcode of its front.           *)
OpcodeThere == cut <= Len(FlattenSeq(Last(sent).args))

(* A batch comes out as it was submitted, and what the signatures are      *)
(* verified over is what was signed, also when the zeros at its front are  *)
(* missing, those of the arguments of the last transaction.                *)
ParsedAsSent ==
    Done /\ sent # <<>> /\ OpcodeThere
       => ret = [n \in DOMAIN sent |-> Expected(sent[n])]

(* However many zeros are missing, no transaction but the last suffers     *)
(* from it; when they were those of its signature, all are dropped.        *)
AllOrNothing ==
    Done /\ sent # <<>>
       => IF cut > Len(Raw(Last(sent))) THEN ret = <<>>
          ELSE /\ Len(ret) = Len(sent)
               /\ \A n \in 1..(Len(sent) - 1) : ret[n] = Expected(sent[n])

(* The bit that is the flag of some opcodes says nothing to the others.    *)
Unflagged(tx, bytes) ==
    LET op == Len(bytes) - ShipBytes - 1
    IN IF HasFlag(tx.opcode) THEN bytes ELSE [bytes EXCEPT ![op] = @ % 128]

Agrees(tx) == Raw(tx) = Unflagged(tx, tx.raw)

(* Of any bytes at all: what is played of a transaction is what its        *)
(* signature is verified over, if its opcode is there.  Only the last that *)
(* is read may have lost it.                                               *)
PlayedIsVerified ==
    \A n \in DOMAIN ret :
       n < Len(ret) \/ i + Len(FlattenSeq(ret[n].args)) >= 0 => Agrees(ret[n])

(* naive_parser.go:373, "leading 0x00s could be omitted from the batch     *)
(* data, but they have to be added back in for the signatures to           *)
(* validate".  They are added back in for the signatures only.             *)
ZerosAddedBack == \A n \in DOMAIN ret : Agrees(ret[n])
=============================================================================
