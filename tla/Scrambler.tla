------------------------------- MODULE Scrambler -------------------------------
(***************************************************************************)
(* The scrambler of planet names: Fein is a Feistel cipher of four rounds  *)
(* over the numbers below (Word - 1) * Word, and Fynd undoes it.           *)
(*                                                                         *)
(* murmur3 is external: prf is whatever 32-bit values it takes.            *)
(*                                                                         *)
(* Sources: pkg/phonemes/scrambler.go.                                     *)
(***************************************************************************)
EXTENDS Integers

CONSTANTS
    Word,      \* 0x1_0000
    Hashes     \* the functions that may be murmur3 with the four seeds

VARIABLE prf

Short == 0..(Word - 1)          \* uint16
Long  == 0..((Word * Word) - 1)   \* uint32

ASSUME WordAssumption == Word \in Nat \ {0, 1}
ASSUME HashAssumption == Hashes \subseteq [(0..3) \X Short -> Long]

(* The rounds reduce modulo 0xffff and 0x10000 in turn.                    *)
Modulus(j) == IF j % 2 = 0 THEN Word - 1 ELSE Word

(* Mutant: the sum kept in 32 bits. *)
RoundIn32Bits(j, x) ==
    [l |-> x.r, r |-> ((prf[j, x.r] + x.l) % (Word * Word)) % Modulus(j)]

Round(j, x) == [l |-> x.r, r |-> (prf[j, x.r] + x.l) % Modulus(j)]

(* Round j - 1 undone.                                                     *)
Undo(j, x) ==
    [l |-> ((x.r + Modulus(j - 1)) - (prf[j - 1, x.l] % Modulus(j - 1))) % Modulus(j - 1),
     r |-> x.l]

Split(m) == [l |-> m % (Word - 1), r |-> m \div (Word - 1)]

(* Put together, the low half is below Word - 1: a right half of Word - 1  *)
(* goes first.                                                             *)
Joined(x) == IF x.r = Word - 1 THEN (x.r * (Word - 1)) + x.l
             ELSE (x.l * (Word - 1)) + x.r

Parted(m) == LET x == Split(m) IN IF x.r # Word - 1 THEN [l |-> x.r, r |-> x.l] ELSE x

Fein(m) == Joined(Round(3, Round(2, Round(1, Round(0, Split(m))))))

Fynd(m) == LET x == Undo(1, Undo(2, Undo(3, Undo(4, Parted(m)))))
           IN (x.r * (Word - 1)) + x.l

(* Galaxies and stars are left as they are.                                *)
Scramble(m) == IF m < Word THEN m ELSE Fein(m - Word) + Word

Unscramble(m) == IF m < Word THEN m ELSE Fynd(m - Word) + Word

-----------------------------------------------------------------------------

(* TestScrambleUnscramble, for each number: Unscramble undoes Scramble,    *)
(* and a planet's scrambled number is a planet's.                          *)
ScrambleUndone ==
    \A m \in Long :
       /\ Scramble(m) \in (IF m < Word THEN {m} ELSE Long \ Short)
       /\ Unscramble(Scramble(m)) = m
=============================================================================
