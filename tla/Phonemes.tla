-------------------------------- MODULE Phonemes --------------------------------
(***************************************************************************)
(* The names of ships.  A name is a sequence of words, as strings.Split    *)
(* gives them; a word is a prefix and a suffix or, for galaxies, a lone    *)
(* suffix.  A prefix or suffix is the number that it stands for.           *)
(*                                                                         *)
(* Sources: pkg/phonemes/phonemes.go.                                      *)
(***************************************************************************)
EXTENDS Scrambler, Sequences

CONSTANT Half     \* 0x100, the number of prefixes and of suffixes

ASSUME HalfAssumption == Half \in Nat /\ Word = Half * Half

Syllable == 0..(Half - 1)

TwoWords == Word * Word
ULong    == 0..((TwoWords * TwoWords) - 1)   \* uint64

NotAName == -1

(* The digits of a number in base Word, each a prefix and a suffix.        *)
IntToPhonemeNonGalaxy[i \in ULong] ==
    IF i < Word THEN << <<i \div Half, i % Half>> >>
    ELSE IntToPhonemeNonGalaxy[i \div Word] \o IntToPhonemeNonGalaxy[i % Word]

IntToPhonemeQ(i) == IF i < Half THEN << <<i>> >> ELSE IntToPhonemeNonGalaxy[i]

(* Mutant: the words added up without the shift. *)
NotShifted(ret, word) == ret + (Half * word[1]) + word[2]

(* ret <<= 16, in 64 bits.                                                 *)
Shifted(ret, word) == ((ret * Word) % (TwoWords * TwoWords))
                      + (Half * word[1]) + word[2]

PhonemeQToInt(name) ==
    IF Len(name) = 1 /\ Len(name[1]) = 1 THEN name[1][1]
    ELSE IF \E k \in DOMAIN name : Len(name[k]) # 2 THEN NotAName
    ELSE LET value[n \in 0..Len(name)] ==
                 IF n = 0 THEN 0 ELSE Shifted(value[n - 1], name[n])
         IN value[Len(name)]

(* A larger number is scrambled in its low 32 bits.                        *)
InLow(i, low) == (i - (i % TwoWords)) + low

IntToPhoneme(i) == IntToPhonemeQ(InLow(i, Scramble(i % TwoWords)))

PhonemeToInt(name) ==
    LET i == PhonemeQToInt(name)
    IN IF i = NotAName THEN NotAName ELSE InLow(i, Unscramble(i % TwoWords))

(* A name that a number is given: of at most four words, no leading zero,  *)
(* and a galaxy's is a lone suffix.                                        *)
Canonical(name) ==
    /\ Len(name) \in 1..4
    /\ \/ Len(name) = 1 /\ Len(name[1]) = 1
       \/ /\ \A k \in DOMAIN name : Len(name[k]) = 2
          /\ IF Len(name) = 1 THEN name[1][1] # 0 ELSE name[1] # <<0, 0>>
=============================================================================
