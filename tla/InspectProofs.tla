---------------------------- MODULE InspectProofs ----------------------------
(***************************************************************************)
(* Proofs about the scrambler and the names of ships, for words of any     *)
(* size and whatever murmur3 computes, and about diff_roller, for any rows *)
(* that the points may have.                                               *)
(***************************************************************************)
EXTENDS Inspect, Least, FiniteSetTheorems, TLAPS

(* Remainder and quotient are what they are.                               *)
LEMMA DivMod ==
    ASSUME NEW m \in Nat, NEW a \in Nat \ {0}
    PROVE  /\ m % a \in 0..(a - 1)
           /\ m \div a \in Nat
           /\ m = ((m \div a) * a) + (m % a)
BY Z3

(* There is one way to write a number as a multiple and a remainder.       *)
LEMMA DivModUnique ==
    ASSUME NEW a \in Nat \ {0}, NEW q \in Nat, NEW l \in 0..(a - 1)
    PROVE  /\ ((q * a) + l) % a = l
           /\ ((q * a) + l) \div a = q
BY Z3

(* The number with quotient q and remainder l is below b * a just when q   *)
(* is below b.                                                             *)
LEMMA ProductBound ==
    ASSUME NEW a \in Nat \ {0}, NEW q \in Nat, NEW l \in 0..(a - 1), NEW b \in Nat
    PROVE  (q * a) + l < b * a <=> q < b
BY Z3

(* A round adds a hash to a half, and the round undone takes it off.       *)
LEMMA SumUndone ==
    ASSUME NEW a \in Nat \ {0}, NEW p \in Nat, NEW l \in 0..(a - 1)
    PROVE  ((((p + l) % a) + a) - (p % a)) % a = l
<1> DEFINE q == p \div a
           s == p % a
<1>1. q \in Nat /\ s \in 0..(a - 1) /\ p = (q * a) + s
  BY DivMod
<1> HIDE DEF q, s
<1>2. CASE s + l < a
  <2>1. s + l \in 0..(a - 1) /\ p + l = (q * a) + (s + l)
    BY <1>1, <1>2
  <2>2. (p + l) % a = s + l
    BY <1>1, <2>1, DivModUnique
  <2>3. ((s + l) + a) - s = (1 * a) + l
    BY <1>1
  <2>4. ((1 * a) + l) % a = l
    BY DivModUnique
  <2> QED
    BY <2>2, <2>3, <2>4 DEF s
<1>3. CASE s + l >= a
  <2>1. (s + l) - a \in 0..(a - 1) /\ p + l = ((q + 1) * a) + ((s + l) - a)
    BY <1>1, <1>3
  <2>2. (((q + 1) * a) + ((s + l) - a)) % a = (s + l) - a
    <3>1. q + 1 \in Nat
      BY <1>1
    <3> QED
      BY <3>1, <2>1, DivModUnique
  <2>3. (((s + l) - a) + a) - s = (0 * a) + l
    BY <1>1
  <2>4. ((0 * a) + l) % a = l
    BY DivModUnique
  <2> QED
    BY <2>1, <2>2, <2>3, <2>4 DEF s
<1> QED
  BY <1>1, <1>2, <1>3

(* The moduli of the rounds.                                               *)
LEMMA Moduli ==
    /\ Word - 1 \in Nat \ {0} /\ Word \in Nat \ {0}
    /\ Modulus(0) = Word - 1 /\ Modulus(1) = Word /\ Modulus(2) = Word - 1
    /\ Modulus(3) = Word /\ Modulus(4) = Word - 1 /\ Modulus(5) = Word
<1>1. 0 % 2 = 0 /\ 1 % 2 = 1 /\ 2 % 2 = 0 /\ 3 % 2 = 1 /\ 4 % 2 = 0 /\ 5 % 2 = 1
  BY Z3
<1>2. Word \in Nat \ {0, 1}
  BY WordAssumption
<1> QED
  BY <1>1, <1>2 DEF Modulus

(* The halves before round j: each below the modulus that takes it.        *)
Halves(j) == [l : 0..(Modulus(j) - 1), r : 0..(Modulus(j + 1) - 1)]

(* A round keeps the halves in their bounds, and Undo takes it back.       *)
LEMMA RoundUndone ==
    ASSUME prf \in Hashes, NEW j \in 0..3, NEW x \in Halves(j)
    PROVE  /\ Round(j, x) \in Halves(j + 1)
           /\ Undo(j + 1, Round(j, x)) = x
<1> DEFINE M == Modulus(j)
           N == Modulus(j + 1)
           p == prf[j, x.r]
           f == (p + x.l) % M
<1>1. M \in Nat \ {0} /\ Modulus(j + 2) = M /\ N \in Nat /\ N <= Word
  <2>1. j = 0 \/ j = 1 \/ j = 2 \/ j = 3
    OBVIOUS
  <2>2. Word \in Nat
    BY WordAssumption
  <2> QED
    BY <2>1, <2>2, Moduli
<1>2. x = [l |-> x.l, r |-> x.r] /\ x.l \in 0..(M - 1) /\ x.r \in 0..(N - 1)
  BY DEF Halves
<1>3. p \in Nat
  <2>1. prf \in [(0..3) \X Short -> Long]
    BY HashAssumption, prf \in Hashes
  <2>2. x.r \in Short
    BY <1>1, <1>2, WordAssumption DEF Short
  <2>3. p \in Long
    BY <2>1, <2>2
  <2>4. Word * Word \in Nat
    BY WordAssumption
  <2> HIDE DEF p
  <2> QED
    BY <2>3, <2>4 DEF Long
<1>4. Round(j, x) = [l |-> x.r, r |-> f]
  BY DEF Round
<1>5. Undo(j + 1, Round(j, x)) = [l |-> ((f + M) - (p % M)) % M, r |-> x.r]
  <2>1. (j + 1) - 1 = j
    OBVIOUS
  <2>2. \A y : Undo(j + 1, y) = [l |-> ((y.r + M) - (prf[j, y.l] % M)) % M, r |-> y.l]
    BY <2>1, Zenon DEF Undo
  <2> HIDE DEF M, f
  <2>3. Round(j, x).l = x.r /\ Round(j, x).r = f
    BY <1>4
  <2> QED
    BY <2>2, <2>3, Zenon
<1>6. Halves(j + 1) = [l : 0..(N - 1), r : 0..(M - 1)]
  <2>1. (j + 1) + 1 = j + 2
    OBVIOUS
  <2> QED
    BY <1>1, <2>1 DEF Halves
<1> HIDE DEF M, N, p
<1>7. f \in 0..(M - 1)
  <2>1. p + x.l \in Nat
    BY <1>1, <1>2, <1>3
  <2> QED
    BY <1>1, <2>1, DivMod
<1>8. ((f + M) - (p % M)) % M = x.l
  BY <1>1, <1>2, <1>3, SumUndone
<1> HIDE DEF f
<1> QED
  BY <1>2, <1>4, <1>5, <1>6, <1>7, <1>8

(* The numbers that are scrambled: planets, counted from the first.        *)
Planets == 0..((Word * (Word - 1)) - 1)

LEMMA SplitType ==
    ASSUME NEW m \in Planets
    PROVE  /\ Split(m) \in Halves(0)
           /\ (Split(m).r * (Word - 1)) + Split(m).l = m
<1> DEFINE A == Word - 1
           l == m % A
           q == m \div A
<1>1. A \in Nat \ {0} /\ Word \in Nat /\ Word * A \in Nat
  BY WordAssumption
<1>2. Split(m) = [l |-> l, r |-> q]
  BY DEF Split
<1>3. Halves(0) = [l : 0..(A - 1), r : 0..(Word - 1)]
  <2>1. 0 + 1 = 1
    OBVIOUS
  <2> QED
    BY <2>1, Moduli DEF Halves
<1>4. m \in Nat /\ m < Word * A
  BY <1>1 DEF Planets
<1> HIDE DEF A
<1>5. l \in 0..(A - 1) /\ q \in Nat /\ m = (q * A) + l
  BY <1>1, <1>4, DivMod
<1> HIDE DEF l, q
<1>6. q < Word
  BY <1>1, <1>4, <1>5, ProductBound
<1>7. [l |-> l, r |-> q] \in Halves(0)
  <2>1. q \in 0..(Word - 1)
    BY <1>1, <1>5, <1>6
  <2> QED
    BY <1>3, <1>5, <2>1
<1> QED
  BY <1>2, <1>5, <1>7 DEF A

(* What Joined puts together, Parted takes apart.                          *)
LEMMA JoinUndone ==
    ASSUME NEW x \in Halves(4)
    PROVE  /\ Joined(x) \in Planets
           /\ Parted(Joined(x)) = x
<1> DEFINE A == Word - 1
<1>1. A \in Nat \ {0} /\ Word \in Nat /\ A < Word /\ Word * A \in Nat
  BY WordAssumption
<1>2. x = [l |-> x.l, r |-> x.r] /\ x.l \in 0..(A - 1) /\ x.r \in 0..A
  BY Moduli DEF Halves
<1>3. CASE x.r = A
  <2>1. Joined(x) = (A * A) + x.l
    BY <1>3 DEF Joined
  <2> HIDE DEF A
  <2>2. ((A * A) + x.l) % A = x.l /\ ((A * A) + x.l) \div A = A
    BY <1>1, <1>2, DivModUnique
  <2>3. (A * A) + x.l \in Nat /\ (A * A) + x.l < Word * A
    BY <1>1, <1>2, ProductBound
  <2>4. Split(Joined(x)) = [l |-> x.l, r |-> A]
    BY <2>1, <2>2 DEF Split, A
  <2>5. Parted(Joined(x)) = x
    BY <1>2, <1>3, <2>4 DEF Parted, A
  <2> QED
    BY <1>1, <2>1, <2>3, <2>5 DEF Planets, A
<1>4. CASE x.r # A
  <2>1. Joined(x) = (x.l * A) + x.r
    BY <1>4 DEF Joined
  <2> HIDE DEF A
  <2>2. x.r \in 0..(A - 1) /\ x.l \in Nat /\ x.l < A
    BY <1>1, <1>2, <1>4
  <2>3. ((x.l * A) + x.r) % A = x.r /\ ((x.l * A) + x.r) \div A = x.l
    BY <1>1, <2>2, DivModUnique
  <2>4. (x.l * A) + x.r \in Nat /\ (x.l * A) + x.r < Word * A
    BY <1>1, <2>2, ProductBound
  <2>5. Split(Joined(x)) = [l |-> x.r, r |-> x.l]
    BY <2>1, <2>3 DEF Split, A
  <2>6. Parted(Joined(x)) = x
    BY <1>1, <1>2, <2>2, <2>5 DEF Parted, A
  <2> QED
    BY <1>1, <2>1, <2>4, <2>6 DEF Planets, A
<1> QED
  BY <1>3, <1>4

(* The cipher undone.                                                      *)
LEMMA FeinUndone ==
    ASSUME prf \in Hashes, NEW m \in Planets
    PROVE  Fein(m) \in Planets /\ Fynd(Fein(m)) = m
<1> DEFINE x0 == Split(m)
           x1 == Round(0, x0)
           x2 == Round(1, x1)
           x3 == Round(2, x2)
           x4 == Round(3, x3)
<1>0. x0 \in Halves(0) /\ (x0.r * (Word - 1)) + x0.l = m
  BY SplitType
<1>1. Fein(m) = Joined(x4)
  BY DEF Fein
<1> HIDE DEF x0
<1>2. x1 \in Halves(1) /\ Undo(1, x1) = x0
  <2>1. 0 \in 0..3 /\ 0 + 1 = 1
    OBVIOUS
  <2> QED
    BY <1>0, <2>1, RoundUndone, prf \in Hashes
<1> HIDE DEF x1
<1>3. x2 \in Halves(2) /\ Undo(2, x2) = x1
  <2>1. 1 \in 0..3 /\ 1 + 1 = 2
    OBVIOUS
  <2> QED
    BY <1>2, <2>1, RoundUndone, prf \in Hashes
<1> HIDE DEF x2
<1>4. x3 \in Halves(3) /\ Undo(3, x3) = x2
  <2>1. 2 \in 0..3 /\ 2 + 1 = 3
    OBVIOUS
  <2> QED
    BY <1>3, <2>1, RoundUndone, prf \in Hashes
<1> HIDE DEF x3
<1>5. x4 \in Halves(4) /\ Undo(4, x4) = x3
  <2>1. 3 \in 0..3 /\ 3 + 1 = 4
    OBVIOUS
  <2> QED
    BY <1>4, <2>1, RoundUndone, prf \in Hashes
<1> HIDE DEF x4
<1>6. Fein(m) \in Planets /\ Parted(Fein(m)) = x4
  BY <1>1, <1>5, JoinUndone
<1>7. Undo(1, Undo(2, Undo(3, Undo(4, Parted(Fein(m)))))) = x0
  BY <1>2, <1>3, <1>4, <1>5, <1>6
<1>8. Fynd(Fein(m)) = (x0.r * (Word - 1)) + x0.l
  BY <1>7 DEF Fynd
<1> QED
  BY <1>0, <1>6, <1>8

LEMMA ScrambleUndoneForAll == prf \in Hashes => ScrambleUndone
<1> SUFFICES ASSUME prf \in Hashes, NEW m \in Long
             PROVE  /\ Scramble(m) \in (IF m < Word THEN {m} ELSE Long \ Short)
                    /\ Unscramble(Scramble(m)) = m
  BY DEF ScrambleUndone
<1>1. /\ Word \in Nat /\ Word > 1 /\ Word * Word \in Nat
      /\ Word * (Word - 1) = (Word * Word) - Word
  BY WordAssumption
<1>2. m \in Nat /\ m < Word * Word
  BY <1>1 DEF Long
<1>3. CASE m < Word
  BY <1>3 DEF Scramble, Unscramble
<1>4. CASE ~(m < Word)
  <2> DEFINE k == m - Word
  <2>1. k \in Planets
    BY <1>1, <1>2, <1>4 DEF Planets
  <2>2. Fein(k) \in Planets /\ Fynd(Fein(k)) = k
    BY <2>1, FeinUndone
  <2>3. Scramble(m) = Fein(k) + Word
    BY <1>4 DEF Scramble
  <2>4. Fein(k) \in Nat /\ Fein(k) < (Word * Word) - Word
    BY <1>1, <2>2 DEF Planets
  <2>5. Scramble(m) \in Long \ Short /\ ~(Scramble(m) < Word)
    <3> HIDE DEF k
    <3> QED
      BY <1>1, <2>3, <2>4 DEF Long, Short
  <2>6. Scramble(m) - Word = Fein(k)
    <3> HIDE DEF k
    <3> QED
      BY <1>1, <2>3, <2>4
  <2>7. Unscramble(Scramble(m)) = Fynd(Fein(k)) + Word
    BY <2>5, <2>6 DEF Unscramble
  <2> QED
    BY <1>1, <1>2, <1>4, <2>2, <2>5, <2>7
<1> QED
  BY <1>3, <1>4

LEMMA PrfKept == ASSUME [Next]_vars PROVE prf' = prf
BY DEF Next, vars, Query, Diff

(* Every ship's number is its name's, whatever murmur3 computes: Fynd      *)
(* undoes Fein for each number below 2^32, also where the rounds carry or  *)
(* the right half is 0xffff.                                               *)
THEOREM NamesUndone == Spec => []ScrambleUndone
<1>1. Init => prf \in Hashes
  BY DEF Init
<1>2. prf \in Hashes /\ [Next]_vars => (prf \in Hashes)'
  BY PrfKept
<1>3. prf \in Hashes => ScrambleUndone
  BY ScrambleUndoneForAll
<1> QED
  BY <1>1, <1>2, <1>3, PTL DEF Spec

-----------------------------------------------------------------------------

(* The field f of the answer of the roller for a point.                    *)
LEMMA RollerSays ==
    ASSUME NEW row, IsRow(row)
    PROVE  LET rp == RollerPoint(row)
           IN /\ \A f \in Plain \cup {"sponsor", "is_escape_requested"} : rp[f] = row[f]
              /\ rp["dominion"] = dominionToString(row.dominion)
              /\ \A f \in Keys : rp[f] = IF row[f] = "none" THEN "zeros" ELSE row[f]
              /\ rp["escape_requested_to"] =
                    IF row.is_escape_requested THEN row.escape_requested_to ELSE Null
BY DEF RollerPoint, IsRow, Fields, Plain, Keys

(* No two dominions have one name.                                         *)
LEMMA DominionsNamed ==
    ASSUME NEW a \in 1..3, NEW b \in 1..3
    PROVE  dominionToString(a) = dominionToString(b) <=> a = b
<1>1. /\ dominionToString(1) = "l1" /\ dominionToString(2) = "l2"
      /\ dominionToString(3) = "spawn"
  BY DEF dominionToString
<1>2. (a = 1 \/ a = 2 \/ a = 3) /\ (b = 1 \/ b = 2 \/ b = 3)
  OBVIOUS
<1> QED
  BY <1>1, <1>2

(* Two rows that say the same, field by field.                             *)
Agree(row, other) ==
    /\ \A f \in Plain : row[f] = other[f]
    /\ row.dominion = other.dominion
    /\ \A f \in Keys : row[f] = other[f] \/ (isZeroOrEmpty(row[f]) /\ isZeroOrEmpty(other[f]))
    /\ other.has_sponsor => row.sponsor = other.sponsor
    /\ row.is_escape_requested = other.is_escape_requested
    /\ other.is_escape_requested => row.escape_requested_to = other.escape_requested_to

(* diff_roller prints nothing just for the rows that agree.                *)
LEMMA NoMismatch ==
    ASSUME NEW row, IsRow(row), NEW other, IsRow(other)
    PROVE  DiffDBPointWithRemote(row, RollerPoint(other)) = {} <=> Agree(row, other)
<1> DEFINE rp == RollerPoint(other)
<1>1. DiffDBPointWithRemote(row, rp) = {} <=>
        /\ \A f \in Plain : row[f] = rp[f]
        /\ dominionToString(row.dominion) = rp["dominion"]
        /\ \A f \in Keys : row[f] = rp[f] \/ (isZeroOrEmpty(row[f]) /\ isZeroOrEmpty(rp[f]))
        /\ rp.has_sponsor => row["sponsor"] = rp["sponsor"]
        /\ row["is_escape_requested"] = (rp.escape_requested_to # Null)
        /\ rp["escape_requested_to"] # Null
              => row["escape_requested_to"] = rp["escape_requested_to"]
  <2> HIDE DEF rp
  <2> QED
    BY DEF DiffDBPointWithRemote
<1>2. /\ \A f \in Plain \cup {"sponsor", "is_escape_requested"} : rp[f] = other[f]
      /\ rp["dominion"] = dominionToString(other.dominion)
      /\ \A f \in Keys : rp[f] = IF other[f] = "none" THEN "zeros" ELSE other[f]
      /\ rp["escape_requested_to"] =
            IF other.is_escape_requested THEN other.escape_requested_to ELSE Null
  BY RollerSays
<1> HIDE DEF rp
<1>3. \A f \in Plain : row[f] = rp[f] <=> row[f] = other[f]
  BY <1>2
<1>4. dominionToString(row.dominion) = rp["dominion"] <=> row.dominion = other.dominion
  BY <1>2, DominionsNamed DEF IsRow
<1>5. \A f \in Keys : (row[f] = rp[f] \/ (isZeroOrEmpty(row[f]) /\ isZeroOrEmpty(rp[f])))
        <=> (row[f] = other[f] \/ (isZeroOrEmpty(row[f]) /\ isZeroOrEmpty(other[f])))
  BY <1>2 DEF isZeroOrEmpty
<1>6. (rp.has_sponsor => row["sponsor"] = rp["sponsor"])
        <=> (other.has_sponsor => row.sponsor = other.sponsor)
  BY <1>2 DEF Plain
<1>7. (rp.escape_requested_to # Null) = other.is_escape_requested
  BY <1>2 DEF IsRow, Null
<1>8. (rp["escape_requested_to"] # Null
         => row["escape_requested_to"] = rp["escape_requested_to"])
        <=> (other.is_escape_requested
               => row.escape_requested_to = other.escape_requested_to)
  BY <1>2, <1>7 DEF IsRow
<1>9. DiffDBPointWithRemote(row, rp) = {} <=> Agree(row, other)
  BY <1>1, <1>3, <1>4, <1>5, <1>6, <1>7, <1>8 DEF Agree
<1> QED
  BY <1>9 DEF rp

(* What two rows say is equal just when they agree.                        *)
LEMMA SaysTheSame ==
    ASSUME NEW row, IsRow(row), NEW other, IsRow(other)
    PROVE  Says(row) = Says(other) <=> Agree(row, other)
<1> DEFINE S == Plain \cup Keys \cup {"dominion", "sponsor", "escape_requested_to"}
<1>1. Says(row) = Says(other) <=> \A f \in S : Says(row)[f] = Says(other)[f]
  BY Zenon DEF Says
<1>2. ASSUME NEW r, IsRow(r)
      PROVE  /\ \A f \in Plain \cup {"dominion"} : Says(r)[f] = r[f]
             /\ \A f \in Keys : Says(r)[f] = IF isZeroOrEmpty(r[f]) THEN "none" ELSE r[f]
             /\ Says(r)["sponsor"] = IF r.has_sponsor THEN r.sponsor ELSE Null
             /\ Says(r)["escape_requested_to"] =
                   IF r.is_escape_requested THEN r.escape_requested_to ELSE Null
  BY <1>2 DEF Says, Plain, Keys, IsRow
<1>3. \A f \in Plain \cup {"dominion"} : Says(row)[f] = Says(other)[f] <=> row[f] = other[f]
  BY <1>2
<1>4. \A f \in Keys : Says(row)[f] = Says(other)[f]
        <=> (row[f] = other[f] \/ (isZeroOrEmpty(row[f]) /\ isZeroOrEmpty(other[f])))
  BY <1>2 DEF isZeroOrEmpty
<1>5. row.has_sponsor = other.has_sponsor =>
        (Says(row)["sponsor"] = Says(other)["sponsor"]
           <=> (other.has_sponsor => row.sponsor = other.sponsor))
  BY <1>2
<1>6. Says(row)["escape_requested_to"] = Says(other)["escape_requested_to"]
        <=> /\ row.is_escape_requested = other.is_escape_requested
            /\ other.is_escape_requested
                  => row.escape_requested_to = other.escape_requested_to
  BY <1>2 DEF IsRow, Null
<1>7. "has_sponsor" \in Plain
  BY DEF Plain
<1> QED
  BY <1>1, <1>3, <1>4, <1>5, <1>6, <1>7 DEF Agree

(* The fields that are printed of a row that was asked for.                *)
Compared(n) ==
    IF seen[n] = NoResult THEN DiffDBPointWithNothing(History[n][points[n]])
    ELSE DiffDBPointWithRemote(History[n][points[n]], RollerPoint(History[n][seen[n]]))

(* The rows that diff_roller read, in the order it asks: each one is to be *)
(* asked for or was, unless the roller failed.                             *)
Asked ==
    /\ table \in [Point -> Nat] /\ \A n \in Point : table[n] <= Len(History[n])
    /\ roller \in [Point -> Nat] /\ \A n \in Point : roller[n] <= Len(History[n])
    /\ points \in [Point -> Nat] /\ \A n \in Point : points[n] <= Len(History[n])
    /\ seen \in [Point -> Nat \cup {NoResult}]
    /\ \A n \in Point : seen[n] <= Len(History[n])
    /\ diffs \in [Point -> SUBSET Fields]
    /\ at \in {"down", "asking", "done", "error"}
    /\ at # "asking" => todo = {}
    /\ \A n \in todo : n \in Point /\ points[n] > 0
    /\ at \in {"asking", "done"} =>
          \A n \in Point : points[n] > 0 => n \in todo \/ seen[n] # 0
    /\ \A n \in Point : seen[n] # 0 =>
          /\ points[n] > 0
          /\ diffs[n] = Compared(n)

LEMMA DiffsAreFields ==
    ASSUME NEW row, NEW rp
    PROVE  /\ DiffDBPointWithRemote(row, rp) \subseteq Fields
           /\ DiffDBPointWithNothing(row) \subseteq Fields
BY DEF DiffDBPointWithRemote, DiffDBPointWithNothing, Fields, Plain, Keys

LEMMA AskedInit == Init => Asked
<1>1. \A n \in Point : Len(History[n]) \in Nat
  BY HistoryAssumption
<1> QED
  BY <1>1 DEF Init, DiffInit, NoRows, NoDiffs, Asked

LEMMA AskedPlays ==
    ASSUME Asked, NEW n \in Point, Plays(n)
    PROVE  Asked'
<1>1. \A m \in Point : Len(History[m]) \in Nat
  BY HistoryAssumption
<1>2. UNCHANGED diff_vars
  BY DEF Plays
<1>3. /\ table' \in [Point -> Nat] /\ \A m \in Point : table'[m] <= Len(History[m])
      /\ roller' \in [Point -> Nat] /\ \A m \in Point : roller'[m] <= Len(History[m])
  <2>1. CASE /\ table[n] < Len(History[n])
             /\ table' = [table EXCEPT ![n] = @ + 1]
             /\ roller' = roller
    <3>1. table'[n] = table[n] + 1 /\ \A m \in Point \ {n} : table'[m] = table[m]
      BY <2>1 DEF Asked
    <3> QED
      BY <1>1, <2>1, <3>1 DEF Asked
  <2>2. CASE /\ roller[n] < Len(History[n])
             /\ roller' = [roller EXCEPT ![n] = @ + 1]
             /\ table' = table
    <3>1. roller'[n] = roller[n] + 1 /\ \A m \in Point \ {n} : roller'[m] = roller[m]
      BY <2>2 DEF Asked
    <3> QED
      BY <1>1, <2>2, <3>1 DEF Asked
  <2> QED
    BY <2>1, <2>2 DEF Plays
<1> QED
  BY <1>2, <1>3 DEF Asked, Compared, diff_vars

LEMMA AskedCheckPoints == ASSUME Asked, CheckPoints PROVE Asked'
<1>1. \A m \in Point : Len(History[m]) \in Nat
  BY HistoryAssumption
<1>2. /\ points' = table /\ todo' = {m \in Point : table[m] > 0}
      /\ at' = IF todo' = {} THEN "done" ELSE "asking"
      /\ seen' = [m \in Point |-> 0] /\ diffs' = [m \in Point |-> {}]
      /\ table' = table /\ roller' = roller
  BY DEF CheckPoints, NoRows, NoDiffs, replays
<1> QED
  BY <1>1, <1>2 DEF Asked

(* An answer of either kind.                                               *)
LEMMA AskedAnswer ==
    ASSUME Asked, NEW n \in Point, AskRoller(n) \/ EmptyAnswer(n)
    PROVE  Asked'
<1>1. \A m \in Point : Len(History[m]) \in Nat
  BY HistoryAssumption
<1> DEFINE s == seen'[n]
           d == diffs'[n]
<1>2. /\ at = "asking" /\ n \in todo
      /\ todo' = todo \ {n}
      /\ at' = IF todo' = {} THEN "done" ELSE "asking"
      /\ table' = table /\ roller' = roller /\ points' = points
  BY DEF AskRoller, EmptyAnswer, Asks, replays
<1>3. /\ s \in (Nat \cup {NoResult}) \ {0} /\ s <= Len(History[n])
      /\ seen' = [seen EXCEPT ![n] = s]
      /\ diffs' = [diffs EXCEPT ![n] = d]
      /\ d = Compared(n)'
      /\ d \in SUBSET Fields
  <2>1. CASE AskRoller(n)
    <3>1. s = roller[n] /\ s \in Nat \ {0} /\ s <= Len(History[n]) /\ s # NoResult
      BY <2>1 DEF AskRoller, Asked, NoResult
    <3>2. d = DiffDBPointWithRemote(History[n][points[n]], RollerPoint(History[n][roller[n]]))
      BY <2>1 DEF AskRoller, Asked
    <3>3. d \in SUBSET Fields
      BY <3>2, DiffsAreFields
    <3>4. d = Compared(n)'
      BY <1>2, <3>1, <3>2 DEF Compared
    <3> QED
      BY <2>1, <3>1, <3>2, <3>3, <3>4 DEF AskRoller
  <2>2. CASE EmptyAnswer(n)
    <3>1. s = NoResult /\ s <= Len(History[n]) /\ s # 0
      BY <1>1, <2>2 DEF EmptyAnswer, Asked, NoResult
    <3>2. d = DiffDBPointWithNothing(History[n][points[n]])
      BY <2>2 DEF EmptyAnswer, Asked
    <3>3. d \in SUBSET Fields
      BY <3>2, DiffsAreFields
    <3>4. d = Compared(n)'
      BY <1>2, <3>1, <3>2 DEF Compared
    <3> QED
      BY <2>2, <3>1, <3>2, <3>3, <3>4 DEF EmptyAnswer
  <2> QED
    BY <2>1, <2>2
<1> HIDE DEF s, d
<1>4. /\ seen'[n] = s /\ \A m \in Point \ {n} : seen'[m] = seen[m]
      /\ diffs'[n] = d /\ \A m \in Point \ {n} : diffs'[m] = diffs[m]
  BY <1>3 DEF Asked
<1>5. /\ seen' \in [Point -> Nat \cup {NoResult}]
      /\ \A m \in Point : seen'[m] <= Len(History[m])
      /\ diffs' \in [Point -> SUBSET Fields]
  BY <1>3, <1>4 DEF Asked
<1>6. ASSUME NEW m \in Point, seen'[m] # 0
      PROVE  points[m] > 0 /\ diffs'[m] = Compared(m)'
  <2>1. CASE m = n
    BY <1>2, <1>3, <1>4, <2>1 DEF Asked
  <2>2. CASE m # n
    <3>1. seen'[m] = seen[m] /\ diffs'[m] = diffs[m]
      BY <1>4, <2>2
    <3>2. points[m] > 0 /\ diffs[m] = Compared(m)
      BY <1>6, <3>1 DEF Asked
    <3>3. Compared(m)' = Compared(m)
      BY <1>2, <3>1 DEF Compared
    <3> QED
      BY <3>1, <3>2, <3>3
  <2> QED
    BY <2>1, <2>2
<1>7. \A m \in Point : points[m] > 0 => m \in todo' \/ seen'[m] # 0
  BY <1>2, <1>3, <1>4 DEF Asked
<1> QED
  BY <1>2, <1>5, <1>6, <1>7 DEF Asked

LEMMA AskedRollerFails == ASSUME Asked, RollerFails PROVE Asked'
BY DEF Asked, Compared, RollerFails, replays

LEMMA AskedQuery == ASSUME Asked, NEW name, Query(name) PROVE Asked'
<1>1. \A m \in Point : Len(History[m]) \in Nat
  BY HistoryAssumption
<1>2. /\ at' = "down" /\ todo' = {}
      /\ points' = [m \in Point |-> 0]
      /\ seen' = [m \in Point |-> 0] /\ diffs' = [m \in Point |-> {}]
      /\ table' = table /\ roller' = roller
  BY DEF Query, NoRows, NoDiffs, replays
<1> QED
  BY <1>1, <1>2 DEF Asked

LEMMA AskedNext == Asked /\ [Next]_vars => Asked'
<1> SUFFICES ASSUME Asked, [Next]_vars PROVE Asked'
  OBVIOUS
<1>1. CASE UNCHANGED vars
  BY <1>1 DEF vars, replays, diff_vars, Asked, Compared
<1>2. CASE DiffNext
  BY <1>2, AskedCheckPoints, AskedRollerFails, AskedPlays, AskedAnswer DEF DiffNext
<1>3. CASE \E name \in Typed : Query(name)
  BY <1>3, AskedQuery
<1> QED
  BY <1>1, <1>2, <1>3 DEF Next, Diff

LEMMA AskedReports == Asked => ReportsTheDifferent
<1> SUFFICES ASSUME Asked PROVE ReportsTheDifferent
  OBVIOUS
<1>1. at = "done" => \A n \in Point : points[n] > 0 => seen[n] # 0
  BY DEF Asked
<1>2. ASSUME NEW n \in Point, seen[n] # 0
      PROVE  diffs[n] = {} <=> /\ seen[n] # NoResult
                               /\ Says(History[n][points[n]]) = Says(History[n][seen[n]])
  <2>1. diffs[n] = Compared(n)
    BY <1>2 DEF Asked
  <2>2. CASE seen[n] = NoResult
    <3>1. "dominion" \in diffs[n]
      BY <2>1, <2>2 DEF Compared, DiffDBPointWithNothing
    <3> QED
      BY <2>2, <3>1
  <2>3. CASE seen[n] # NoResult
    <3>1. points[n] \in 1..Len(History[n]) /\ seen[n] \in 1..Len(History[n])
      BY <1>2, <2>3, HistoryAssumption DEF Asked
    <3>2. IsRow(History[n][points[n]]) /\ IsRow(History[n][seen[n]])
      BY <3>1, HistoryAssumption
    <3>3. diffs[n] = DiffDBPointWithRemote(History[n][points[n]],
                                           RollerPoint(History[n][seen[n]]))
      BY <2>1, <2>3 DEF Compared
    <3> QED
      BY <2>3, <3>2, <3>3, NoMismatch, SaysTheSame
  <2> QED
    BY <2>2, <2>3
<1> QED
  BY <1>1, <1>2 DEF ReportsTheDifferent

(* A diff_roller that ends without an error asked for every point it read, *)
(* and printed a mismatch for those alone of which the roller said nothing *)
(* or another thing when it was asked, in the fields that                  *)
(* DiffDBPointWithRemote compares: whatever rows the points have, in       *)
(* whatever order the database and the roller play them meanwhile, and     *)
(* however often it is run.  Neither the nulls and zeros of the roller's   *)
(* answer nor the fields compared only under a condition hide a difference *)
(* or make one up.                                                         *)
THEOREM DiffersWhereTheyDiffer == Spec => []ReportsTheDifferent
<1> QED
  BY AskedInit, AskedNext, AskedReports, PTL DEF Spec
-----------------------------------------------------------------------------
(* The names of ships.                                                     *)

(* What Word and Half are.                                                 *)
LEMMA Sizes ==
    /\ Word \in Nat /\ Word >= 2 /\ Half \in Nat /\ Half >= 2 /\ Half <= Word
    /\ Word = Half * Half
    /\ TwoWords \in Nat /\ TwoWords >= 1 /\ TwoWords = Word * Word
    /\ TwoWords * TwoWords \in Nat /\ TwoWords * TwoWords = (Word * Word * Word) * Word
    /\ TwoWords <= TwoWords * TwoWords /\ Word <= TwoWords
    /\ Word * Word * Word \in Nat /\ Word <= Word * Word * Word
    /\ Long = 0..(TwoWords - 1)
<1>1. Word \in Nat /\ Word >= 2 /\ Half \in Nat /\ Word = Half * Half
  BY WordAssumption, HalfAssumption
<1>2. \A h \in Nat : h * h >= 2 => h >= 2 /\ h <= h * h
  BY Z3
<1>3. Half >= 2 /\ Half <= Word
  BY <1>1, <1>2
<1>4. \A w \in Nat : w >= 2 =>
        /\ w * w \in Nat /\ w * w >= 1 /\ w <= w * w
        /\ w * w * w \in Nat
        /\ (w * w) * (w * w) \in Nat
  BY Z3
<1>5. \A w \in Nat : (w * w) * (w * w) = (w * w * w) * w
  BY Z3
<1>6. \A v \in Nat : v >= 1 => v <= v * v
  BY Z3
<1>7. \A w, v \in Nat : w >= 1 => v <= v * w
  BY Z3
<1>8. TwoWords = Word * Word /\ TwoWords \in Nat /\ TwoWords >= 1 /\ Word <= TwoWords
  BY <1>1, <1>4 DEF TwoWords
<1>9. TwoWords <= TwoWords * TwoWords
  BY <1>6, <1>8
<1>10. Word * Word * Word \in Nat /\ Word <= Word * Word * Word
  <2>1. Word * Word * Word = TwoWords * Word
    BY <1>8
  <2>2. TwoWords <= TwoWords * Word
    BY <1>1, <1>7, <1>8
  <2>3. Word * Word * Word \in Nat
    BY <1>1, <1>4
  <2> QED
    BY <1>1, <1>8, <2>1, <2>2, <2>3
<1>11. TwoWords * TwoWords \in Nat /\ TwoWords * TwoWords = (Word * Word * Word) * Word
  BY <1>1, <1>4, <1>5, <1>8
<1>12. Long = 0..(TwoWords - 1)
  BY <1>8 DEF Long
<1> QED
  BY <1>1, <1>3, <1>8, <1>9, <1>10, <1>11, <1>12

(* What the recursion of IntToPhonemeNonGalaxy says.                       *)
Digits(f, n) ==
    f = [i \in 0..n |-> IF i < Word THEN << <<i \div Half, i % Half>> >>
                        ELSE f[i \div Word] \o f[i % Word]]

LEMMA DigitsExist ==
    ASSUME NEW n \in Nat
    PROVE  \E f : Digits(f, n)
<1> DEFINE Missing == {m \in Nat : ~ \E f : Digits(f, m)}
           One(i) == << <<i \div Half, i % Half>> >>
<1>1. SUFFICES ASSUME Missing # {} PROVE FALSE
  OBVIOUS
<1>2. PICK m \in Missing : \A l \in Missing : m <= l
  BY <1>1, LeastOf
<1>0. Word \in Nat /\ Word >= 2
  BY Sizes
<1>3. CASE m = 0
  <2> DEFINE f == [i \in 0..0 |-> One(i)]
  <2>1. \A i \in 0..0 : i < Word
    BY <1>0
  <2>2. f = [i \in 0..0 |-> IF i < Word THEN One(i) ELSE f[i \div Word] \o f[i % Word]]
    BY <2>1, Zenon
  <2>3. Digits(f, 0)
    BY <2>2, Zenon DEF Digits
  <2> QED
    BY <1>2, <1>3, <2>3
<1>4. CASE m > 0
  <2>1. m - 1 \in Nat /\ m - 1 \notin Missing
    BY <1>2, <1>4
  <2>2. PICK f : Digits(f, m - 1)
    BY <2>1
  <2> DEFINE g == [i \in 0..m |-> IF i < Word THEN One(i)
                                 ELSE f[i \div Word] \o f[i % Word]]
  <2>3. \A i \in 0..(m - 1) : f[i] = IF i < Word THEN One(i) ELSE f[i \div Word] \o f[i % Word]
    BY <2>2, Zenon DEF Digits
  <2>4. \A i \in 0..(m - 1) : i \in 0..m
    BY <2>1
  <2>5. \A i \in 0..(m - 1) : g[i] = f[i]
    BY <2>3, <2>4
  <2>6. ASSUME NEW i \in 0..m, ~(i < Word)
        PROVE  i \div Word \in 0..(m - 1) /\ i % Word \in 0..(m - 1)
    <3>1. i \in Nat /\ i <= m /\ i >= Word
      BY <1>0, <2>6
    <3>2. i % Word \in 0..(Word - 1) /\ i \div Word \in Nat
          /\ i = ((i \div Word) * Word) + (i % Word)
      <4>1. Word \in Nat \ {0} /\ i \in Nat
        BY <1>0, <3>1
      <4> HIDE DEF g
      <4> QED
        BY <4>1, DivMod
    <3>3. \A q, w, r, x \in Nat : w >= 2 /\ x >= w /\ x = (q * w) + r => q < x
      BY Z3
    <3>4. i \div Word < i
      BY <1>0, <3>1, <3>2, <3>3
    <3> QED
      BY <1>0, <3>1, <3>2, <3>4
  <2>7. \A i \in 0..m : g[i] = IF i < Word THEN One(i) ELSE g[i \div Word] \o g[i % Word]
    <3> SUFFICES ASSUME NEW i \in 0..m
                 PROVE  g[i] = IF i < Word THEN One(i) ELSE g[i \div Word] \o g[i % Word]
      OBVIOUS
    <3>1. g[i] = IF i < Word THEN One(i) ELSE f[i \div Word] \o f[i % Word]
      BY Zenon
    <3> HIDE DEF g, One
    <3> QED
      BY <2>5, <2>6, <3>1
  <2>8. g = [i \in 0..m |-> g[i]]
    OBVIOUS
  <2> HIDE DEF g
  <2>9. Digits(g, m)
    BY <2>7, <2>8 DEF Digits
  <2> QED
    BY <1>2, <2>9
<1> QED
  BY <1>2, <1>3, <1>4

LEMMA NonGalaxyIs ==
    ASSUME NEW i \in ULong
    PROVE  IntToPhonemeNonGalaxy[i] =
              IF i < Word THEN << <<i \div Half, i % Half>> >>
              ELSE IntToPhonemeNonGalaxy[i \div Word] \o IntToPhonemeNonGalaxy[i % Word]
<1> DEFINE n == (TwoWords * TwoWords) - 1
<1>1. n \in Nat /\ ULong = 0..n
  BY Sizes DEF ULong
<1>2. IntToPhonemeNonGalaxy = CHOOSE f : Digits(f, n)
  BY Zenon DEF IntToPhonemeNonGalaxy, Digits, ULong
<1> HIDE DEF n
<1>3. Digits(IntToPhonemeNonGalaxy, n)
  BY <1>1, <1>2, DigitsExist
<1> QED
  BY <1>1, <1>3, Zenon DEF Digits

(* What the loop of PhonemeQToInt has read of a name after n words.        *)
Values(f, name, n) ==
    f = [k \in 0..n |-> IF k = 0 THEN 0 ELSE Shifted(f[k - 1], name[k])]

LEMMA ValuesExist ==
    ASSUME NEW name, NEW n \in Nat
    PROVE  \E f : Values(f, name, n)
<1> DEFINE Missing == {m \in Nat : ~ \E f : Values(f, name, m)}
<1>1. SUFFICES ASSUME Missing # {} PROVE FALSE
  OBVIOUS
<1>2. PICK m \in Missing : \A l \in Missing : m <= l
  BY <1>1, LeastOf
<1>3. CASE m = 0
  <2> DEFINE f == [k \in 0..0 |-> 0]
  <2>1. \A k \in 0..0 : (IF k = 0 THEN 0 ELSE Shifted(f[k - 1], name[k])) = 0
    OBVIOUS
  <2>2. f = [k \in 0..0 |-> IF k = 0 THEN 0 ELSE Shifted(f[k - 1], name[k])]
    BY <2>1
  <2>3. Values(f, name, 0)
    BY <2>2, Zenon DEF Values
  <2> QED
    BY <1>2, <1>3, <2>3
<1>4. CASE m > 0
  <2>1. m - 1 \in Nat /\ m - 1 \notin Missing
    BY <1>2, <1>4
  <2>2. PICK f : Values(f, name, m - 1)
    BY <2>1
  <2> DEFINE g == [k \in 0..m |-> IF k = 0 THEN 0 ELSE Shifted(f[k - 1], name[k])]
  <2>3. \A k \in 0..(m - 1) : g[k] = f[k]
    <3>1. \A k \in 0..(m - 1) :
            f[k] = IF k = 0 THEN 0 ELSE Shifted(f[k - 1], name[k])
      BY <2>2, Zenon DEF Values
    <3>2. \A k \in 0..(m - 1) : k \in 0..m
      BY <2>1
    <3> QED
      BY <3>1, <3>2, Zenon
  <2>4. \A k \in 0..m : g[k] = IF k = 0 THEN 0 ELSE Shifted(g[k - 1], name[k])
    <3> SUFFICES ASSUME NEW k \in 0..m
                 PROVE  g[k] = IF k = 0 THEN 0 ELSE Shifted(g[k - 1], name[k])
      OBVIOUS
    <3>1. g[k] = IF k = 0 THEN 0 ELSE Shifted(f[k - 1], name[k])
      BY Zenon
    <3>2. k # 0 => k - 1 \in 0..(m - 1)
      BY <2>1
    <3> HIDE DEF g
    <3> QED
      BY <2>3, <3>1, <3>2, Zenon
  <2>5. g = [k \in 0..m |-> g[k]]
    OBVIOUS
  <2> HIDE DEF g
  <2>6. Values(g, name, m)
    BY <2>4, <2>5, Zenon DEF Values
  <2> QED
    BY <1>2, <2>6
<1> QED
  BY <1>2, <1>3, <1>4

(* A prefix and a suffix of one word.                                      *)
Digit(word) == (Half * word[1]) + word[2]

LEMMA DigitIs ==
    ASSUME NEW word \in Seq(Syllable), Len(word) = 2
    PROVE  /\ Digit(word) \in 0..(Word - 1)
           /\ IntToPhonemeNonGalaxy[Digit(word)] = <<word>>
           /\ word[1] # 0 => Digit(word) >= Half
           /\ word # <<0, 0>> => Digit(word) # 0
<1> DEFINE p == word[1]
           s == word[2]
           d == Digit(word)
<1>0. /\ Half \in Nat \ {0} /\ Word = Half * Half /\ Word \in Nat
      /\ Word <= TwoWords * TwoWords /\ TwoWords * TwoWords \in Nat
  BY Sizes
<1>1. p \in 0..(Half - 1) /\ s \in 0..(Half - 1) /\ word = <<p, s>>
  <2>1. 1 \in 1..Len(word) /\ 2 \in 1..Len(word)
    OBVIOUS
  <2>2. p \in Syllable /\ s \in Syllable
    BY <2>1
  <2>3. word = <<p, s>>
    OBVIOUS
  <2> QED
    BY <2>2, <2>3 DEF Syllable
<1>2. d = (p * Half) + s
  <2>1. Half * p = p * Half
    BY <1>0, <1>1
  <2> QED
    BY <2>1 DEF Digit
<1> HIDE DEF d, p, s
<1>3. (p * Half) + s \in Nat
  BY <1>0, <1>1
<1>4. d \in 0..(Word - 1)
  <2>1. (p * Half) + s < Half * Half
    BY <1>0, <1>1, ProductBound
  <2> QED
    BY <1>0, <1>2, <1>3, <2>1
<1>5. d % Half = s /\ d \div Half = p
  <2>1. p \in Nat /\ s \in 0..(Half - 1)
    BY <1>0, <1>1
  <2>2. ((p * Half) + s) % Half = s /\ ((p * Half) + s) \div Half = p
    BY <1>0, <2>1, DivModUnique
  <2> QED
    BY <1>2, <2>2
<1>6. IntToPhonemeNonGalaxy[d] = <<word>>
  <2>1. d \in ULong /\ d < Word
    BY <1>0, <1>4 DEF ULong
  <2> QED
    BY <1>1, <1>5, <2>1, NonGalaxyIs
<1>7. p # 0 => d >= Half
  <2>1. \A h, q, r \in Nat : q # 0 => (q * h) + r >= h
    BY Z3
  <2> QED
    BY <1>0, <1>1, <1>2, <2>1
<1>8. word # <<0, 0>> => d # 0
  <2>1. p = 0 => d = s
    BY <1>0, <1>1, <1>2
  <2>2. p # 0 => d >= Half
    BY <1>7
  <2> QED
    BY <1>0, <1>1, <2>1, <2>2
<1> QED
  BY <1>4, <1>6, <1>7, <1>8 DEF d, p

(* The next word: nothing is shifted out of the 64 bits.                   *)
LEMMA NextWord ==
    ASSUME NEW b \in Nat, b * Word <= TwoWords * TwoWords,
           NEW v \in 0..(b - 1), NEW word \in Seq(Syllable), Len(word) = 2
    PROVE  /\ Shifted(v, word) \in 0..((b * Word) - 1)
           /\ v = 0 => Shifted(v, word) = Digit(word)
           /\ v # 0 => /\ Shifted(v, word) >= Word
                       /\ IntToPhonemeNonGalaxy[Shifted(v, word)]
                             = IntToPhonemeNonGalaxy[v] \o <<word>>
<1> DEFINE d == Digit(word)
           Q == TwoWords * TwoWords
           i == Shifted(v, word)
           c == b * Word
           vw == v * Word
<1>0. Word \in Nat \ {0} /\ Q \in Nat /\ Half \in Nat
  BY Sizes
<1>1. d \in 0..(Word - 1) /\ IntToPhonemeNonGalaxy[d] = <<word>>
  BY DigitIs
<1>2. vw \in Nat /\ v \in Nat /\ c \in Nat /\ c <= Q
  <2>1. \A x, y \in Nat : x * y \in Nat
    OBVIOUS
  <2> QED
    BY <1>0, <2>1
<1>3. vw + d < c
  <2>1. v < b
    OBVIOUS
  <2> QED
    BY <1>0, <1>1, <1>2, <2>1, ProductBound
<1>4. i = vw + d
  <2>0. vw \in 0..(Q - 1)
    <3> HIDE DEF vw, d, c, Q
    <3> QED
      BY <1>0, <1>1, <1>2, <1>3
  <2>1. vw % Q = vw
    <3>1. \A q \in Nat : \A x \in 0..(q - 1) : x % q = x
      BY Z3
    <3> HIDE DEF vw, Q
    <3> QED
      BY <1>0, <2>0, <3>1
  <2>2. i = (vw % Q) + (Half * word[1]) + word[2]
    BY DEF Shifted
  <2>3. word[1] \in Nat /\ word[2] \in Nat
    <3>1. word[1] \in Syllable /\ word[2] \in Syllable
      OBVIOUS
    <3> QED
      BY <1>0, <3>1 DEF Syllable
  <2>4. Half * word[1] \in Nat
    BY <1>0, <2>3
  <2> DEFINE hp == Half * word[1]
  <2>5. d = hp + word[2]
    BY DEF Digit
  <2> HIDE DEF hp, i, vw, d, Q
  <2> QED
    BY <1>2, <2>1, <2>2, <2>3, <2>4, <2>5 DEF hp
<1>5. i % Word = d /\ i \div Word = v
  <2>1. ((v * Word) + d) % Word = d /\ ((v * Word) + d) \div Word = v
    BY <1>0, <1>1, <1>2, DivModUnique
  <2> QED
    BY <1>4, <2>1
<1>6. i \in 0..(c - 1) /\ i \in ULong
  <2>1. ULong = 0..(Q - 1)
    BY DEF ULong
  <2> HIDE DEF i, vw, d, c, Q
  <2> QED
    BY <1>0, <1>1, <1>2, <1>3, <1>4, <2>1
<1>7. v = 0 => i = d
  <2>1. v = 0 => vw = 0
    BY <1>0
  <2> HIDE DEF i, vw, d
  <2> QED
    BY <1>1, <1>4, <2>1
<1>8. v # 0 => i >= Word
  <2>1. \A x, w, r \in Nat : x # 0 => (x * w) + r >= w
    BY Z3
  <2>2. v # 0 => (v * Word) + d >= Word
    BY <1>0, <1>1, <1>2, <2>1
  <2> QED
    BY <1>4, <2>2
<1>9. v # 0 => IntToPhonemeNonGalaxy[i] = IntToPhonemeNonGalaxy[v] \o <<word>>
  <2> SUFFICES ASSUME v # 0
               PROVE  IntToPhonemeNonGalaxy[i] = IntToPhonemeNonGalaxy[v] \o <<word>>
    OBVIOUS
  <2>1. i \in ULong /\ ~(i < Word)
    <3> HIDE DEF i
    <3> QED
      BY <1>0, <1>2, <1>6, <1>8 DEF ULong
  <2>2. IntToPhonemeNonGalaxy[i]
          = IntToPhonemeNonGalaxy[i \div Word] \o IntToPhonemeNonGalaxy[i % Word]
    BY <2>1, NonGalaxyIs
  <2> HIDE DEF i, d
  <2> QED
    BY <1>1, <1>5, <2>2
<1> QED
  BY <1>6, <1>7, <1>8, <1>9 DEF d

(* A name that a number is given is read as that number.                   *)
LEMMA NameRead ==
    ASSUME NEW name \in Seq(Seq(Syllable)), Canonical(name)
    PROVE  /\ PhonemeQToInt(name) \in ULong
           /\ IntToPhonemeQ(PhonemeQToInt(name)) = name
<1> DEFINE V == PhonemeQToInt(name)
           m == Len(name)
           G == IntToPhonemeNonGalaxy
           W == Word
           Q == TwoWords * TwoWords
<1>0. /\ W \in Nat /\ W >= 2 /\ Half \in Nat /\ Half >= 2 /\ Half <= W
      /\ Q \in Nat /\ Q = (W * W * W) * W /\ W <= Q /\ TwoWords = W * W
      /\ TwoWords \in Nat /\ TwoWords >= 1 /\ TwoWords <= Q
      /\ W * W * W \in Nat /\ W <= W * W * W
  BY Sizes
<1>1. m \in 1..4 /\ \A k \in 1..m : name[k] \in Seq(Syllable)
  BY DEF Canonical
<1>2. ULong = 0..(Q - 1)
  BY DEF ULong
<1>3. CASE m = 1 /\ Len(name[1]) = 1
  <2> DEFINE s == name[1][1]
  <2>1. V = s
    BY <1>3 DEF PhonemeQToInt
  <2>2. name[1] \in Seq(Syllable)
    BY <1>1
  <2>3. s \in Syllable
    BY <1>3, <2>2
  <2>4. s \in 0..(Half - 1)
    BY <2>3 DEF Syllable
  <2>5. name = <<name[1]>>
    BY <1>3
  <2>6. name[1] = <<s>>
    BY <1>3, <2>2
  <2> HIDE DEF s, V, Q
  <2>7. V \in ULong /\ V < Half
    <3>1. Half \in Nat /\ Q \in Nat /\ Half <= Q
      <4> HIDE DEF W
      <4> QED
        BY <1>0
    <3> QED
      BY <1>2, <2>1, <2>4, <3>1
  <2>8. IntToPhonemeQ(V) = << <<s>> >>
    BY <2>1, <2>7 DEF IntToPhonemeQ
  <2>9. IntToPhonemeQ(V) = name
    BY <2>5, <2>6, <2>8
  <2> QED
    BY <2>7, <2>9 DEF V
<1>4. CASE /\ \A k \in DOMAIN name : Len(name[k]) = 2
           /\ IF m = 1 THEN name[1][1] # 0 ELSE name[1] # <<0, 0>>
  <2>1. \A k \in 1..m : name[k] \in Seq(Syllable) /\ Len(name[k]) = 2
    BY <1>1, <1>4
  <2> DEFINE value[n \in 0..m] == IF n = 0 THEN 0 ELSE Shifted(value[n - 1], name[n])
  <2>2. V = value[m]
    <3>1. ~(Len(name) = 1 /\ Len(name[1]) = 1)
      <4>1. 1 \in 1..m
        <5> HIDE DEF m, G, V, Q, W
        <5> QED
          BY <1>1
      <4>2. Len(name[1]) = 2
        BY <2>1, <4>1, Zenon
      <4> QED
        BY <4>2
    <3>2. ~ \E k \in DOMAIN name : Len(name[k]) # 2
      BY <1>4
    <3> QED
      BY <3>1, <3>2, Zenon DEF PhonemeQToInt
  <2>3. value = CHOOSE f : Values(f, name, m)
    BY Zenon DEF Values
  <2> HIDE DEF value, m
  <2>4. Values(value, name, m)
    <3>1. m \in Nat
      BY <1>1
    <3> QED
      BY <2>3, <3>1, ValuesExist
  <2>5. value[0] = 0 /\ \A n \in 1..m : value[n] = Shifted(value[n - 1], name[n])
    <3>1. \A n \in 0..m : value[n] = IF n = 0 THEN 0 ELSE Shifted(value[n - 1], name[n])
      BY <2>4, Zenon DEF Values
    <3> QED
      BY <1>1, <3>1
  <2> HIDE DEF V, G, W, Q
  (* Word by word. *)
  <2>6. /\ value[1] \in 0..(W - 1) /\ value[1] = Digit(name[1])
        /\ G[value[1]] = <<name[1]>>
        /\ name[1][1] # 0 => value[1] >= Half
        /\ name[1] # <<0, 0>> => value[1] # 0
    <3>1. 1 \in 1..m /\ 1 - 1 = 0
      BY <1>1
    <3>2. value[1] = Shifted(0, name[1])
      BY <2>5, <3>1
    <3>3. Shifted(0, name[1]) = Digit(name[1])
      <4>1. 1 * Word <= TwoWords * TwoWords /\ 0 \in 0..(1 - 1) /\ 1 \in Nat
        BY <1>0 DEF W, Q
      <4> QED
        BY <2>1, <3>1, <4>1, NextWord
    <3> QED
      BY <2>1, <3>1, <3>2, <3>3, DigitIs DEF G, W
  <2>7. ASSUME m >= 2
        PROVE  /\ value[2] \in 0..((W * W) - 1) /\ value[2] >= W
               /\ G[value[2]] = <<name[1]>> \o <<name[2]>>
    <3>1. 2 \in 1..m /\ 2 - 1 = 1 /\ m # 1
      BY <1>1, <2>7
    <3>2. value[2] = Shifted(value[1], name[2])
      BY <2>5, <3>1
    <3>3. value[1] # 0
      BY <1>4, <2>6, <3>1
    <3>4. W * Word <= TwoWords * TwoWords
      BY <1>0 DEF W, Q
    <3>5. /\ Shifted(value[1], name[2]) \in 0..((W * Word) - 1)
          /\ Shifted(value[1], name[2]) >= Word
          /\ G[Shifted(value[1], name[2])] = G[value[1]] \o <<name[2]>>
      BY <1>0, <2>1, <2>6, <3>1, <3>3, <3>4, NextWord, ZenonT(60) DEF G
    <3> QED
      BY <2>6, <3>2, <3>5 DEF W
  <2>8. ASSUME m >= 3
        PROVE  /\ value[3] \in 0..((W * W * W) - 1) /\ value[3] >= W
               /\ G[value[3]] = (<<name[1]>> \o <<name[2]>>) \o <<name[3]>>
    <3>1. 3 \in 1..m /\ 3 - 1 = 2 /\ m >= 2
      BY <1>1, <2>8
    <3>2. value[3] = Shifted(value[2], name[3])
      BY <2>5, <3>1
    <3>3. value[2] # 0
      BY <1>0, <2>7, <3>1
    <3>4. (W * W) * Word <= TwoWords * TwoWords /\ W * W \in Nat
      <4>1. \A x, y \in Nat : y >= 1 => x <= x * y
        BY Z3
      <4>2. W * W * W <= (W * W * W) * W
        BY <1>0, <4>1
      <4> QED
        BY <1>0, <4>2 DEF W, Q
    <3>5. /\ Shifted(value[2], name[3]) \in 0..(((W * W) * Word) - 1)
          /\ Shifted(value[2], name[3]) >= Word
          /\ G[Shifted(value[2], name[3])] = G[value[2]] \o <<name[3]>>
      BY <1>0, <2>1, <2>7, <3>1, <3>3, <3>4, NextWord DEF G
    <3> QED
      BY <2>7, <3>1, <3>2, <3>5 DEF W
  <2>9. ASSUME m = 4
        PROVE  /\ value[4] \in 0..(((W * W * W) * W) - 1) /\ value[4] >= W
               /\ G[value[4]]
                    = ((<<name[1]>> \o <<name[2]>>) \o <<name[3]>>) \o <<name[4]>>
    <3>1. 4 \in 1..m /\ 4 - 1 = 3 /\ m >= 3
      BY <1>1, <2>9
    <3>2. value[4] = Shifted(value[3], name[4])
      BY <2>5, <3>1
    <3>3. value[3] # 0
      BY <1>0, <2>8, <3>1
    <3>4. (W * W * W) * Word <= TwoWords * TwoWords /\ W * W * W \in Nat
      BY <1>0 DEF W, Q
    <3>5. /\ Shifted(value[3], name[4]) \in 0..(((W * W * W) * Word) - 1)
          /\ Shifted(value[3], name[4]) >= Word
          /\ G[Shifted(value[3], name[4])] = G[value[3]] \o <<name[4]>>
      BY <1>0, <2>1, <2>8, <3>1, <3>3, <3>4, NextWord DEF G
    <3> QED
      BY <2>8, <3>1, <3>2, <3>5 DEF W
  <2>10. /\ value[m] \in ULong /\ value[m] >= Half
         /\ G[value[m]] = name
    <3>0. /\ Half \in Nat /\ W \in Nat /\ Q \in Nat /\ TwoWords \in Nat
          /\ Half <= W /\ W <= Q /\ TwoWords <= Q
      BY <1>0
    <3>1. CASE m = 1
      <4>1. value[1] >= Half /\ value[1] \in 0..(W - 1)
        BY <1>4, <2>6, <3>1, Zenon
      <4>2. name = <<name[1]>>
        BY <3>1 DEF m
      <4>3. value[1] \in ULong
        BY <1>2, <3>0, <4>1
      <4>4. G[value[1]] = name
        BY <2>6, <4>2, Zenon
      <4> QED
        BY <3>1, <4>1, <4>3, <4>4
    <3>2. CASE m = 2
      <4>1. name = <<name[1]>> \o <<name[2]>>
        BY <3>2 DEF m
      <4>0. m >= 2
        BY <3>2
      <4>2. value[2] \in 0..(TwoWords - 1)
        BY <1>0, <2>7, <4>0, Zenon
      <4>3. value[2] \in ULong
        BY <1>2, <3>0, <4>2
      <4>4. G[value[2]] = name
        BY <2>7, <4>0, <4>1, Zenon
      <4>5. value[2] >= W
        BY <2>7, <4>0, Zenon
      <4>6. value[2] >= Half
        BY <3>0, <4>2, <4>5
      <4> QED
        BY <3>2, <4>3, <4>4, <4>6
    <3>3. CASE m = 3
      <4>1. name = (<<name[1]>> \o <<name[2]>>) \o <<name[3]>>
        BY <3>3 DEF m
      <4> DEFINE c == W * W * W
      <4>2. c <= Q /\ c \in Nat
        <5>1. \A x, y \in Nat : y >= 1 => x <= x * y
          BY Z3
        <5>2. c <= c * W /\ Q = c * W
          BY <1>0, <5>1
        <5> QED
          BY <1>0, <5>2
      <4>0. m >= 3
        BY <3>3
      <4>3. value[3] \in 0..(c - 1)
        BY <2>8, <4>0, Zenon
      <4>5. value[3] >= W
        BY <2>8, <4>0, Zenon
      <4>4. G[value[3]] = name
        BY <2>8, <4>0, <4>1, Zenon
      <4> HIDE DEF c
      <4>6. value[3] \in ULong /\ value[3] >= Half
        BY <1>2, <3>0, <4>2, <4>3, <4>5
      <4> QED
        BY <3>3, <4>4, <4>6
    <3>4. CASE m = 4
      <4>1. name = ((<<name[1]>> \o <<name[2]>>) \o <<name[3]>>) \o <<name[4]>>
        BY <3>4 DEF m
      <4>2. value[4] \in 0..(Q - 1)
        BY <1>0, <2>9, <3>4, Zenon
      <4>3. value[4] >= W
        BY <2>9, <3>4, Zenon
      <4>4. G[value[4]] = name
        BY <2>9, <3>4, <4>1, Zenon
      <4>5. value[4] \in ULong /\ value[4] >= Half
        BY <1>2, <3>0, <4>2, <4>3
      <4> QED
        BY <3>4, <4>4, <4>5
    <3> QED
      BY <1>1, <3>1, <3>2, <3>3, <3>4
  <2>11. V \in ULong /\ V >= Half /\ G[V] = name
    BY <2>2, <2>10
  <2>12. ~(V < Half)
    BY <1>0, <1>2, <2>11
  <2> QED
    BY <2>11, <2>12 DEF IntToPhonemeQ, V, G
<1>5. \/ m = 1 /\ Len(name[1]) = 1
      \/ /\ \A k \in DOMAIN name : Len(name[k]) = 2
         /\ IF m = 1 THEN name[1][1] # 0 ELSE name[1] # <<0, 0>>
  BY DEF Canonical
<1> QED
  BY <1>3, <1>4, <1>5

(* The low half of a number, replaced.                                     *)
LEMMA InLowIs ==
    ASSUME NEW i \in ULong, NEW low \in Long
    PROVE  /\ InLow(i, low) \in ULong
           /\ InLow(i, low) % TwoWords = low
           /\ i % TwoWords \in Long
           /\ InLow(InLow(i, low), i % TwoWords) = i
<1> DEFINE T == TwoWords
           q == i \div T
           r == i % T
           j == InLow(i, low)
<1>0. T \in Nat \ {0} /\ T * T \in Nat /\ Long = 0..(T - 1) /\ ULong = 0..((T * T) - 1)
  BY Sizes DEF ULong
<1> HIDE DEF T
<1>1. i \in Nat /\ i < T * T
  BY <1>0
<1>2. r \in 0..(T - 1) /\ q \in Nat /\ i = (q * T) + r
  BY <1>0, <1>1, DivMod
<1>3. j = (i - r) + low
  BY DEF InLow, T
<1> HIDE DEF q, r, j
<1> DEFINE qt == q * T
<1>4. qt \in Nat /\ i = qt + r
  <2>1. \A x, y \in Nat : x * y \in Nat
    OBVIOUS
  <2> QED
    BY <1>0, <1>2, <2>1
<1>5. j = qt + low
  <2> HIDE DEF qt
  <2> QED
    BY <1>0, <1>2, <1>3, <1>4
<1>6. q < T
  BY <1>0, <1>1, <1>2, ProductBound
<1>7. qt + low < T * T
  BY <1>0, <1>2, <1>6, ProductBound
<1>8. j \in ULong
  <2> HIDE DEF qt
  <2> QED
    BY <1>0, <1>4, <1>5, <1>7
<1>9. j % T = low
  <2>1. ((q * T) + low) % T = low
    BY <1>0, <1>2, DivModUnique
  <2> QED
    BY <1>5, <2>1
<1>10. InLow(j, r) = i
  <2>1. InLow(j, r) = (j - low) + r
    BY <1>9 DEF InLow, T
  <2> HIDE DEF qt
  <2> QED
    BY <1>0, <1>2, <1>4, <1>5, <2>1
<1> QED
  BY <1>0, <1>2, <1>8, <1>9, <1>10 DEF T, r, j

(* Scramble leaves no number out.                                          *)
LEMMA ScrambleOnto ==
    ASSUME prf \in Hashes, NEW x \in Long
    PROVE  Unscramble(x) \in Long /\ Scramble(Unscramble(x)) = x
<1> DEFINE f == [m \in Long |-> Scramble(m)]
<1>1. Short \subseteq Long
  BY Sizes DEF Short
<1>2. \A m \in Long : Scramble(m) \in Long /\ Unscramble(Scramble(m)) = m
  BY <1>1, ScrambleUndoneForAll DEF ScrambleUndone
<1>3. f \in Injection(Long, Long)
  BY <1>2 DEF Injection, IsInjective
<1>4. IsFiniteSet(Long)
  <2>1. Long = 0..(TwoWords - 1) /\ 0 \in Int /\ TwoWords - 1 \in Int
    BY Sizes
  <2> QED
    BY <2>1, FS_Interval
<1>5. f \in Surjection(Long, Long)
  BY <1>3, <1>4, FS_Injection
<1>6. PICK m \in Long : f[m] = x
  BY <1>5 DEF Surjection
<1> QED
  BY <1>2, <1>6

(* A name that a number is given is looked up as that number.              *)
LEMMA NameLookedUp ==
    ASSUME prf \in Hashes, NEW name \in Seq(Seq(Syllable)), Canonical(name)
    PROVE  /\ PhonemeToInt(name) \in ULong
           /\ IntToPhoneme(PhonemeToInt(name)) = name
<1> DEFINE V == PhonemeQToInt(name)
           low == Unscramble(V % TwoWords)
<1>1. V \in ULong /\ IntToPhonemeQ(V) = name
  BY NameRead
<1>2. V # NotAName
  BY <1>1 DEF ULong, NotAName
<1>3. PhonemeToInt(name) = InLow(V, low)
  BY <1>2 DEF PhonemeToInt
<1> HIDE DEF V
<1>4. V % TwoWords \in Long
  <2>1. 0 \in Long
    BY Sizes
  <2> QED
    BY <1>1, <2>1, InLowIs
<1>5. low \in Long /\ Scramble(low) = V % TwoWords
  BY <1>4, ScrambleOnto
<1> HIDE DEF low
<1>6. /\ InLow(V, low) \in ULong
      /\ InLow(V, low) % TwoWords = low
      /\ InLow(InLow(V, low), V % TwoWords) = V
  BY <1>1, <1>5, InLowIs
<1>7. IntToPhoneme(InLow(V, low)) = name
  BY <1>1, <1>5, <1>6 DEF IntToPhoneme
<1> QED
  BY <1>3, <1>6, <1>7

(* What the last query looked up: the table has the row that it printed,   *)
(* or a later one.                                                         *)
LookedUp ==
    /\ asked = NoName \/ asked \in Typed
    /\ answer[2] \in Nat
    /\ asked # NoName /\ PhonemeToInt(asked) # NotAName =>
          /\ answer[1] = PhonemeToInt(asked)
          /\ answer[2] <= GetPoint(AzimuthNumber(answer[1]))

(* murmur3 is one function: a name keeps its number.                       *)
LEMMA NumberKept ==
    ASSUME UNCHANGED prf, NEW CONSTANT name, asked' = name
    PROVE  PhonemeToInt(asked)' = PhonemeToInt(name)
BY DEF PhonemeToInt, Unscramble, Fynd, Undo, Parted

LEMMA RowsGrow ==
    ASSUME Asked, DiffNext
    PROVE  \A n \in Point : table[n] <= table'[n]
<1>1. CASE table' = table
  BY <1>1 DEF Asked
<1>2. ASSUME NEW n \in Point, table' = [table EXCEPT ![n] = @ + 1]
      PROVE  \A m \in Point : table[m] <= table'[m]
  <2>1. table'[n] = table[n] + 1 /\ \A m \in Point \ {n} : table'[m] = table[m]
    BY <1>2 DEF Asked
  <2>2. \A m \in Point : table[m] \in Nat
    BY DEF Asked
  <2> QED
    BY <2>1, <2>2
<1>3. DiffNext => \/ table' = table
                  \/ \E n \in Point : table' = [table EXCEPT ![n] = @ + 1]
  BY DEF DiffNext, Plays, CheckPoints, RollerFails, AskRoller, EmptyAnswer, Asks, replays
<1> QED
  BY <1>1, <1>2, <1>3

LEMMA LookedUpNext ==
    prf \in Hashes /\ Asked /\ LookedUp /\ [Next]_vars => LookedUp'
<1> SUFFICES ASSUME prf \in Hashes, Asked, LookedUp, [Next]_vars PROVE LookedUp'
  OBVIOUS
<1>0. UNCHANGED prf
  BY PrfKept
<1>1. CASE UNCHANGED vars
  <2>1. UNCHANGED <<asked, answer, table>>
    BY <1>1 DEF vars, query_vars, replays
  <2>2. PhonemeToInt(asked)' = PhonemeToInt(asked)
    BY <1>0, <2>1 DEF PhonemeToInt, Unscramble, Fynd, Undo, Parted
  <2>3. GetPoint(AzimuthNumber(answer[1]))' = GetPoint(AzimuthNumber(answer[1]))
    BY <2>1 DEF GetPoint, AzimuthNumber
  <2> QED
    BY <2>1, <2>2, <2>3 DEF LookedUp
<1>2. CASE Diff
  <2>1. CASE at' # at
    <3>1. asked' = NoName /\ answer' = NoAnswer
      BY <1>2, <2>1 DEF Diff
    <3> QED
      BY <3>1 DEF LookedUp, NoAnswer, NotFound
  <2>2. CASE at' = at
    <3>1. UNCHANGED <<asked, answer>> /\ DiffNext
      BY <1>2, <2>2 DEF Diff
    <3>2. PhonemeToInt(asked)' = PhonemeToInt(asked)
      BY <1>0, <3>1 DEF PhonemeToInt, Unscramble, Fynd, Undo, Parted
    <3> DEFINE n == AzimuthNumber(answer[1])
    <3>3. GetPoint(n) \in Nat /\ GetPoint(n)' \in Nat /\ GetPoint(n) <= GetPoint(n)'
      <4>1. n' = n
        BY <3>1 DEF AzimuthNumber
      <4>2. \A m \in Point : table[m] \in Nat /\ table'[m] \in Nat /\ table[m] <= table'[m]
        BY <1>2, <3>1, AskedNext, RowsGrow DEF Asked, Next
      <4> HIDE DEF n
      <4> QED
        BY <4>1, <4>2 DEF GetPoint, NotFound
    <3>4. answer'[2] = answer[2] /\ answer'[1] = answer[1] /\ answer[2] \in Nat
      BY <3>1 DEF LookedUp
    <3>5. GetPoint(AzimuthNumber(answer[1]))' = GetPoint(n)'
      OBVIOUS
    <3> HIDE DEF n
    <3>6. answer[2] <= GetPoint(n) => answer'[2] <= GetPoint(n)'
      BY <3>3, <3>4
    <3>7. asked # NoName /\ PhonemeToInt(asked) # NotAName =>
            /\ answer[1] = PhonemeToInt(asked)
            /\ answer[2] <= GetPoint(n)
      BY DEF LookedUp, n
    <3>8. asked' = asked
      BY <3>1
    <3> QED
      BY <3>2, <3>4, <3>5, <3>6, <3>7, <3>8 DEF LookedUp
  <2> QED
    BY <2>1, <2>2
<1>3. ASSUME NEW name \in Typed, Query(name) PROVE LookedUp'
  <2>1. asked' = name /\ table' = table
    BY <1>3 DEF Query, replays
  <2>2. PhonemeToInt(asked)' = PhonemeToInt(name)
    BY <1>0, <2>1, NumberKept
  <2> DEFINE point == PhonemeToInt(name)
  <2>3. answer' = IF point = NotAName THEN NoAnswer
                  ELSE <<point, GetPoint(AzimuthNumber(point))>>
    BY <1>3 DEF Query
  <2> HIDE DEF point
  <2>4. GetPoint(AzimuthNumber(point)) \in Nat
    BY DEF GetPoint, NotFound, Asked
  <2>5. CASE point = NotAName
    <3>1. answer'[2] = 0
      BY <2>3, <2>5 DEF NoAnswer, NotFound
    <3> QED
      BY <2>1, <2>2, <2>5, <3>1 DEF LookedUp, point
  <2>6. CASE point # NotAName
    <3>1. answer'[1] = point /\ answer'[2] = GetPoint(AzimuthNumber(point))
      BY <2>3, <2>6
    <3>2. GetPoint(AzimuthNumber(answer[1]))' = GetPoint(AzimuthNumber(point))
      BY <2>1, <3>1 DEF GetPoint, AzimuthNumber
    <3>3. answer'[2] \in Nat /\ answer'[2] <= GetPoint(AzimuthNumber(answer[1]))'
      BY <2>4, <3>1, <3>2
    <3> QED
      BY <2>1, <2>2, <3>1, <3>3 DEF LookedUp, point
  <2> QED
    BY <2>5, <2>6
<1> QED
  BY <1>1, <1>2, <1>3 DEF Next

LEMMA LookedUpNames == prf \in Hashes /\ Asked /\ LookedUp => NamesItself
<1> SUFFICES ASSUME prf \in Hashes, Asked, LookedUp, Canonical(asked)
             PROVE  /\ answer[1] \in ULong
                    /\ IntToPhoneme(answer[1]) = asked
                    /\ answer[2] <= GetPoint(answer[1] % TwoWords)
  BY DEF NamesItself
<1>1. asked # NoName
  BY DEF Canonical, NoName
<1>2. asked \in Seq(Seq(Syllable))
  BY <1>1, InspectAssumption DEF LookedUp
<1>3. PhonemeToInt(asked) \in ULong /\ IntToPhoneme(PhonemeToInt(asked)) = asked
  BY <1>2, NameLookedUp
<1>4. PhonemeToInt(asked) # NotAName
  BY <1>3 DEF ULong, NotAName
<1> QED
  BY <1>1, <1>3, <1>4 DEF LookedUp, AzimuthNumber

(* A query of a name that some number is given, of up to four words, looks *)
(* up the number with that name and no other, whatever murmur3 computes    *)
(* and for words of any size, and what it prints is a row of that point.   *)
THEOREM QueriesFindTheNamed == Spec => []NamesItself
<1>1. Init => prf \in Hashes /\ Asked /\ LookedUp
  <2>1. Init => prf \in Hashes /\ LookedUp
    BY DEF Init, LookedUp, NoAnswer, NotFound
  <2> QED
    BY <2>1, AskedInit
<1>2. prf \in Hashes /\ [Next]_vars => (prf \in Hashes)'
  BY PrfKept
<1> QED
  BY <1>1, <1>2, AskedNext, LookedUpNext, LookedUpNames, PTL DEF Spec
=============================================================================
