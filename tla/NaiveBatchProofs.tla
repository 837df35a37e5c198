--------------------------- MODULE NaiveBatchProofs ---------------------------
(***************************************************************************)
(* Proofs about the batch parser, for fields and signatures of any width,  *)
(* any transactions whose opcodes take at most three arguments, and any    *)
(* number of zeros cut from the front of the batch.                        *)
(***************************************************************************)
EXTENDS NaiveBatch, Least, SequenceTheorems, TLAPS

-----------------------------------------------------------------------------
(* FlattenSeq.                                                             *)

(* f has the pieces of s one after the other, up to the n-th.              *)
Flat(f, s, n) == f = [k \in 1..n |-> IF k = 1 THEN s[k] ELSE f[k - 1] \o s[k]]

LEMMA FlatExists ==
    ASSUME NEW s, NEW n \in Nat
    PROVE  \E f : Flat(f, s, n)
<1> DEFINE Missing == {m \in Nat : ~ \E f : Flat(f, s, m)}
<1>1. SUFFICES ASSUME Missing # {} PROVE FALSE
  OBVIOUS
<1>2. PICK m \in Missing : \A l \in Missing : m <= l
  BY <1>1, LeastOf
<1>3. CASE m = 0
  <2> DEFINE f == [k \in 1..0 |-> s]
  <2>1. Flat(f, s, 0)
    BY DEF Flat
  <2> QED
    BY <1>2, <1>3, <2>1
<1>4. CASE m > 0
  <2>1. m - 1 \in Nat /\ m - 1 \notin Missing
    BY <1>2, <1>4
  <2>2. PICK f : Flat(f, s, m - 1)
    BY <2>1
  <2> DEFINE g == [k \in 1..m |-> IF k = 1 THEN s[k]
                                 ELSE IF k = m THEN f[k - 1] \o s[k] ELSE f[k]]
  <2>3. \A k \in 1..(m - 1) : g[k] = f[k]
    BY <2>1, <2>2 DEF Flat
  <2>4. \A k \in 1..m : g[k] = IF k = 1 THEN s[k] ELSE g[k - 1] \o s[k]
    <3> SUFFICES ASSUME NEW k \in 1..m PROVE g[k] = IF k = 1 THEN s[k] ELSE g[k - 1] \o s[k]
      OBVIOUS
    <3>1. CASE k = 1
      BY <3>1
    <3>2. CASE k # 1 /\ k = m
      <4>1. g[k] = f[k - 1] \o s[k]
        BY <3>2
      <4>2. k - 1 \in 1..(m - 1)
        BY <3>2, <2>1
      <4> QED
        BY <4>1, <4>2, <2>3, <3>2
    <3>3. CASE k # 1 /\ k # m
      <4>1. k \in 1..(m - 1) /\ k - 1 \in 1..(m - 1)
        BY <3>3, <2>1
      <4>2. f[k] = f[k - 1] \o s[k]
        BY <2>2, <3>3, <4>1 DEF Flat
      <4> QED
        BY <4>1, <4>2, <2>3, <3>3
    <3> QED
      BY <3>1, <3>2, <3>3
  <2>5. Flat(g, s, m)
    <3>1. g = [k \in 1..m |-> g[k]]
      OBVIOUS
    <3> HIDE DEF g
    <3> QED
      BY <2>4, <3>1 DEF Flat
  <2> QED
    BY <1>2, <2>5
<1> QED
  BY <1>2, <1>3, <1>4

LEMMA Joined ==
    ASSUME NEW a \in Seq(Byte), NEW b \in Seq(Byte)
    PROVE  /\ a \o b \in Seq(Byte)
           /\ Len(a) \in Nat /\ Len(b) \in Nat /\ Len(a \o b) = Len(a) + Len(b)
           /\ \A k \in 1..Len(a) : (a \o b)[k] = a[k]
           /\ \A k \in 1..Len(b) : (a \o b)[Len(a) + k] = b[k]
OBVIOUS

(* g[n] has the first n pieces of s.                                       *)
Layout(g, s) == /\ g \in [0..Len(s) -> Seq(Byte)]
                /\ g[0] = <<>>
                /\ \A n \in 1..Len(s) : g[n] = g[n - 1] \o s[n]

LEMMA Flattened ==
    ASSUME NEW s \in Seq(Seq(Byte))
    PROVE  \E g : Layout(g, s) /\ FlattenSeq(s) = g[Len(s)]
<1>0. Len(s) \in Nat /\ \A n \in 1..Len(s) : s[n] \in Seq(Byte)
  OBVIOUS
<1>1. CASE Len(s) = 0
  <2> DEFINE g == [n \in 0..0 |-> <<>>]
  <2>1. FlattenSeq(s) = s /\ s = <<>>
    BY <1>1 DEF FlattenSeq
  <2>2. Layout(g, s)
    BY <1>1, EmptySeq DEF Layout
  <2> QED
    BY <1>1, <2>1, <2>2
<1>2. CASE Len(s) > 0
  <2> DEFINE flatten[k \in 1..Len(s)] == IF k = 1 THEN s[k] ELSE flatten[k - 1] \o s[k]
  <2>1. FlattenSeq(s) = flatten[Len(s)]
    BY <1>2 DEF FlattenSeq
  <2>2. flatten = CHOOSE f : Flat(f, s, Len(s))
    BY DEF Flat
  <2>3. Flat(flatten, s, Len(s))
    BY <1>0, <2>2, FlatExists
  <2> HIDE DEF flatten
  <2>4. \A k \in 1..Len(s) : flatten[k] = IF k = 1 THEN s[k] ELSE flatten[k - 1] \o s[k]
    BY <2>3 DEF Flat
  <2> DEFINE Bad == {k \in Nat : k \in 1..Len(s) /\ flatten[k] \notin Seq(Byte)}
  <2>5. Bad = {}
    <3> SUFFICES ASSUME Bad # {} PROVE FALSE
      OBVIOUS
    <3>1. PICK k \in Bad : \A l \in Bad : k <= l
      BY LeastOf
    <3>2. CASE k = 1
      BY <1>0, <2>4, <3>1, <3>2
    <3>3. CASE k # 1
      <4>1. k - 1 \in 1..Len(s) /\ k - 1 \notin Bad
        BY <1>0, <3>1, <3>3
      <4>2. flatten[k - 1] \in Seq(Byte)
        BY <4>1
      <4>3. flatten[k] = flatten[k - 1] \o s[k] /\ s[k] \in Seq(Byte)
        BY <1>0, <2>4, <3>1, <3>3
      <4>4. flatten[k] \in Seq(Byte)
        BY <4>2, <4>3, ConcatProperties
      <4> QED
        BY <3>1, <4>4
    <3> QED
      BY <3>2, <3>3
  <2>6. \A k \in 1..Len(s) : flatten[k] \in Seq(Byte)
    BY <2>5
  <2> DEFINE g == [n \in 0..Len(s) |-> IF n = 0 THEN <<>> ELSE flatten[n]]
  <2>7. g \in [0..Len(s) -> Seq(Byte)] /\ g[0] = <<>> /\ g[Len(s)] = FlattenSeq(s)
    BY <1>0, <1>2, <2>1, <2>6, EmptySeq
  <2>8. \A n \in 1..Len(s) : g[n] = g[n - 1] \o s[n]
    <3> SUFFICES ASSUME NEW n \in 1..Len(s) PROVE g[n] = g[n - 1] \o s[n]
      OBVIOUS
    <3>1. CASE n = 1
      <4>1. <<>> \o s[n] = s[n]
        BY <1>0, ConcatEmptySeq
      <4> QED
        BY <1>0, <2>4, <3>1, <4>1
    <3>2. CASE n # 1
      <4>1. n - 1 \in 1..Len(s) /\ n \in 0..Len(s) /\ n - 1 \in 0..Len(s)
        BY <1>0, <3>2
      <4>2. g[n] = flatten[n] /\ g[n - 1] = flatten[n - 1]
        BY <4>1
      <4> QED
        BY <2>4, <3>2, <4>2
    <3> QED
      BY <3>1, <3>2
  <2> HIDE DEF g
  <2>9. Layout(g, s)
    BY <2>7, <2>8 DEF Layout
  <2> QED
    BY <2>7, <2>9
<1> QED
  BY <1>0, <1>1, <1>2

(* What comes first stays first.                                           *)
LEMMA LayoutGrows ==
    ASSUME NEW s, Len(s) \in Nat, NEW g, Layout(g, s),
           \A n \in 1..Len(s) : s[n] \in Seq(Byte),
           NEW l \in 0..Len(s), NEW m \in l..Len(s)
    PROVE  /\ Len(g[l]) <= Len(g[m])
           /\ \A k \in 1..Len(g[l]) : g[m][k] = g[l][k]
<1> DEFINE Begins(n) == /\ Len(g[l]) <= Len(g[n])
                        /\ \A k \in 1..Len(g[l]) : g[n][k] = g[l][k]
           Bad == {n \in Nat : n \in l..Len(s) /\ ~Begins(n)}
<1>0. \A n \in 0..Len(s) : g[n] \in Seq(Byte) /\ Len(g[n]) \in Nat
  BY DEF Layout
<1>1. Bad = {}
  <2> SUFFICES ASSUME Bad # {} PROVE FALSE
    OBVIOUS
  <2>1. PICK n \in Bad : \A j \in Bad : n <= j
    BY LeastOf
  <2>2. n # l
    BY <1>0, <2>1
  <2>3. n - 1 \in l..Len(s) /\ n - 1 \in Nat /\ n - 1 \notin Bad /\ n \in 1..Len(s)
    BY <2>1, <2>2
  <2>4. Begins(n - 1)
    BY <2>3
  <2> DEFINE before == g[n - 1]
             piece == s[n]
             after == g[n]
             first == g[l]
  <2>5. /\ before \in Seq(Byte) /\ piece \in Seq(Byte) /\ first \in Seq(Byte)
        /\ after = before \o piece
    <3>1. after = before \o piece
      BY <2>3 DEF Layout
    <3>2. n - 1 \in 0..Len(s) /\ l \in 0..Len(s)
      BY <2>3
    <3> QED
      BY <1>0, <2>3, <3>1, <3>2
  <2>6. /\ Len(first) <= Len(before)
        /\ \A k \in 1..Len(first) : before[k] = first[k]
    BY <2>4
  <2>7. Len(first) <= Len(after) /\ \A k \in 1..Len(first) : after[k] = first[k]
    <3> HIDE DEF before, piece, after, first
    <3> QED
      BY <2>5, <2>6, Joined
  <2>8. Begins(n)
    BY <2>7
  <2> QED
    BY <2>1, <2>8
<1>2. m \in Nat /\ m \notin Bad
  BY <1>1
<1>3. Begins(m)
  BY <1>2
<1> QED
  BY <1>3

(* Up to three pieces.                                                     *)
LEMMA FlattenedFew ==
    ASSUME NEW s \in Seq(Seq(Byte))
    PROVE  /\ Len(s) = 0 => FlattenSeq(s) = <<>>
           /\ Len(s) = 1 => FlattenSeq(s) = s[1]
           /\ Len(s) = 2 => FlattenSeq(s) = s[1] \o s[2]
           /\ Len(s) = 3 => FlattenSeq(s) = (s[1] \o s[2]) \o s[3]
<1>0. Len(s) \in Nat /\ \A n \in 1..Len(s) : s[n] \in Seq(Byte)
  OBVIOUS
<1>1. PICK g : Layout(g, s) /\ FlattenSeq(s) = g[Len(s)]
  BY Flattened
<1>2. \A n \in 1..Len(s) : g[n] = g[n - 1] \o s[n]
  BY <1>1 DEF Layout
<1>3. g[0] = <<>>
  BY <1>1 DEF Layout
<1>4. ASSUME Len(s) >= 1 PROVE g[1] = s[1]
  <2>1. 1 \in 1..Len(s) /\ s[1] \in Seq(Byte) /\ 1 - 1 = 0
    BY <1>0, <1>4
  <2>2. g[1] = g[1 - 1] \o s[1]
    BY <1>2, <2>1
  <2> QED
    BY <1>3, <2>1, <2>2, ConcatEmptySeq
<1>5. ASSUME Len(s) >= 2 PROVE g[2] = s[1] \o s[2]
  <2>1. 2 \in 1..Len(s) /\ 2 - 1 = 1
    BY <1>0, <1>5
  <2>2. g[2] = g[1] \o s[2]
    BY <1>2, <2>1
  <2>3. Len(s) >= 1
    BY <1>0, <1>5
  <2> QED
    BY <1>4, <2>2, <2>3, Zenon
<1>6. ASSUME Len(s) >= 3 PROVE g[3] = (s[1] \o s[2]) \o s[3]
  <2>1. 3 \in 1..Len(s) /\ 3 - 1 = 2
    BY <1>0, <1>6
  <2>2. g[3] = g[2] \o s[3]
    BY <1>2, <2>1
  <2>3. Len(s) >= 2
    BY <1>0, <1>6
  <2> QED
    BY <1>5, <2>2, <2>3, Zenon
<1>7. Len(s) = 3 => FlattenSeq(s) = (s[1] \o s[2]) \o s[3]
  BY <1>1, <1>6
<1>8. Len(s) = 2 => FlattenSeq(s) = s[1] \o s[2]
  BY <1>1, <1>5
<1>9. Len(s) = 1 => FlattenSeq(s) = s[1]
  BY <1>1, <1>4
<1> QED
  BY <1>1, <1>3, <1>7, <1>8, <1>9

-----------------------------------------------------------------------------
(* The arguments of a transaction.                                         *)

LEMMA Widths ==
    ASSUME NEW op
    PROVE  /\ Arguments(op) = Takes(op)
           /\ Len(Arguments(op)) \in 0..3
           /\ DOMAIN Arguments(op) = 1..Len(Arguments(op))
           /\ \A n \in 1..Len(Arguments(op)) : Arguments(op)[n] \in Nat \ {0}
<1>1. {SignatureBytes, ShipBytes, AddressBytes, KeyBytes} \subseteq Nat \ {0}
  BY WidthAssumption
<1>2. Arguments(op) = Takes(op)
  BY DEF Arguments, Takes
<1>3. CASE op \in {0, 8, 9, 10}
  <2>1. Arguments(op) = <<AddressBytes>>
    BY <1>3 DEF Arguments
  <2> QED
    BY <1>1, <1>2, <2>1
<1>4. CASE op = 1
  <2>1. Arguments(op) = <<ShipBytes, AddressBytes>>
    BY <1>4 DEF Arguments
  <2> QED
    BY <1>1, <1>2, <2>1
<1>5. CASE op = 2
  <2>1. Arguments(op) = <<KeyBytes, KeyBytes, ShipBytes>>
    BY <1>5 DEF Arguments
  <2> QED
    BY <1>1, <1>2, <2>1
<1>6. CASE op \in 3..7
  <2>1. Arguments(op) = <<ShipBytes>>
    BY <1>6 DEF Arguments
  <2> QED
    BY <1>1, <1>2, <2>1
<1>7. CASE op \notin {0, 1, 2, 8, 9, 10} /\ op \notin 3..7
  BY <1>2, <1>7 DEF Arguments
<1> QED
  BY <1>3, <1>4, <1>5, <1>6, <1>7

(* Where the arguments start, each before the one that is read before it.  *)
LEMMA ArgumentsRead ==
    ASSUME NEW op, NEW end \in Int
    PROVE  LET w    == Arguments(op)
               args == ReadArguments(op, end)
           IN /\ DOMAIN args = 1..Len(w)
              /\ Len(w) >= 1 => args[1] = GetBatch(end - w[1], end)
              /\ Len(w) >= 2 => args[2] = GetBatch(end - w[1] - w[2], end - w[1])
              /\ Len(w) >= 3 =>
                    args[3] = GetBatch(end - w[1] - w[2] - w[3], end - w[1] - w[2])
<1> DEFINE w == Arguments(op)
           start[n \in 0..Len(w)] == IF n = 0 THEN end ELSE start[n - 1] - w[n]
<1>0. Len(w) \in 0..3 /\ DOMAIN w = 1..Len(w) /\ \A n \in 1..Len(w) : w[n] \in Nat \ {0}
  BY Widths
<1>1. ReadArguments(op, end) = [n \in DOMAIN w |-> GetBatch(start[n], start[n - 1])]
  BY Zenon DEF ReadArguments
<1>2. start = CHOOSE f : f = [n \in 0..Len(w) |-> IF n = 0 THEN end ELSE f[n - 1] - w[n]]
  OBVIOUS
<1>3. \E f : f = [n \in 0..Len(w) |-> IF n = 0 THEN end ELSE f[n - 1] - w[n]]
  <2> DEFINE f == [n \in 0..Len(w) |-> IF n = 0 THEN end
                                       ELSE IF n = 1 THEN end - w[1]
                                       ELSE IF n = 2 THEN end - w[1] - w[2]
                                       ELSE end - w[1] - w[2] - w[3]]
  <2> HIDE DEF w
  <2>1. ASSUME NEW n \in 0..Len(w)
        PROVE  f[n] = IF n = 0 THEN end ELSE f[n - 1] - w[n]
    <3>1. n = 0 \/ n = 1 \/ n = 2 \/ n = 3
      BY <1>0
    <3> QED
      BY <1>0, <3>1
  <2>2. f = [n \in 0..Len(w) |-> f[n]]
    OBVIOUS
  <2> HIDE DEF f
  <2>3. f = [n \in 0..Len(w) |-> IF n = 0 THEN end ELSE f[n - 1] - w[n]]
    BY <2>1, <2>2
  <2> QED
    BY <2>3
<1> HIDE DEF w
<1>4. start = [n \in 0..Len(w) |-> IF n = 0 THEN end ELSE start[n - 1] - w[n]]
  BY <1>2, <1>3
<1> HIDE DEF start
<1>5. /\ start[0] = end
      /\ \A n \in 1..Len(w) : start[n] = start[n - 1] - w[n]
  <2>1. \A n \in 0..Len(w) : start[n] = IF n = 0 THEN end ELSE start[n - 1] - w[n]
    BY <1>4, Zenon
  <2> QED
    BY <1>0, <2>1
<1>6. ASSUME Len(w) >= 1 PROVE start[1] = end - w[1]
  BY <1>0, <1>5, <1>6
<1>7. ASSUME Len(w) >= 2 PROVE start[2] = end - w[1] - w[2]
  BY <1>0, <1>5, <1>6, <1>7
<1>8. ASSUME Len(w) >= 3 PROVE start[3] = end - w[1] - w[2] - w[3]
  BY <1>0, <1>5, <1>7, <1>8
<1>9. DOMAIN ReadArguments(op, end) = 1..Len(w)
  BY <1>0, <1>1
<1>10. \A n \in 1..Len(w) :
         ReadArguments(op, end)[n] = GetBatch(start[n], start[n - 1])
  BY <1>0, <1>1
<1> QED
  BY <1>0, <1>5, <1>6, <1>7, <1>8, <1>9, <1>10 DEF w

(* How many bytes the arguments take, up to three of them.                 *)
Total(w) == (IF Len(w) > 0 THEN w[1] ELSE 0) + (IF Len(w) > 1 THEN w[2] ELSE 0)
              + (IF Len(w) > 2 THEN w[3] ELSE 0)

LEMMA TotalIs ==
    ASSUME NEW w, Len(w) \in 0..3, \A n \in 1..Len(w) : w[n] \in Nat
    PROVE  /\ Total(w) \in Nat
           /\ Len(w) = 0 => Total(w) = 0
           /\ Len(w) = 1 => Total(w) = w[1]
           /\ Len(w) = 2 => Total(w) = w[1] + w[2]
           /\ Len(w) = 3 => Total(w) = w[1] + w[2] + w[3]
<1>1. Len(w) > 0 => w[1] \in Nat
  OBVIOUS
<1>2. Len(w) > 1 => w[2] \in Nat
  OBVIOUS
<1>3. Len(w) > 2 => w[3] \in Nat
  OBVIOUS
<1> QED
  BY <1>1, <1>2, <1>3 DEF Total

(* The arguments as they are in the bytes, first bytes first.              *)
LEMMA Backwards ==
    ASSUME NEW a \in Seq(Seq(Byte)), Len(a) \in 0..3
    PROVE  /\ Len(a) = 0 => FlattenSeq(Reverse(a)) = <<>>
           /\ Len(a) = 1 => FlattenSeq(Reverse(a)) = a[1]
           /\ Len(a) = 2 => FlattenSeq(Reverse(a)) = a[2] \o a[1]
           /\ Len(a) = 3 => FlattenSeq(Reverse(a)) = (a[3] \o a[2]) \o a[1]
<1> DEFINE r == Reverse(a)
<1>1. r \in Seq(Seq(Byte)) /\ Len(r) = Len(a)
  BY DEF Reverse
<1>2. \A n \in 1..Len(a) : r[n] = a[(Len(a) - n) + 1]
  BY DEF Reverse
<1> HIDE DEF r
<1>3. Len(a) = 0 => FlattenSeq(r) = <<>>
  BY <1>1, FlattenedFew
<1>4. ASSUME Len(a) = 1 PROVE FlattenSeq(r) = a[1]
  <2>1. FlattenSeq(r) = r[1]
    BY <1>1, <1>4, FlattenedFew
  <2>2. r[1] = a[1]
    BY <1>2, <1>4
  <2> QED
    BY <2>1, <2>2
<1>5. ASSUME Len(a) = 2 PROVE FlattenSeq(r) = a[2] \o a[1]
  <2>1. FlattenSeq(r) = r[1] \o r[2]
    BY <1>1, <1>5, FlattenedFew
  <2>2. r[1] = a[2] /\ r[2] = a[1]
    BY <1>2, <1>5
  <2> QED
    BY <2>1, <2>2
<1>6. ASSUME Len(a) = 3 PROVE FlattenSeq(r) = (a[3] \o a[2]) \o a[1]
  <2>1. FlattenSeq(r) = (r[1] \o r[2]) \o r[3]
    BY <1>1, <1>6, FlattenedFew
  <2>2. r[1] = a[3] /\ r[2] = a[2] /\ r[3] = a[1]
    BY <1>2, <1>6
  <2> QED
    BY <2>1, <2>2
<1> QED
  BY <1>3, <1>4, <1>5, <1>6 DEF r

LEMMA FlattenedLength ==
    ASSUME NEW a \in Seq(Seq(Byte)), NEW w, Len(w) \in 0..3, Len(w) = Len(a),
           \A n \in 1..Len(w) : Len(a[n]) = w[n]
    PROVE  Len(FlattenSeq(a)) = Total(w)
<1>1. \A n \in 1..Len(a) : a[n] \in Seq(Byte) /\ Len(a[n]) \in Nat
  OBVIOUS
<1>2. \A n \in 1..Len(w) : w[n] \in Nat
  BY <1>1
<1>3. CASE Len(w) = 0
  <2>1. FlattenSeq(a) = <<>>
    BY <1>3, FlattenedFew
  <2>2. Total(w) = 0
    BY <1>2, <1>3, TotalIs
  <2> QED
    BY <2>1, <2>2
<1>4. CASE Len(w) = 1
  <2>1. FlattenSeq(a) = a[1]
    BY <1>4, FlattenedFew
  <2>2. Total(w) = w[1]
    BY <1>2, <1>4, TotalIs
  <2> QED
    BY <1>4, <2>1, <2>2
<1>5. CASE Len(w) = 2
  <2>1. FlattenSeq(a) = a[1] \o a[2]
    BY <1>5, FlattenedFew
  <2>2. Total(w) = w[1] + w[2]
    BY <1>2, <1>5, TotalIs
  <2>3. a[1] \in Seq(Byte) /\ a[2] \in Seq(Byte) /\ Len(a[1]) = w[1] /\ Len(a[2]) = w[2]
    BY <1>1, <1>5
  <2>4. Len(a[1] \o a[2]) = Len(a[1]) + Len(a[2])
    BY <2>3, Joined
  <2> QED
    BY <2>1, <2>2, <2>3, <2>4
<1>6. CASE Len(w) = 3
  <2>1. FlattenSeq(a) = (a[1] \o a[2]) \o a[3]
    BY <1>6, FlattenedFew
  <2>2. Total(w) = w[1] + w[2] + w[3]
    BY <1>2, <1>6, TotalIs
  <2>3. /\ a[1] \in Seq(Byte) /\ a[2] \in Seq(Byte) /\ a[3] \in Seq(Byte)
        /\ Len(a[1]) = w[1] /\ Len(a[2]) = w[2] /\ Len(a[3]) = w[3]
    BY <1>1, <1>6
  <2>4. a[1] \o a[2] \in Seq(Byte) /\ Len(a[1] \o a[2]) = Len(a[1]) + Len(a[2])
    BY <2>3, Joined
  <2>5. Len((a[1] \o a[2]) \o a[3]) = Len(a[1] \o a[2]) + Len(a[3])
    BY <2>3, <2>4, Joined
  <2> QED
    BY <2>1, <2>2, <2>3, <2>4, <2>5
<1> QED
  BY <1>3, <1>4, <1>5, <1>6

-----------------------------------------------------------------------------
(* The bytes of the batch.                                                 *)

LEMMA GetBatchBytes ==
    ASSUME batch \in Seq(Byte), NEW a \in Int, NEW b \in Int, a <= b, b <= Len(batch)
    PROVE  /\ GetBatch(a, b) \in Seq(Byte)
           /\ Len(GetBatch(a, b)) = b - a
           /\ \A k \in 1..(b - a) :
                 GetBatch(a, b)[k] = IF a + k < 1 THEN 0 ELSE batch[a + k]
<1>1. \A k \in 1..(b - a) : (IF a + k < 1 THEN 0 ELSE batch[a + k]) \in Byte
  <2>1. 0 \in Byte
    BY DEF Byte
  <2>2. ASSUME NEW k \in 1..(b - a), ~(a + k < 1) PROVE batch[a + k] \in Byte
    <3>1. a + k \in 1..Len(batch)
      BY <2>2
    <3> QED
      BY <3>1, ElementOfSeq
  <2> QED
    BY <2>1, <2>2
<1>2. b - a \in Nat
  OBVIOUS
<1> QED
  BY <1>1, <1>2 DEF GetBatch

LEMMA GetBatchJoined ==
    ASSUME batch \in Seq(Byte), NEW a \in Int, NEW b \in Int, NEW c \in Int,
           a <= b, b <= c, c <= Len(batch)
    PROVE  GetBatch(a, b) \o GetBatch(b, c) = GetBatch(a, c)
<1> DEFINE x == GetBatch(a, b)
           y == GetBatch(b, c)
           z == GetBatch(a, c)
<1>1. /\ x \in Seq(Byte) /\ Len(x) = b - a
      /\ \A k \in 1..(b - a) : x[k] = IF a + k < 1 THEN 0 ELSE batch[a + k]
  <2>1. b <= Len(batch)
    OBVIOUS
  <2> QED
    BY <2>1, GetBatchBytes
<1>2. /\ y \in Seq(Byte) /\ Len(y) = c - b
      /\ \A k \in 1..(c - b) : y[k] = IF b + k < 1 THEN 0 ELSE batch[b + k]
  BY GetBatchBytes
<1>3. /\ z \in Seq(Byte) /\ Len(z) = c - a
      /\ \A k \in 1..(c - a) : z[k] = IF a + k < 1 THEN 0 ELSE batch[a + k]
  <2>1. a <= c
    OBVIOUS
  <2> QED
    BY <2>1, GetBatchBytes
<1> HIDE DEF x, y, z
<1>4. /\ x \o y \in Seq(Byte) /\ Len(x \o y) = Len(x) + Len(y)
      /\ \A k \in 1..Len(x) : (x \o y)[k] = x[k]
      /\ \A k \in 1..Len(y) : (x \o y)[Len(x) + k] = y[k]
  BY <1>1, <1>2, Joined
<1>5. ASSUME NEW k \in 1..Len(z) PROVE (x \o y)[k] = z[k]
  <2>0. k \in Int /\ b - a \in Int
    OBVIOUS
  <2>1. CASE k <= b - a
    BY <1>1, <1>3, <1>4, <2>1
  <2>2. CASE k > b - a
    <3>1. k - (b - a) \in 1..Len(y) /\ k = Len(x) + (k - (b - a))
      BY <1>1, <1>2, <1>3, <2>2
    <3>2. (x \o y)[k] = y[k - (b - a)]
      BY <1>4, <3>1
    <3>3. b + (k - (b - a)) = a + k
      BY <1>3
    <3> QED
      BY <1>2, <1>3, <3>1, <3>2, <3>3
  <2>3. k <= b - a \/ k > b - a
    BY <2>0
  <2> QED
    BY <2>1, <2>2, <2>3
<1>6. x \o y = z
  <2>1. Len(x \o y) = Len(z)
    BY <1>1, <1>2, <1>3, <1>4
  <2> QED
    BY <1>3, <1>4, <1>5, <2>1, SeqEqual
<1> QED
  BY <1>6 DEF x, y, z

LEMMA ByteThere ==
    ASSUME batch \in Seq(Byte), NEW at \in Int, at < Len(batch), Len(batch) > 0
    PROVE  /\ ByteAt(at) \in Byte
           /\ at >= 0 => /\ ByteAt(at) = batch[at + 1]
                         /\ GetBatch(at, at + 1) = <<ByteAt(at)>>
<1> DEFINE m == Max({0, at})
<1>1. m = IF at < 0 THEN 0 ELSE at
  <2>1. m = CHOOSE x \in {0, at} : \A y \in {0, at} : x >= y
    BY Zenon DEF Max
  <2>2. CASE at < 0
    <3>1. \A x \in {0, at} : (\A y \in {0, at} : x >= y) <=> x = 0
      BY <2>2
    <3>2. 0 \in {0, at}
      OBVIOUS
    <3> QED
      BY <2>1, <2>2, <3>1, <3>2
  <2>3. CASE at >= 0
    <3>1. \A x \in {0, at} : (\A y \in {0, at} : x >= y) <=> x = at
      BY <2>3
    <3>2. at \in {0, at}
      OBVIOUS
    <3>3. m = at
      BY <2>1, <3>1, <3>2
    <3> QED
      BY <2>3, <3>3
  <2> QED
    BY <2>2, <2>3
<1>2. m + 1 \in 1..Len(batch)
  BY <1>1
<1>3. ByteAt(at) = batch[m + 1]
  BY DEF ByteAt
<1> HIDE DEF m
<1>4. ByteAt(at) \in Byte
  BY <1>2, <1>3
<1>5. ASSUME at >= 0
      PROVE  ByteAt(at) = batch[at + 1] /\ GetBatch(at, at + 1) = <<ByteAt(at)>>
  <2>1. ByteAt(at) = batch[at + 1]
    BY <1>1, <1>3, <1>5
  <2>2. (at + 1) - at = 1 /\ ~(at + 1 < 1)
    BY <1>5
  <2>3. GetBatch(at, at + 1) = [k \in 1..1 |-> IF at + k < 1 THEN 0 ELSE batch[at + k]]
    BY <2>2 DEF GetBatch
  <2>4. \A k \in 1..1 : (IF at + k < 1 THEN 0 ELSE batch[at + k]) = ByteAt(at)
    BY <2>1, <2>2
  <2>5. GetBatch(at, at + 1) = [k \in 1..1 |-> ByteAt(at)]
    BY <2>3, <2>4
  <2> QED
    BY <2>1, <2>5
<1> QED
  BY <1>4, <1>5
-----------------------------------------------------------------------------
(* One transaction.                                                        *)

(* The arguments are the bytes before the opcode.                          *)
LEMMA ArgumentBytes ==
    ASSUME batch \in Seq(Byte), NEW op, NEW end \in Int, end <= Len(batch)
    PROVE  LET w    == Arguments(op)
               args == ReadArguments(op, end)
           IN /\ args \in Seq(Seq(Byte)) /\ Len(args) = Len(w)
              /\ \A n \in 1..Len(w) : Len(args[n]) = w[n]
              /\ FlattenSeq(Reverse(args)) = GetBatch(end - Total(w), end)
              /\ Len(FlattenSeq(args)) = Total(w)
<1> DEFINE w == Arguments(op)
           args == ReadArguments(op, end)
<1>1. Len(w) \in 0..3 /\ \A n \in 1..Len(w) : w[n] \in Nat \ {0}
  BY Widths
<1>2. /\ DOMAIN args = 1..Len(w)
      /\ Len(w) >= 1 => args[1] = GetBatch(end - w[1], end)
      /\ Len(w) >= 2 => args[2] = GetBatch(end - w[1] - w[2], end - w[1])
      /\ Len(w) >= 3 => args[3] = GetBatch(end - w[1] - w[2] - w[3], end - w[1] - w[2])
  BY ArgumentsRead
<1>3. args = [n \in 1..Len(w) |-> args[n]]
  BY <1>2 DEF ReadArguments
<1> HIDE DEF w, args
<1>4. ASSUME Len(w) >= 1
      PROVE  args[1] \in Seq(Byte) /\ Len(args[1]) = w[1]
  <2>1. w[1] \in Nat
    BY <1>1, <1>4
  <2>2. end - w[1] \in Int /\ end - w[1] <= end /\ end - (end - w[1]) = w[1]
    BY <2>1
  <2> QED
    BY <1>2, <1>4, <2>2, GetBatchBytes
<1>5. ASSUME Len(w) >= 2
      PROVE  args[2] \in Seq(Byte) /\ Len(args[2]) = w[2]
  <2>1. w[1] \in Nat /\ w[2] \in Nat
    BY <1>1, <1>5
  <2> DEFINE a == end - w[1] - w[2]
             b == end - w[1]
  <2>2. a \in Int /\ b \in Int /\ a <= b /\ b - a = w[2] /\ b <= Len(batch)
    BY <2>1
  <2>3. args[2] = GetBatch(a, b)
    BY <1>2, <1>5
  <2> HIDE DEF a, b
  <2> QED
    BY <2>2, <2>3, GetBatchBytes
<1>6. ASSUME Len(w) >= 3
      PROVE  args[3] \in Seq(Byte) /\ Len(args[3]) = w[3]
  <2>1. w[1] \in Nat /\ w[2] \in Nat /\ w[3] \in Nat
    BY <1>1, <1>6
  <2> DEFINE a == end - w[1] - w[2] - w[3]
             b == end - w[1] - w[2]
  <2>2. a \in Int /\ b \in Int /\ a <= b /\ b - a = w[3] /\ b <= end
    <3>1. a \in Int /\ b \in Int
      BY <2>1
    <3>2. b - a = w[3] /\ end - b = w[1] + w[2]
      BY <2>1
    <3> HIDE DEF a, b
    <3> QED
      BY <2>1, <3>1, <3>2
  <2>4. b <= Len(batch)
    <3> HIDE DEF a, b
    <3> QED
      BY <2>2
  <2>3. args[3] = GetBatch(a, b)
    BY <1>2, <1>6
  <2> HIDE DEF a, b
  <2> QED
    BY <2>2, <2>3, <2>4, GetBatchBytes
<1>7. \A n \in 1..Len(w) : args[n] \in Seq(Byte) /\ Len(args[n]) = w[n]
  <2> SUFFICES ASSUME NEW n \in 1..Len(w) PROVE args[n] \in Seq(Byte) /\ Len(args[n]) = w[n]
    OBVIOUS
  <2>1. n = 1 \/ (n = 2 /\ Len(w) >= 2) \/ (n = 3 /\ Len(w) >= 3)
    BY <1>1
  <2>2. Len(w) >= 1
    BY <1>1
  <2> QED
    BY <1>4, <1>5, <1>6, <2>1, <2>2
<1>8. args \in Seq(Seq(Byte)) /\ Len(args) = Len(w)
  BY <1>1, <1>3, <1>7
<1>9. Len(FlattenSeq(args)) = Total(w)
  BY <1>1, <1>7, <1>8, FlattenedLength
<1>10. /\ Len(w) = 0 => Total(w) = 0
       /\ Len(w) = 1 => Total(w) = w[1]
       /\ Len(w) = 2 => Total(w) = w[1] + w[2]
       /\ Len(w) = 3 => Total(w) = w[1] + w[2] + w[3]
  BY <1>1, TotalIs
<1>11. /\ Len(w) = 0 => FlattenSeq(Reverse(args)) = <<>>
       /\ Len(w) = 1 => FlattenSeq(Reverse(args)) = args[1]
       /\ Len(w) = 2 => FlattenSeq(Reverse(args)) = args[2] \o args[1]
       /\ Len(w) = 3 => FlattenSeq(Reverse(args)) = (args[3] \o args[2]) \o args[1]
  BY <1>1, <1>8, Backwards
<1>12. FlattenSeq(Reverse(args)) = GetBatch(end - Total(w), end)
  <2>0. CASE Len(w) = 0
    <3>1. GetBatch(end, end) \in Seq(Byte) /\ Len(GetBatch(end, end)) = 0
      BY GetBatchBytes
    <3>2. end - Total(w) = end
      BY <1>10, <2>0
    <3> QED
      BY <1>11, <2>0, <3>1, <3>2
  <2>1. CASE Len(w) = 1
    BY <1>2, <1>10, <1>11, <2>1
  <2>2. CASE Len(w) = 2
    <3>1. w[1] \in Nat /\ w[2] \in Nat
      BY <1>1, <2>2
    <3> DEFINE a == end - w[1] - w[2]
               b == end - w[1]
    <3>2. a \in Int /\ b \in Int /\ a <= b /\ b <= end
      BY <3>1
    <3>3. args[2] = GetBatch(a, b) /\ args[1] = GetBatch(b, end)
      BY <1>2, <2>2
    <3>4. end - Total(w) = a
      BY <1>10, <2>2, <3>1
    <3> HIDE DEF a, b
    <3>5. GetBatch(a, b) \o GetBatch(b, end) = GetBatch(a, end)
      BY <3>2, GetBatchJoined
    <3> QED
      BY <1>11, <2>2, <3>3, <3>4, <3>5, Zenon
  <2>3. CASE Len(w) = 3
    <3>1. w[1] \in Nat /\ w[2] \in Nat /\ w[3] \in Nat
      BY <1>1, <2>3
    <3> DEFINE a == end - w[1] - w[2] - w[3]
               b == end - w[1] - w[2]
               c == end - w[1]
    <3>2. /\ a \in Int /\ b \in Int /\ c \in Int
          /\ a <= b /\ b <= c /\ c <= end /\ a <= c /\ c <= Len(batch)
      <4>1. Len(batch) \in Int
        OBVIOUS
      <4>2. a \in Int /\ b \in Int /\ c \in Int
        BY <3>1
      <4>3. b - a = w[3] /\ c - b = w[2] /\ end - c = w[1]
        BY <3>1
      <4> HIDE DEF a, b, c
      <4> QED
        BY <3>1, <4>1, <4>2, <4>3
    <3>3. args[3] = GetBatch(a, b) /\ args[2] = GetBatch(b, c) /\ args[1] = GetBatch(c, end)
      BY <1>2, <2>3
    <3>4. end - Total(w) = a
      BY <1>10, <2>3, <3>1
    <3> HIDE DEF a, b, c
    <3>5. GetBatch(a, b) \o GetBatch(b, c) = GetBatch(a, c)
      BY <3>2, GetBatchJoined
    <3>6. GetBatch(a, c) \o GetBatch(c, end) = GetBatch(a, end)
      BY <3>2, GetBatchJoined
    <3> QED
      BY <1>11, <2>3, <3>3, <3>4, <3>5, <3>6
  <2> QED
    BY <1>1, <2>0, <2>1, <2>2, <2>3
<1> QED
  BY <1>7, <1>8, <1>9, <1>12 DEF w, args

(* The bytes that are signed: arguments, opcode, ship and proxy.           *)
Bytes(a, o, b, p) == a \o <<o>> \o b \o <<p>>

LEMMA RawLaid ==
    ASSUME NEW a \in Seq(Byte), NEW b \in Seq(Byte), NEW p \in Byte, NEW y \in Byte
    PROVE  /\ Bytes(a, y, b, p) \in Seq(Byte)
           /\ Len(Bytes(a, y, b, p)) = Len(a) + Len(b) + 2
           /\ \A k \in 1..(Len(a) + Len(b) + 2) :
                 Bytes(a, y, b, p)[k] =
                    IF k <= Len(a) THEN a[k]
                    ELSE IF k = Len(a) + 1 THEN y
                    ELSE IF k <= Len(a) + 1 + Len(b) THEN b[k - (Len(a) + 1)]
                    ELSE p
<1> DEFINE raw == Bytes(a, y, b, p)
<1>1. <<y>> \in Seq(Byte) /\ Len(<<y>>) = 1 /\ <<y>>[1] = y
  OBVIOUS
<1>2. <<p>> \in Seq(Byte) /\ Len(<<p>>) = 1 /\ <<p>>[1] = p
  OBVIOUS
<1>3. Len(a) \in Nat /\ Len(b) \in Nat
  OBVIOUS
<1> DEFINE c == a \o <<y>>
           d == c \o b
<1>4. /\ c \in Seq(Byte) /\ Len(c) = Len(a) + 1
      /\ \A k \in 1..(Len(a) + 1) : c[k] = IF k <= Len(a) THEN a[k] ELSE y
  <2>1. \A k \in 1..Len(a) + Len(<<y>>) :
          c[k] = IF k <= Len(a) THEN a[k] ELSE <<y>>[k - Len(a)]
    BY <1>1, ConcatProperties
  <2>2. c \in Seq(Byte) /\ Len(c) = Len(a) + Len(<<y>>)
    BY <1>1, ConcatProperties
  <2> HIDE DEF c
  <2>3. ASSUME NEW k \in 1..(Len(a) + 1) PROVE c[k] = IF k <= Len(a) THEN a[k] ELSE y
    <3>1. k <= Len(a) \/ k - Len(a) = 1
      BY <1>3
    <3> QED
      BY <1>1, <2>1, <3>1
  <2> QED
    BY <1>1, <2>2, <2>3
<1> HIDE DEF c
<1>5. /\ d \in Seq(Byte) /\ Len(d) = Len(a) + 1 + Len(b)
      /\ \A k \in 1..(Len(a) + 1 + Len(b)) :
            d[k] = IF k <= Len(a) + 1 THEN c[k] ELSE b[k - (Len(a) + 1)]
  <2>1. \A k \in 1..Len(c) + Len(b) :
          d[k] = IF k <= Len(c) THEN c[k] ELSE b[k - Len(c)]
    BY <1>4, ConcatProperties
  <2>2. d \in Seq(Byte) /\ Len(d) = Len(c) + Len(b)
    BY <1>4, ConcatProperties
  <2> HIDE DEF d
  <2> QED
    BY <1>4, <2>1, <2>2
<1>6. raw = d \o <<p>>
  BY DEF c, Bytes
<1> HIDE DEF d, raw
<1>7. /\ raw \in Seq(Byte) /\ Len(raw) = Len(a) + Len(b) + 2
      /\ \A k \in 1..(Len(a) + Len(b) + 2) :
            raw[k] = IF k <= Len(a) + 1 + Len(b) THEN d[k] ELSE p
  <2> DEFINE e == d \o <<p>>
  <2>3. \A k \in 1..Len(d) + Len(<<p>>) :
          e[k] = IF k <= Len(d) THEN d[k] ELSE <<p>>[k - Len(d)]
    BY <1>2, <1>5, ConcatProperties
  <2>4. e \in Seq(Byte) /\ Len(e) = Len(d) + Len(<<p>>)
    BY <1>2, <1>5, ConcatProperties
  <2> HIDE DEF e
  <2>1. /\ raw \in Seq(Byte) /\ Len(raw) = Len(d) + 1
        /\ \A k \in 1..(Len(d) + 1) :
              raw[k] = IF k <= Len(d) THEN d[k] ELSE <<p>>[k - Len(d)]
    BY <1>2, <1>6, <2>3, <2>4 DEF e
  <2>2. ASSUME NEW k \in 1..(Len(a) + Len(b) + 2)
        PROVE  raw[k] = IF k <= Len(a) + 1 + Len(b) THEN d[k] ELSE p
    <3>1. k <= Len(d) \/ k - Len(d) = 1
      BY <1>3, <1>5
    <3> QED
      BY <1>2, <1>3, <1>5, <2>1, <3>1
  <2> QED
    BY <1>3, <1>5, <2>1, <2>2
<1> QED
  BY <1>3, <1>4, <1>5, <1>7 DEF raw

(* Another byte in the place of the opcode.                                *)
LEMMA OpcodeReplaced ==
    ASSUME NEW a \in Seq(Byte), NEW b \in Seq(Byte), NEW p \in Byte,
           NEW o \in Byte, NEW x \in Byte
    PROVE  /\ Len(Bytes(a, o, b, p)) = Len(a) + Len(b) + 2
           /\ Bytes(a, o, b, p)[Len(a) + 1] = o
           /\ [Bytes(a, o, b, p) EXCEPT ![Len(a) + 1] = x] = Bytes(a, x, b, p)
<1> DEFINE whole(y) == Bytes(a, y, b, p)
<1>1. ASSUME NEW y \in Byte
      PROVE  /\ whole(y) \in Seq(Byte) /\ Len(whole(y)) = Len(a) + Len(b) + 2
             /\ \A k \in 1..(Len(a) + Len(b) + 2) :
                   whole(y)[k] = IF k <= Len(a) THEN a[k]
                               ELSE IF k = Len(a) + 1 THEN y
                               ELSE IF k <= Len(a) + 1 + Len(b) THEN b[k - (Len(a) + 1)]
                               ELSE p
  BY RawLaid
<1> HIDE DEF whole
<1>2. Len(a) \in Nat /\ Len(b) \in Nat
  OBVIOUS
<1>3. whole(o)[Len(a) + 1] = o
  <2>1. Len(a) + 1 \in 1..(Len(a) + Len(b) + 2) /\ ~(Len(a) + 1 <= Len(a))
    BY <1>2
  <2> QED
    BY <1>1, <2>1
<1> DEFINE e == [whole(o) EXCEPT ![Len(a) + 1] = x]
<1>4. /\ e \in Seq(Byte) /\ Len(e) = Len(whole(o))
      /\ \A k \in 1..Len(whole(o)) : e[k] = IF k = Len(a) + 1 THEN x ELSE whole(o)[k]
  <2>1. Len(a) + 1 \in 1..Len(whole(o)) /\ whole(o) \in Seq(Byte)
    BY <1>1, <1>2
  <2> QED
    BY <2>1, ExceptSeq
<1> HIDE DEF e
<1>5. ASSUME NEW k \in 1..Len(e) PROVE e[k] = whole(x)[k]
  <2>1. k \in 1..Len(whole(o)) /\ k \in 1..(Len(a) + Len(b) + 2)
    BY <1>1, <1>4
  <2>2. CASE k = Len(a) + 1
    <3>1. ~(k <= Len(a))
      BY <1>2, <2>2
    <3> QED
      BY <1>1, <1>4, <2>1, <2>2, <3>1
  <2>3. CASE k # Len(a) + 1
    <3>1. e[k] = whole(o)[k]
      BY <1>4, <2>1, <2>3
    <3> QED
      BY <1>1, <2>1, <2>3, <3>1
  <2> QED
    BY <2>2, <2>3
<1>6. e = whole(x)
  <2>1. whole(x) \in Seq(Byte) /\ Len(e) = Len(whole(x))
    BY <1>1, <1>4
  <2> QED
    BY <1>4, <1>5, <2>1, SeqEqual
<1>7. Len(whole(o)) = Len(a) + Len(b) + 2
  BY <1>1
<1> QED
  BY <1>3, <1>6, <1>7, Zenon DEF whole, e

(* What a round of the loop reads.                                         *)
ParsedTx == [signature : Seq(Byte), proxy : Byte, ship : Seq(Byte), opcode : 0..127,
             flag : BOOLEAN, args : Seq(Seq(Byte)), raw : Seq(Byte)]

(* Where the opcode is, when the signature ends with byte i.               *)
OpAt == i - SignatureBytes - 1 - ShipBytes - 1

Read == LET opcode == ByteAt(OpAt) % 128
            args   == ReadArguments(opcode, OpAt)
        IN [signature |-> GetBatch(i - SignatureBytes, i),
            proxy     |-> ByteAt(i - SignatureBytes - 1),
            ship      |-> GetBatch(i - SignatureBytes - 1 - ShipBytes, i - SignatureBytes - 1),
            opcode    |-> opcode,
            flag      |-> HasFlag(opcode) /\ ByteAt(OpAt) < 128,
            args      |-> args,
            raw       |-> GetBatch(OpAt - Total(Arguments(opcode)), i - SignatureBytes)]

LEMMA ParseTxReads ==
    ASSUME batch \in Seq(Byte), i \in Int, i <= Len(batch), ParseTx
    PROVE  /\ i > 0 /\ i - SignatureBytes >= 0
           /\ ret' = Append(ret, Read)
           /\ i' = OpAt - Total(Arguments(Read.opcode))
           /\ sent' = sent /\ cut' = cut /\ batch' = batch
<1> DEFINE opcode == ByteAt(OpAt) % 128
           args == ReadArguments(opcode, OpAt)
<1>1. {SignatureBytes, ShipBytes} \subseteq Nat \ {0}
  BY WidthAssumption
<1>2. OpAt \in Int /\ OpAt <= Len(batch)
  BY <1>1 DEF OpAt
<1>3. Len(FlattenSeq(args)) = Total(Arguments(opcode))
  BY <1>2, ArgumentBytes
<1>4. i' = OpAt - Len(FlattenSeq(args))
  BY DEF ParseTx, OpAt
<1>5. ret' = Append(ret, [signature |-> GetBatch(i - SignatureBytes, i),
                          proxy     |-> ByteAt(i - SignatureBytes - 1),
                          ship      |-> GetBatch(i - SignatureBytes - 1 - ShipBytes,
                                                 i - SignatureBytes - 1),
                          opcode    |-> opcode,
                          flag      |-> HasFlag(opcode) /\ ByteAt(OpAt) < 128,
                          args      |-> args,
                          raw       |-> GetBatch(i', i - SignatureBytes)])
  BY DEF ParseTx, OpAt
<1>6. i > 0 /\ i - SignatureBytes >= 0 /\ sent' = sent /\ cut' = cut /\ batch' = batch
  BY DEF ParseTx
<1>7. Read.opcode = opcode
  BY DEF Read
<1>8. i' = OpAt - Total(Arguments(opcode))
  BY <1>3, <1>4
<1>9. ret' = Append(ret, Read)
  BY <1>5, <1>8 DEF Read
<1> QED
  BY <1>6, <1>7, <1>8, <1>9

(* The fields that a round reads, and the bytes it verifies: all the bytes *)
(* from the arguments on when the opcode is there.                         *)
LEMMA ReadFields ==
    ASSUME batch \in Seq(Byte), i \in Int, i <= Len(batch), i > 0, i - SignatureBytes >= 0
    PROVE  /\ Read \in ParsedTx
           /\ Len(Read.signature) = SignatureBytes /\ Len(Read.ship) = ShipBytes
           /\ Len(FlattenSeq(Read.args)) = Total(Arguments(Read.opcode))
           /\ OpAt \in Int /\ OpAt < i /\ Total(Arguments(Read.opcode)) \in Nat
<1> DEFINE opcode == ByteAt(OpAt) % 128
           w == Arguments(opcode)
           S == SignatureBytes
           mark == i - S
<1>1. S \in Nat \ {0} /\ ShipBytes \in Nat \ {0}
  BY WidthAssumption
<1>2. OpAt \in Int /\ OpAt < Len(batch) /\ OpAt < i /\ OpAt <= mark /\ OpAt <= Len(batch)
  BY <1>1 DEF OpAt
<1>3. ByteAt(OpAt) \in Byte /\ opcode \in 0..127
  <2>1. ByteAt(OpAt) \in Byte
    BY <1>2, ByteThere
  <2>2. \A b \in Byte : b % 128 \in 0..127
    BY DEF Byte
  <2> QED
    BY <2>1, <2>2
<1>4. ByteAt(mark - 1) \in Byte
  <2>1. mark - 1 \in Int /\ mark - 1 < Len(batch)
    BY <1>1
  <2> QED
    BY <2>1, ByteThere
<1>5. GetBatch(mark, i) \in Seq(Byte) /\ Len(GetBatch(mark, i)) = S
  <2>1. mark \in Int /\ mark <= i /\ i - mark = S
    BY <1>1
  <2> HIDE DEF mark, S
  <2> QED
    BY <2>1, GetBatchBytes
<1>6. /\ GetBatch(mark - 1 - ShipBytes, mark - 1) \in Seq(Byte)
      /\ Len(GetBatch(mark - 1 - ShipBytes, mark - 1)) = ShipBytes
  <2> DEFINE a == mark - 1 - ShipBytes
             b == mark - 1
  <2>1. a \in Int /\ b \in Int /\ a <= b /\ b <= Len(batch) /\ b - a = ShipBytes
    BY <1>1
  <2> HIDE DEF a, b
  <2>2. GetBatch(a, b) \in Seq(Byte) /\ Len(GetBatch(a, b)) = ShipBytes
    BY <2>1, GetBatchBytes
  <2> QED
    BY <2>2 DEF a, b
<1>7. /\ ReadArguments(opcode, OpAt) \in Seq(Seq(Byte))
      /\ Len(FlattenSeq(ReadArguments(opcode, OpAt))) = Total(w)
  BY <1>2, ArgumentBytes
<1>8. Total(w) \in Nat
  <2>1. Len(w) \in 0..3 /\ \A n \in 1..Len(w) : w[n] \in Nat
    BY Widths
  <2> HIDE DEF w
  <2> QED
    BY <2>1, TotalIs
<1>9. GetBatch(OpAt - Total(w), mark) \in Seq(Byte)
  <2> HIDE DEF w
  <2>1. OpAt - Total(w) \in Int /\ OpAt - Total(w) <= mark /\ mark <= Len(batch) /\ mark \in Int
    BY <1>1, <1>2, <1>8
  <2> QED
    BY <2>1, GetBatchBytes
<1>10. (HasFlag(opcode) /\ ByteAt(OpAt) < 128) \in BOOLEAN
  BY DEF HasFlag
<1>11. Read = [signature |-> GetBatch(mark, i), proxy |-> ByteAt(mark - 1),
               ship |-> GetBatch(mark - 1 - ShipBytes, mark - 1), opcode |-> opcode,
               flag |-> HasFlag(opcode) /\ ByteAt(OpAt) < 128,
               args |-> ReadArguments(opcode, OpAt),
               raw |-> GetBatch(OpAt - Total(w), mark)]
  BY DEF Read
<1> HIDE DEF opcode, w, mark, S
<1>12. Read \in ParsedTx
  BY <1>3, <1>4, <1>5, <1>6, <1>7, <1>9, <1>10, <1>11 DEF ParsedTx
<1> QED
  BY <1>2, <1>5, <1>6, <1>7, <1>8, <1>11, <1>12 DEF S, w

(* The bytes that the signature of what was read is verified over.         *)
LEMMA ReadAgrees ==
    ASSUME batch \in Seq(Byte), i \in Int, i <= Len(batch), i > 0, i - SignatureBytes >= 0,
           OpAt >= 0
    PROVE  Agrees(Read)
<1> DEFINE o == ByteAt(OpAt)
           opcode == o % 128
           w == Arguments(opcode)
           mark == i - SignatureBytes
           from == OpAt - Total(w)
           A == GetBatch(from, OpAt)
           B == GetBatch(OpAt + 1, mark - 1)
           p == ByteAt(mark - 1)
           op == IF HasFlag(opcode) THEN o ELSE opcode
<1>0. SignatureBytes \in Nat \ {0} /\ ShipBytes \in Nat \ {0}
  BY WidthAssumption
<1>1. /\ OpAt \in Int /\ OpAt < Len(batch) /\ mark \in Int /\ mark <= Len(batch)
      /\ OpAt + 1 <= mark - 1 /\ mark - 1 >= 0 /\ mark - 1 < Len(batch)
      /\ OpAt + 1 = mark - 1 - ShipBytes
  BY <1>0 DEF OpAt
<1>2. Total(w) \in Nat
  <2>1. Len(w) \in 0..3 /\ \A n \in 1..Len(w) : w[n] \in Nat
    BY Widths
  <2> HIDE DEF w
  <2> QED
    BY <2>1, TotalIs
<1>3. o \in 0..255 /\ GetBatch(OpAt, OpAt + 1) = <<o>>
  BY <1>1, ByteThere DEF Byte
<1>4. p \in Byte /\ GetBatch(mark - 1, mark) = <<p>>
  <2>1. (mark - 1) + 1 = mark /\ mark - 1 \in Int
    BY <1>1
  <2> HIDE DEF mark
  <2> QED
    BY <1>1, <2>1, ByteThere
<1>5. Read = [signature |-> GetBatch(mark, i), proxy |-> p, ship |-> B, opcode |-> opcode,
              flag |-> HasFlag(opcode) /\ o < 128, args |-> ReadArguments(opcode, OpAt),
              raw |-> GetBatch(from, mark)]
  BY <1>1 DEF Read
<1>6. FlattenSeq(Reverse(ReadArguments(opcode, OpAt))) = A
  <2>1. OpAt <= Len(batch)
    BY <1>1
  <2> QED
    BY <1>1, <2>1, ArgumentBytes
<1>7. from \in Int /\ from <= OpAt
  <2> HIDE DEF w
  <2> QED
    BY <1>1, <1>2
<1>8. opcode \in 0..127 /\ (o < 128 => opcode = o) /\ (o >= 128 => opcode + 128 = o)
  <2>1. \A b \in 0..255 : /\ b % 128 \in 0..127
                          /\ b < 128 => b % 128 = b
                          /\ b >= 128 => (b % 128) + 128 = b
    OBVIOUS
  <2> HIDE DEF o
  <2> QED
    BY <1>3, <2>1
<1> HIDE DEF o, opcode, w, mark, from, A, B, p
<1>9. Raw(Read) = Bytes(A, op, B, p)
  <2>1. opcode + (IF HasFlag(opcode) /\ ~(HasFlag(opcode) /\ o < 128) THEN 128 ELSE 0) = op
    BY <1>3, <1>8
  <2>2. /\ Read.opcode = opcode /\ Read.flag = (HasFlag(opcode) /\ o < 128)
        /\ Read.args = ReadArguments(opcode, OpAt) /\ Read.ship = B /\ Read.proxy = p
    BY <1>5
  <2> HIDE DEF op
  <2> QED
    BY <1>6, <2>1, <2>2 DEF Raw, Bytes
<1>10. GetBatch(from, mark) = Bytes(A, o, B, p)
  <2>1. GetBatch(from, OpAt) \o GetBatch(OpAt, OpAt + 1) = GetBatch(from, OpAt + 1)
    <3>1. OpAt + 1 \in Int /\ OpAt <= OpAt + 1 /\ OpAt + 1 <= Len(batch)
      BY <1>1
    <3> QED
      BY <1>1, <1>7, <3>1, GetBatchJoined
  <2>2. GetBatch(from, OpAt + 1) \o GetBatch(OpAt + 1, mark - 1) = GetBatch(from, mark - 1)
    <3>1. OpAt + 1 \in Int /\ mark - 1 \in Int /\ from <= OpAt + 1 /\ mark - 1 <= Len(batch)
      BY <1>1, <1>7
    <3> QED
      BY <1>1, <1>7, <3>1, GetBatchJoined
  <2>3. GetBatch(from, mark - 1) \o GetBatch(mark - 1, mark) = GetBatch(from, mark)
    <3>1. mark - 1 \in Int /\ from <= mark - 1 /\ mark - 1 <= mark
      BY <1>1, <1>7
    <3> QED
      BY <1>1, <1>7, <3>1, GetBatchJoined
  <2> QED
    BY <1>3, <1>4, <2>1, <2>2, <2>3 DEF A, B, Bytes
<1>11. A \in Seq(Byte) /\ B \in Seq(Byte) /\ Len(B) = ShipBytes
  <2>1. OpAt + 1 \in Int /\ mark - 1 \in Int /\ (mark - 1) - (OpAt + 1) = ShipBytes
    BY <1>0, <1>1
  <2>2. OpAt <= Len(batch) /\ mark - 1 <= Len(batch)
    BY <1>1
  <2> QED
    BY <1>1, <1>7, <2>1, <2>2, GetBatchBytes DEF A, B
<1>12. o \in Byte /\ opcode \in Byte
  BY <1>3, <1>8 DEF Byte
<1> DEFINE raw == GetBatch(from, mark)
<1>13. /\ Len(raw) - ShipBytes - 1 = Len(A) + 1 /\ raw[Len(A) + 1] = o
       /\ [raw EXCEPT ![Len(A) + 1] = opcode] = Bytes(A, opcode, B, p)
  <2>1. raw = Bytes(A, o, B, p)
    BY <1>10
  <2> HIDE DEF raw
  <2>2. /\ Len(raw) = Len(A) + Len(B) + 2 /\ raw[Len(A) + 1] = o
        /\ [raw EXCEPT ![Len(A) + 1] = opcode] = Bytes(A, opcode, B, p)
    <3>1. \A a, b \in Seq(Byte) : \A q, c, x \in Byte :
            /\ Len(Bytes(a, c, b, q)) = Len(a) + Len(b) + 2
            /\ Bytes(a, c, b, q)[Len(a) + 1] = c
            /\ [Bytes(a, c, b, q) EXCEPT ![Len(a) + 1] = x] = Bytes(a, x, b, q)
      BY OpcodeReplaced
    <3>2. A \in Seq(Byte) /\ B \in Seq(Byte) /\ p \in Byte /\ o \in Byte /\ opcode \in Byte
      BY <1>4, <1>11, <1>12
    <3>3. \A q, c, x \in Byte :
            /\ Len(Bytes(A, c, B, q)) = Len(A) + Len(B) + 2
            /\ Bytes(A, c, B, q)[Len(A) + 1] = c
            /\ [Bytes(A, c, B, q) EXCEPT ![Len(A) + 1] = x] = Bytes(A, x, B, q)
      BY <3>1, <3>2, Zenon
    <3>4. /\ Len(Bytes(A, o, B, p)) = Len(A) + Len(B) + 2
          /\ Bytes(A, o, B, p)[Len(A) + 1] = o
          /\ [Bytes(A, o, B, p) EXCEPT ![Len(A) + 1] = opcode] = Bytes(A, opcode, B, p)
      BY <3>2, <3>3, Zenon
    <3> QED
      BY <2>1, <3>4, Zenon
  <2>3. Len(A) \in Nat
    BY <1>11
  <2>4. Len(raw) - ShipBytes - 1 = Len(A) + 1
    BY <1>0, <1>11, <2>2, <2>3
  <2> QED
    BY <2>2, <2>4, Zenon
<1> HIDE DEF raw
<1>14. Unflagged(Read, raw) = IF HasFlag(opcode) THEN raw
                              ELSE [raw EXCEPT ![Len(A) + 1] = raw[Len(A) + 1] % 128]
  <2>1. Read.opcode = opcode
    BY <1>5
  <2> QED
    BY <1>13, <2>1 DEF Unflagged
<1>15. raw[Len(A) + 1] % 128 = opcode
  BY <1>13 DEF opcode
<1>16. Raw(Read) = Unflagged(Read, raw)
  <2>1. CASE HasFlag(opcode)
    <3>1. op = o
      BY <2>1
    <3> HIDE DEF op
    <3> QED
      BY <1>9, <1>10, <1>14, <2>1, <3>1 DEF raw
  <2>2. CASE ~HasFlag(opcode)
    <3>1. op = opcode
      BY <2>2
    <3> HIDE DEF op
    <3> QED
      BY <1>9, <1>13, <1>14, <1>15, <2>2, <3>1
  <2> QED
    BY <2>1, <2>2
<1>17. Read.raw = raw
  BY <1>5 DEF raw
<1> QED
  BY <1>16, <1>17 DEF Agrees

-----------------------------------------------------------------------------
(* What is submitted.                                                      *)

(* Where the arguments of a transaction are in its bytes.                  *)
Laid(A, a, w, t) ==
    /\ A \in Seq(Byte) /\ Len(A) = t /\ t \in Nat
    /\ Len(w) >= 1 => \A k \in 1..w[1] : A[(t - w[1]) + k] = a[1][k]
    /\ Len(w) >= 2 => \A k \in 1..w[2] : A[(t - w[1] - w[2]) + k] = a[2][k]
    /\ Len(w) >= 3 => \A k \in 1..w[3] : A[(t - w[1] - w[2] - w[3]) + k] = a[3][k]

LEMMA ArgumentsLaid ==
    ASSUME NEW a \in Seq(Seq(Byte)), NEW w, Len(w) \in 0..3, Len(w) = Len(a),
           \A n \in 1..Len(w) : Len(a[n]) = w[n]
    PROVE  Laid(FlattenSeq(Reverse(a)), a, w, Total(w))
<1> DEFINE A == FlattenSeq(Reverse(a))
           t == Total(w)
<1>1. \A n \in 1..Len(w) : a[n] \in Seq(Byte) /\ Len(a[n]) = w[n] /\ w[n] \in Nat
  OBVIOUS
<1>2. /\ Len(a) = 0 => A = <<>>
      /\ Len(a) = 1 => A = a[1]
      /\ Len(a) = 2 => A = a[2] \o a[1]
      /\ Len(a) = 3 => A = (a[3] \o a[2]) \o a[1]
  BY Backwards
<1>3. /\ t \in Nat
      /\ Len(w) = 0 => t = 0
      /\ Len(w) = 1 => t = w[1]
      /\ Len(w) = 2 => t = w[1] + w[2]
      /\ Len(w) = 3 => t = w[1] + w[2] + w[3]
  BY <1>1, TotalIs
<1> HIDE DEF A, t
<1>4. ASSUME Len(w) = 0 PROVE A \in Seq(Byte) /\ Len(A) = t
  BY <1>2, <1>3, <1>4, EmptySeq
<1>5. ASSUME Len(w) = 1
      PROVE  /\ A \in Seq(Byte) /\ Len(A) = t
             /\ \A k \in 1..w[1] : A[(t - w[1]) + k] = a[1][k]
  <2>1. A = a[1] /\ t = w[1] /\ a[1] \in Seq(Byte) /\ Len(a[1]) = w[1] /\ w[1] \in Nat
    BY <1>1, <1>2, <1>3, <1>5
  <2>2. \A k \in 1..w[1] : (t - w[1]) + k = k
    BY <2>1
  <2> QED
    BY <2>1, <2>2
<1>6. ASSUME Len(w) = 2
      PROVE  /\ A \in Seq(Byte) /\ Len(A) = t
             /\ \A k \in 1..w[1] : A[(t - w[1]) + k] = a[1][k]
             /\ \A k \in 1..w[2] : A[(t - w[1] - w[2]) + k] = a[2][k]
  <2> DEFINE x == a[1]
             y == a[2]
             p == w[1]
             q == w[2]
  <2>1. A = y \o x /\ t = p + q
    BY <1>2, <1>3, <1>6
  <2>2. /\ x \in Seq(Byte) /\ y \in Seq(Byte)
        /\ p = Len(x) /\ q = Len(y) /\ p \in Nat /\ q \in Nat
    BY <1>1, <1>6
  <2> HIDE DEF x, y, p, q
  <2>3. /\ A \in Seq(Byte) /\ Len(A) = q + p
        /\ \A k \in 1..q : A[k] = y[k]
        /\ \A k \in 1..p : A[q + k] = x[k]
    BY <2>1, <2>2, Joined
  <2>4. t - p = q /\ t - p - q = 0 /\ Len(A) = t /\ \A k \in 1..q : 0 + k = k
    BY <2>1, <2>2, <2>3
  <2>5. \A k \in 1..p : A[(t - p) + k] = x[k]
    BY <2>3, <2>4
  <2>6. \A k \in 1..q : A[(t - p - q) + k] = y[k]
    BY <2>3, <2>4
  <2> QED
    BY <2>3, <2>4, <2>5, <2>6, Zenon DEF x, y, p, q
<1>7. ASSUME Len(w) = 3
      PROVE  /\ A \in Seq(Byte) /\ Len(A) = t
             /\ \A k \in 1..w[1] : A[(t - w[1]) + k] = a[1][k]
             /\ \A k \in 1..w[2] : A[(t - w[1] - w[2]) + k] = a[2][k]
             /\ \A k \in 1..w[3] : A[(t - w[1] - w[2] - w[3]) + k] = a[3][k]
  <2> DEFINE x == a[1]
             y == a[2]
             z == a[3]
             p == w[1]
             q == w[2]
             r == w[3]
             zy == z \o y
  <2>1. A = zy \o x /\ t = p + q + r
    BY <1>2, <1>3, <1>7
  <2>2. /\ x \in Seq(Byte) /\ y \in Seq(Byte) /\ z \in Seq(Byte)
        /\ p = Len(x) /\ q = Len(y) /\ r = Len(z)
        /\ p \in Nat /\ q \in Nat /\ r \in Nat
    BY <1>1, <1>7
  <2> HIDE DEF x, y, z, p, q, r
  <2>3. /\ zy \in Seq(Byte) /\ Len(zy) = r + q
        /\ \A k \in 1..r : zy[k] = z[k]
        /\ \A k \in 1..q : zy[r + k] = y[k]
    BY <2>2, Joined
  <2> HIDE DEF zy
  <2>4. /\ A \in Seq(Byte) /\ Len(A) = Len(zy) + p
        /\ \A k \in 1..Len(zy) : A[k] = zy[k]
        /\ \A k \in 1..p : A[Len(zy) + k] = x[k]
    BY <2>1, <2>2, <2>3, Joined, ZenonT(60)
  <2>5. t - p = Len(zy) /\ t - p - q = r /\ t - p - q - r = 0 /\ Len(A) = t
    BY <2>1, <2>2, <2>3, <2>4
  <2>6. \A k \in 1..p : A[(t - p) + k] = x[k]
    BY <2>4, <2>5
  <2>7. ASSUME NEW k \in 1..q PROVE A[(t - p - q) + k] = y[k]
    <3>1. r + k \in 1..Len(zy)
      BY <2>2, <2>3
    <3> QED
      BY <2>3, <2>4, <2>5, <3>1
  <2>8. ASSUME NEW k \in 1..r PROVE A[(t - p - q - r) + k] = z[k]
    <3>1. k \in 1..Len(zy) /\ 0 + k = k
      BY <2>2, <2>3
    <3> QED
      BY <2>3, <2>4, <2>5, <3>1
  <2> QED
    BY <2>4, <2>5, <2>6, <2>7, <2>8, Zenon DEF x, y, z, p, q, r
<1>8. Len(w) = 0 \/ Len(w) = 1 \/ Len(w) = 2 \/ Len(w) = 3
  OBVIOUS
<1>9. A \in Seq(Byte) /\ Len(A) = t
  BY <1>4, <1>5, <1>6, <1>7, <1>8
<1>10. Len(w) >= 1 => \A k \in 1..w[1] : A[(t - w[1]) + k] = a[1][k]
  BY <1>5, <1>6, <1>7, <1>8
<1>11. Len(w) >= 2 => \A k \in 1..w[2] : A[(t - w[1] - w[2]) + k] = a[2][k]
  BY <1>6, <1>7, <1>8
<1>12. Len(w) >= 3 => \A k \in 1..w[3] : A[(t - w[1] - w[2] - w[3]) + k] = a[3][k]
  BY <1>7, <1>8
<1>13. Laid(A, a, w, t)
  BY <1>3, <1>9, <1>10, <1>11, <1>12 DEF Laid
<1> QED
  BY <1>13 DEF A, t

(* The opcode with the flag.                                               *)
OpByte(tx) == tx.opcode + IF HasFlag(tx.opcode) /\ ~tx.flag THEN 128 ELSE 0

ArgsOf(tx) == FlattenSeq(Reverse(tx.args))

LEMMA TxLaid ==
    ASSUME NEW tx \in Tx
    PROVE  /\ OpByte(tx) \in Byte /\ OpByte(tx) % 128 = tx.opcode
           /\ tx.flag = (HasFlag(tx.opcode) /\ OpByte(tx) < 128)
           /\ tx.args \in Seq(Seq(Byte)) /\ Len(tx.args) = Len(Arguments(tx.opcode))
           /\ \A n \in 1..Len(tx.args) : Len(tx.args[n]) = Arguments(tx.opcode)[n]
           /\ ArgsOf(tx) \in Seq(Byte) /\ Len(ArgsOf(tx)) = Total(Arguments(tx.opcode))
           /\ Len(FlattenSeq(tx.args)) = Total(Arguments(tx.opcode))
           /\ tx.ship \in Seq(Byte) /\ Len(tx.ship) = ShipBytes
           /\ tx.signature \in Seq(Byte) /\ Len(tx.signature) = SignatureBytes
           /\ tx.proxy \in Byte
<1> DEFINE w == Arguments(tx.opcode)
<1>1. SignatureBytes \in Nat /\ ShipBytes \in Nat
  BY WidthAssumption
<1>2. /\ tx.signature \in [1..SignatureBytes -> Byte] /\ tx.ship \in [1..ShipBytes -> Byte]
      /\ tx.proxy \in Byte /\ tx.opcode \in 0..127 /\ tx.flag \in BOOLEAN
      /\ tx.args \in Seq(Seq(Byte))
  BY DEF Tx
<1>3. Len(w) \in 0..3 /\ w = Takes(tx.opcode)
  BY Widths
<1>4. /\ Len(tx.args) = Len(w)
      /\ \A n \in 1..Len(tx.args) : Len(tx.args[n]) = w[n]
  <2>1. DOMAIN tx.args = 1..Len(tx.args)
    BY <1>2
  <2> QED
    BY <1>3, <2>1 DEF Tx
<1>5. tx.flag => HasFlag(tx.opcode)
  BY DEF Tx
<1>6. /\ OpByte(tx) \in Byte /\ OpByte(tx) % 128 = tx.opcode
      /\ tx.flag = (HasFlag(tx.opcode) /\ OpByte(tx) < 128)
  <2>1. \A x \in 0..127 : /\ x \in 0..255 /\ x + 128 \in 0..255
                          /\ x % 128 = x /\ (x + 128) % 128 = x
                          /\ x < 128 /\ ~(x + 128 < 128) /\ x + 0 = x
    OBVIOUS
  <2>2. HasFlag(tx.opcode) \in BOOLEAN
    BY DEF HasFlag
  <2> DEFINE x == tx.opcode
             y == OpByte(tx)
  <2>0. x \in 0..127
    BY <1>2
  <2>3. ASSUME HasFlag(tx.opcode), ~tx.flag
        PROVE  y \in 0..255 /\ y % 128 = x /\ ~(y < 128)
    <3>1. y = x + 128
      BY <2>3 DEF OpByte
    <3> HIDE DEF x, y
    <3> QED
      BY <2>0, <2>1, <3>1
  <2>4. ASSUME ~(HasFlag(tx.opcode) /\ ~tx.flag)
        PROVE  y \in 0..255 /\ y % 128 = x /\ y < 128
    <3>1. y = x + 0
      BY <2>4, Zenon DEF OpByte
    <3> HIDE DEF x, y
    <3> QED
      BY <2>0, <2>1, <3>1
  <2>5. y \in 0..255 /\ y % 128 = x
    BY <2>3, <2>4, Zenon
  <2> HIDE DEF y
  <2>6. tx.flag = (HasFlag(tx.opcode) /\ y < 128)
    BY <1>2, <1>5, <2>2, <2>3, <2>4, Zenon
  <2> QED
    BY <2>5, <2>6 DEF Byte, y
<1> HIDE DEF w
<1>7. ArgsOf(tx) \in Seq(Byte) /\ Len(ArgsOf(tx)) = Total(w)
  BY <1>2, <1>3, <1>4, ArgumentsLaid DEF ArgsOf, Laid
<1>8. Len(FlattenSeq(tx.args)) = Total(w)
  BY <1>2, <1>3, <1>4, FlattenedLength
<1>9. /\ tx.ship \in Seq(Byte) /\ Len(tx.ship) = ShipBytes
      /\ tx.signature \in Seq(Byte) /\ Len(tx.signature) = SignatureBytes
  BY <1>1, <1>2
<1> QED
  BY <1>2, <1>4, <1>6, <1>7, <1>8, <1>9 DEF w

LEMMA RawIs ==
    ASSUME NEW tx \in Tx
    PROVE  /\ Raw(tx) = Bytes(ArgsOf(tx), OpByte(tx), tx.ship, tx.proxy)
           /\ Raw(tx) \in Seq(Byte)
           /\ Len(Raw(tx)) = Total(Arguments(tx.opcode)) + ShipBytes + 2
<1>1. Raw(tx) = Bytes(ArgsOf(tx), OpByte(tx), tx.ship, tx.proxy)
  BY Zenon DEF Raw, Bytes, ArgsOf, OpByte
<1>2. /\ ArgsOf(tx) \in Seq(Byte) /\ Len(ArgsOf(tx)) = Total(Arguments(tx.opcode))
      /\ tx.ship \in Seq(Byte) /\ Len(tx.ship) = ShipBytes
      /\ tx.proxy \in Byte /\ OpByte(tx) \in Byte
  BY TxLaid
<1>3. \A a, b \in Seq(Byte) : \A p, y \in Byte :
        Bytes(a, y, b, p) \in Seq(Byte) /\ Len(Bytes(a, y, b, p)) = Len(a) + Len(b) + 2
  BY RawLaid
<1>4. \A p, y \in Byte :
        /\ Bytes(ArgsOf(tx), y, tx.ship, p) \in Seq(Byte)
        /\ Len(Bytes(ArgsOf(tx), y, tx.ship, p)) = Len(ArgsOf(tx)) + Len(tx.ship) + 2
  BY <1>2, <1>3, Zenon
<1>5. /\ Raw(tx) \in Seq(Byte)
      /\ Len(Raw(tx)) = Len(ArgsOf(tx)) + Len(tx.ship) + 2
  BY <1>1, <1>2, <1>4, Zenon
<1> QED
  BY <1>1, <1>2, <1>5

(* What is submitted for a transaction.                                    *)
Piece(tx) == Raw(tx) \o tx.signature

LEMMA PieceIs ==
    ASSUME NEW tx \in Tx
    PROVE  /\ Piece(tx) \in Seq(Byte)
           /\ Len(Raw(tx)) \in Nat
           /\ Len(Piece(tx)) = Len(Raw(tx)) + SignatureBytes
           /\ \A k \in 1..Len(Raw(tx)) : Piece(tx)[k] = Raw(tx)[k]
           /\ \A k \in 1..SignatureBytes : Piece(tx)[Len(Raw(tx)) + k] = tx.signature[k]
<1>1. Raw(tx) \in Seq(Byte)
  BY RawIs
<1>2. tx.signature \in Seq(Byte) /\ Len(tx.signature) = SignatureBytes
  BY TxLaid
<1> DEFINE r == Raw(tx)
           s == tx.signature
<1>3. Piece(tx) = r \o s
  BY DEF Piece
<1>4. /\ r \o s \in Seq(Byte) /\ Len(r) \in Nat /\ Len(r \o s) = Len(r) + Len(s)
      /\ \A k \in 1..Len(r) : (r \o s)[k] = r[k]
      /\ \A k \in 1..Len(s) : (r \o s)[Len(r) + k] = s[k]
  <2>1. r \in Seq(Byte) /\ s \in Seq(Byte)
    BY <1>1, <1>2
  <2> HIDE DEF r, s
  <2> QED
    BY <2>1, Joined
<1> QED
  BY <1>2, <1>3, <1>4, Zenon

(* The pieces of what is submitted: the transaction read first comes last. *)
Pieces(txs) == [m \in 1..Len(txs) |-> Piece(txs[Len(txs) - m + 1])]

LEMMA EncodedIs ==
    ASSUME NEW txs \in Seq(Tx)
    PROVE  /\ Pieces(txs) \in Seq(Seq(Byte)) /\ Len(Pieces(txs)) = Len(txs)
           /\ Encoded(txs) = FlattenSeq(Pieces(txs))
           /\ Encoded(txs) \in Seq(Byte)
<1>1. Len(txs) \in Nat /\ \A m \in 1..Len(txs) : txs[Len(txs) - m + 1] \in Tx
  OBVIOUS
<1>2. \A m \in 1..Len(txs) : Piece(txs[Len(txs) - m + 1]) \in Seq(Byte)
  BY <1>1, PieceIs
<1>3. Pieces(txs) \in Seq(Seq(Byte)) /\ Len(Pieces(txs)) = Len(txs)
  BY <1>1, <1>2 DEF Pieces
<1>4. Encoded(txs) = FlattenSeq(Pieces(txs))
  <2> DEFINE r == Reverse(txs)
  <2>1. /\ DOMAIN r = 1..Len(txs)
        /\ \A m \in 1..Len(txs) : r[m] = txs[Len(txs) - m + 1]
    BY <1>1 DEF Reverse
  <2> HIDE DEF r
  <2>2. [n \in DOMAIN r |-> Raw(r[n]) \o r[n].signature] = Pieces(txs)
    BY <2>1, Zenon DEF Pieces, Piece
  <2> QED
    BY <2>2, Zenon DEF Encoded, Submitted, r
<1>5. Encoded(txs) \in Seq(Byte)
  <2>1. PICK g : Layout(g, Pieces(txs)) /\ FlattenSeq(Pieces(txs)) = g[Len(Pieces(txs))]
    BY <1>3, Flattened
  <2>2. Len(txs) \in 0..Len(txs)
    BY <1>1
  <2> QED
    BY <1>3, <1>4, <2>1, <2>2 DEF Layout
<1> QED
  BY <1>3, <1>4, <1>5

-----------------------------------------------------------------------------
(* Any bytes at all.                                                       *)

(* A byte of the batch as it was before the zeros at its front were lost.  *)
ByteOf(k) == IF k < 1 THEN 0 ELSE batch[k]

(* The batch is what was submitted, but for zeros at its front.            *)
Shortened ==
    /\ Len(batch) = Len(Encoded(sent)) - cut
    /\ \A k \in 1..Len(Encoded(sent)) : ByteOf(k - cut) = Encoded(sent)[k]
    /\ \A k \in 1..cut : Encoded(sent)[k] = 0

Submission == /\ sent \in Seq(Tx) /\ cut \in 0..Len(Encoded(sent))
              /\ batch \in Seq(Byte)
              /\ sent # <<>> => Shortened

Taken(tx) == /\ tx \in ParsedTx
             /\ Len(tx.signature) = SignatureBytes /\ Len(tx.ship) = ShipBytes
             /\ Len(FlattenSeq(tx.args)) \in Nat

(* Only the last transaction may have been read past the first byte.       *)
LastOnly == \A n \in 1..Len(ret) :
               Agrees(ret[n]) \/ (n = Len(ret) /\ i + Len(FlattenSeq(ret[n].args)) < 0)

ReadOK == /\ Submission
          /\ i \in Int /\ i <= Len(batch)
          /\ ret \in Seq(ParsedTx)
          /\ \A n \in 1..Len(ret) : Taken(ret[n])
          /\ LastOnly

LEMMA InitSubmission == Init => Submission
<1> SUFFICES ASSUME Init PROVE Submission
  OBVIOUS
<1>1. Sendings \subseteq Seq(Tx) /\ Garbage \subseteq Seq(Byte)
  BY SendingsAssumption
<1>2. <<>> \in Seq(Tx)
  BY EmptySeq
<1>3. sent \in Seq(Tx)
  BY <1>1, <1>2 DEF Init
<1> DEFINE E == Encoded(sent)
<1>4. E \in Seq(Byte) /\ Len(E) \in Nat
  <2>1. E \in Seq(Byte)
    BY <1>3, EncodedIs
  <2> HIDE DEF E
  <2> QED
    BY <2>1, LenProperties
<1>5. CASE sent = <<>> /\ cut = 0 /\ batch \in Garbage
  <2>1. cut \in 0..Len(E)
    BY <1>4, <1>5
  <2> QED
    BY <1>1, <1>3, <1>5, <2>1 DEF Submission
<1>6. CASE /\ cut \in 0..Len(E) /\ AllZero(SubSeq(E, 1, cut))
           /\ batch = SubSeq(E, cut + 1, Len(E))
  <2> HIDE DEF E
  <2>0. cut \in Int /\ cut + 1 \in Int /\ Len(E) \in Int /\ cut <= Len(E)
    BY <1>4, <1>6
  <2>1. /\ batch \in Seq(Byte) /\ Len(batch) = Len(E) - cut
        /\ \A k \in 1..Len(batch) : batch[k] = E[k + cut]
    <3>1. \A k \in (cut + 1)..Len(E) : E[k] \in Byte
      BY <1>4, <1>6
    <3>2. /\ batch \in Seq(Byte)
          /\ Len(batch) = IF cut + 1 <= Len(E) THEN Len(E) - (cut + 1) + 1 ELSE 0
          /\ \A k \in 1..(Len(E) - (cut + 1) + 1) : batch[k] = E[cut + 1 + k - 1]
      BY <1>6, <2>0, <3>1, SubSeqProperties
    <3>3. Len(batch) = Len(E) - cut /\ Len(E) - (cut + 1) + 1 = Len(E) - cut
      BY <2>0, <3>2
    <3>4. ASSUME NEW k \in 1..Len(batch) PROVE batch[k] = E[k + cut]
      <4>1. cut + 1 + k - 1 = k + cut
        BY <2>0
      <4> QED
        BY <3>2, <3>3, <3>4, <4>1
    <3> QED
      BY <3>2, <3>3, <3>4
  <2>2. \A k \in 1..cut : E[k] = 0
    <3>1. /\ Len(SubSeq(E, 1, cut)) = IF 1 <= cut THEN cut - 1 + 1 ELSE 0
          /\ \A k \in 1..(cut - 1 + 1) : SubSeq(E, 1, cut)[k] = E[1 + k - 1]
          /\ SubSeq(E, 1, cut) \in Seq(Byte)
      <4>1. \A k \in 1..cut : E[k] \in Byte
        BY <1>4, <1>6
      <4> QED
        BY <2>0, <4>1, SubSeqProperties
    <3> SUFFICES ASSUME NEW k \in 1..cut PROVE E[k] = 0
      OBVIOUS
    <3>2. k \in 1..(cut - 1 + 1) /\ 1 + k - 1 = k /\ k \in 1..Len(SubSeq(E, 1, cut))
      BY <2>0, <3>1
    <3>3. k \in DOMAIN SubSeq(E, 1, cut)
      BY <3>1, <3>2
    <3>4. SubSeq(E, 1, cut)[k] = 0
      BY <1>6, <3>3 DEF AllZero
    <3> QED
      BY <3>1, <3>2, <3>4
  <2>3. \A k \in 1..Len(E) : ByteOf(k - cut) = E[k]
    <3> SUFFICES ASSUME NEW k \in 1..Len(E) PROVE ByteOf(k - cut) = E[k]
      OBVIOUS
    <3>1. CASE k <= cut
      <4>1. k - cut < 1 /\ k \in 1..cut
        BY <2>0, <3>1
      <4> QED
        BY <2>2, <4>1 DEF ByteOf
    <3>2. CASE k > cut
      <4>1. ~(k - cut < 1) /\ k - cut \in 1..Len(batch) /\ (k - cut) + cut = k
        BY <2>0, <2>1, <3>2
      <4> QED
        BY <2>1, <4>1 DEF ByteOf
    <3> QED
      BY <2>0, <3>1, <3>2
  <2> QED
    BY <1>3, <1>6, <2>1, <2>2, <2>3 DEF Submission, Shortened, E
<1> QED
  BY <1>5, <1>6 DEF Init

LEMMA InitRead == Init => ReadOK
<1> SUFFICES ASSUME Init PROVE ReadOK
  OBVIOUS
<1>1. Submission
  BY InitSubmission
<1>2. i = Len(batch) /\ ret = <<>>
  BY DEF Init
<1>3. Len(batch) \in Nat
  BY <1>1 DEF Submission
<1>4. ret \in Seq(ParsedTx) /\ Len(ret) = 0
  BY <1>2, EmptySeq
<1>5. 1..0 = {}
  OBVIOUS
<1> QED
  BY <1>1, <1>2, <1>3, <1>4, <1>5 DEF ReadOK, LastOnly

(* What a round appends.                                                   *)
LEMMA Appended ==
    ASSUME ret \in Seq(ParsedTx), NEW tx \in ParsedTx, ret' = Append(ret, tx)
    PROVE  /\ ret' \in Seq(ParsedTx) /\ Len(ret) \in Nat /\ Len(ret') = Len(ret) + 1
           /\ \A n \in 1..Len(ret) : ret'[n] = ret[n]
           /\ ret'[Len(ret')] = tx
BY AppendProperties, LenProperties

LEMMA ReadStep == ReadOK /\ [Next]_vars => ReadOK'
<1> SUFFICES ASSUME ReadOK, [Next]_vars PROVE ReadOK'
  OBVIOUS
<1>0. /\ Submission /\ i \in Int /\ i <= Len(batch) /\ ret \in Seq(ParsedTx)
      /\ \A n \in 1..Len(ret) : Taken(ret[n])
      /\ LastOnly /\ batch \in Seq(Byte) /\ Len(batch) \in Nat
  BY DEF ReadOK, Submission
<1>s. SignatureBytes \in Nat
  BY WidthAssumption
<1>1. ASSUME NotValid PROVE ReadOK'
  <2>1. /\ sent' = sent /\ cut' = cut /\ batch' = batch /\ ret' = <<>>
        /\ i' = i - SignatureBytes
    BY <1>1 DEF NotValid
  <2>2. i' \in Int /\ i' <= Len(batch')
    BY <1>0, <1>s, <2>1
  <2>3. ret' \in Seq(ParsedTx) /\ Len(ret') = 0 /\ 1..0 = {}
    BY <2>1, EmptySeq
  <2>4. Submission'
    BY <1>0, <2>1 DEF Submission, Shortened, ByteOf
  <2> QED
    BY <2>2, <2>3, <2>4 DEF ReadOK, LastOnly
<1>2. ASSUME ParseTx PROVE ReadOK'
  <2>1. /\ i > 0 /\ i - SignatureBytes >= 0
        /\ ret' = Append(ret, Read)
        /\ i' = OpAt - Total(Arguments(Read.opcode))
        /\ sent' = sent /\ cut' = cut /\ batch' = batch
    BY <1>0, <1>2, ParseTxReads
  <2>2. /\ Read \in ParsedTx
        /\ Len(Read.signature) = SignatureBytes /\ Len(Read.ship) = ShipBytes
        /\ Len(FlattenSeq(Read.args)) = Total(Arguments(Read.opcode))
        /\ OpAt \in Int /\ OpAt < i /\ Total(Arguments(Read.opcode)) \in Nat
    BY <1>0, <2>1, ReadFields
  <2>3. i' \in Int /\ i' <= Len(batch') /\ i' + Len(FlattenSeq(Read.args)) = OpAt
    BY <1>0, <2>1, <2>2
  <2>4. Submission'
    BY <1>0, <2>1 DEF Submission, Shortened, ByteOf
  <2>5. /\ ret' \in Seq(ParsedTx) /\ Len(ret) \in Nat /\ Len(ret') = Len(ret) + 1
        /\ \A n \in 1..Len(ret) : ret'[n] = ret[n]
        /\ ret'[Len(ret')] = Read
    BY <1>0, <2>1, <2>2, Appended
  <2>6. Taken(Read)
    BY <2>2 DEF Taken
  <2>7. \A n \in 1..Len(ret') : n \in 1..Len(ret) \/ n = Len(ret')
    BY <2>5
  <2>8. \A n \in 1..Len(ret') : Taken(ret'[n])
    BY <1>0, <2>5, <2>6, <2>7
  <2>9. LastOnly'
    <3> SUFFICES ASSUME NEW n \in 1..Len(ret')
                 PROVE  \/ Agrees(ret'[n])
                        \/ n = Len(ret') /\ i' + Len(FlattenSeq(ret'[n].args)) < 0
      BY DEF LastOnly
    <3>1. CASE n \in 1..Len(ret)
      <4>1. Taken(ret[n])
        BY <1>0, <3>1
      <4>2. ~(i + Len(FlattenSeq(ret[n].args)) < 0)
        BY <1>0, <2>1, <4>1 DEF Taken
      <4>3. Agrees(ret[n])
        BY <1>0, <3>1, <4>2 DEF LastOnly
      <4> QED
        BY <2>5, <3>1, <4>3
    <3>2. CASE n = Len(ret') /\ OpAt >= 0
      <4>1. Agrees(Read)
        BY <1>0, <2>1, <3>2, ReadAgrees
      <4> QED
        BY <2>5, <3>2, <4>1
    <3>3. CASE n = Len(ret') /\ OpAt < 0
      BY <2>3, <2>5, <3>3
    <3> QED
      BY <2>2, <2>7, <3>1, <3>2, <3>3
  <2> QED
    BY <2>3, <2>4, <2>5, <2>8, <2>9 DEF ReadOK
<1>3. ASSUME UNCHANGED vars PROVE ReadOK'
  BY <1>3 DEF vars, ReadOK, Submission, Shortened, ByteOf, LastOnly
<1> QED
  BY <1>1, <1>2, <1>3 DEF Next

(* What ReadOK says of the fields, the raw bytes and the position in the   *)
(* batch holds of the parser for any bytes (naive_parser.go:303-381).      *)
THEOREM ReadAlways == Spec => []ReadOK
BY InitRead, ReadStep, PTL DEF Spec

(* The parser stays within the bytes it was given at their end, and the    *)
(* fields it reads have the widths of the format, whatever the bytes.      *)
THEOREM ParserTypes == Spec => []TypeOK
<1>1. ReadOK => TypeOK
  <2> SUFFICES ASSUME ReadOK PROVE TypeOK
    OBVIOUS
  <2>1. ret \in Seq(ParsedTx) /\ DOMAIN ret = 1..Len(ret)
    BY DEF ReadOK
  <2>2. ASSUME NEW n \in DOMAIN ret
        PROVE  /\ {ret[n].proxy, ret[n].opcode} \subseteq Byte
               /\ Len(ret[n].signature) = SignatureBytes
               /\ Len(ret[n].ship) = ShipBytes
    <3>1. Taken(ret[n])
      BY <2>1, <2>2 DEF ReadOK
    <3>2. ret[n].proxy \in Byte /\ ret[n].opcode \in 0..127
      BY <3>1 DEF Taken, ParsedTx
    <3> QED
      BY <3>1, <3>2 DEF Taken, Byte
  <2> QED
    BY <2>2 DEF ReadOK, Submission, TypeOK
<1> QED
  BY <1>1, ReadAlways, PTL

(* What is played of a transaction is what its signature is verified over, *)
(* of any bytes at all, unless its opcode was lost: only the transaction   *)
(* at the front of the batch can have lost it (naive_parser.go:325-378).   *)
THEOREM VerifiesWhatItPlays == Spec => []PlayedIsVerified
<1>1. ReadOK => PlayedIsVerified
  <2> SUFFICES ASSUME ReadOK,
                      NEW n \in DOMAIN ret,
                      n < Len(ret) \/ i + Len(FlattenSeq(ret[n].args)) >= 0
               PROVE  Agrees(ret[n])
    BY DEF PlayedIsVerified
  <2>1. n \in 1..Len(ret) /\ Len(ret) \in Nat /\ i \in Int
    BY DEF ReadOK
  <2>2. Taken(ret[n]) /\ LastOnly
    BY <2>1 DEF ReadOK
  <2>3. Len(FlattenSeq(ret[n].args)) \in Nat
    BY <2>2 DEF Taken
  <2> QED
    BY <2>1, <2>2, <2>3 DEF LastOnly
<1> QED
  BY <1>1, ReadAlways, PTL

-----------------------------------------------------------------------------
(* What was submitted.                                                     *)

LEMMA GetBatchIs ==
    ASSUME batch \in Seq(Byte), NEW q \in Seq(Byte), NEW a \in Int, NEW b \in Int,
           b = a + Len(q), b <= Len(batch),
           \A k \in 1..Len(q) : ByteOf(a + k) = q[k]
    PROVE  GetBatch(a, b) = q
<1>0. Len(q) \in Nat /\ a <= b /\ b - a = Len(q)
  OBVIOUS
<1>1. /\ GetBatch(a, b) \in Seq(Byte) /\ Len(GetBatch(a, b)) = b - a
      /\ \A k \in 1..(b - a) :
            GetBatch(a, b)[k] = IF a + k < 1 THEN 0 ELSE batch[a + k]
  BY <1>0, GetBatchBytes
<1>2. \A k \in 1..Len(q) : GetBatch(a, b)[k] = q[k]
  BY <1>0, <1>1 DEF ByteOf
<1>3. Len(GetBatch(a, b)) = Len(q)
  BY <1>0, <1>1
<1> QED
  BY <1>1, <1>2, <1>3, SeqEqual

(* The bytes a has in the batch from b on.                                 *)
LEMMA ArgumentsAre ==
    ASSUME batch \in Seq(Byte), NEW op, NEW a \in Seq(Seq(Byte)), NEW b \in Int,
           Len(a) = Len(Arguments(op)),
           \A n \in 1..Len(a) : Len(a[n]) = Arguments(op)[n],
           b + Total(Arguments(op)) <= Len(batch),
           \A k \in 1..Total(Arguments(op)) : ByteOf(b + k) = FlattenSeq(Reverse(a))[k]
    PROVE  ReadArguments(op, b + Total(Arguments(op))) = a
<1> DEFINE w == Arguments(op)
           t == Total(w)
           A == FlattenSeq(Reverse(a))
           e == b + t
           r == ReadArguments(op, e)
           p == w[1]
           q == w[2]
           s == w[3]
<1>1. /\ Len(w) \in 0..3 /\ DOMAIN w = 1..Len(w)
      /\ \A n \in 1..Len(w) : w[n] \in Nat
  BY Widths
<1>2. /\ t \in Nat
      /\ Len(w) = 0 => t = 0
      /\ Len(w) = 1 => t = p
      /\ Len(w) = 2 => t = p + q
      /\ Len(w) = 3 => t = p + q + s
  BY <1>1, TotalIs
<1>3. e \in Int
  BY <1>2
<1>4. /\ DOMAIN r = 1..Len(w)
      /\ Len(w) >= 1 => r[1] = GetBatch(e - p, e)
      /\ Len(w) >= 2 => r[2] = GetBatch(e - p - q, e - p)
      /\ Len(w) >= 3 => r[3] = GetBatch(e - p - q - s, e - p - q)
  <2> HIDE DEF e
  <2> QED
    BY <1>3, ArgumentsRead
<1>5. /\ Len(A) = t
      /\ Len(w) >= 1 => \A k \in 1..p : A[(t - p) + k] = a[1][k]
      /\ Len(w) >= 2 => \A k \in 1..q : A[(t - p - q) + k] = a[2][k]
      /\ Len(w) >= 3 => \A k \in 1..s : A[(t - p - q - s) + k] = a[3][k]
  <2>1. Len(w) = Len(a) /\ \A n \in 1..Len(w) : Len(a[n]) = w[n]
    OBVIOUS
  <2> HIDE DEF w
  <2>2. Len(w) \in 0..3
    BY <1>1
  <2>3. Laid(A, a, w, t)
    BY <2>1, <2>2, ArgumentsLaid, Zenon
  <2> HIDE DEF A, t
  <2> QED
    BY <2>3, Zenon DEF Laid
<1>6. /\ Len(w) >= 1 => p \in Nat /\ a[1] \in Seq(Byte) /\ Len(a[1]) = p
      /\ Len(w) >= 2 => q \in Nat /\ a[2] \in Seq(Byte) /\ Len(a[2]) = q
      /\ Len(w) >= 3 => s \in Nat /\ a[3] \in Seq(Byte) /\ Len(a[3]) = s
  BY <1>1
<1> DEFINE m == Len(w)
<1>7. /\ m >= 1 => p <= t
      /\ m >= 2 => p + q <= t
      /\ m >= 3 => p + q + s <= t
  <2>1. m = 0 \/ m = 1 \/ m = 2 \/ m = 3
    BY <1>1
  <2>2. /\ m >= 1 => p \in Nat
        /\ m >= 2 => q \in Nat
        /\ m >= 3 => s \in Nat
    BY <1>6
  <2>3. /\ m = 1 => t = p
        /\ m = 2 => t = p + q
        /\ m = 3 => t = p + q + s
    BY <1>2
  <2> HIDE DEF m, t, p, q, s
  <2> QED
    BY <2>1, <2>2, <2>3
<1>8. r = [n \in 1..Len(w) |-> r[n]] /\ DOMAIN a = 1..Len(w)
  BY <1>1, <1>4 DEF ReadArguments
<1>9. Len(a) = Len(w) /\ e <= Len(batch) /\ e = b + t /\ \A k \in 1..t : ByteOf(b + k) = A[k]
  OBVIOUS
<1>10. a = [n \in 1..Len(w) |-> a[n]]
  BY <1>8
<1>e. e = b + t /\ t \in Nat /\ e \in Int
  BY <1>2, <1>3
<1> HIDE DEF w, t, A, r, p, q, s, e, m
<1>11. ASSUME Len(w) >= 1 PROVE r[1] = a[1]
  <2> DEFINE c == e - p
             d == e
             x == a[1]
  <2>0. p \in Nat /\ p <= t /\ x \in Seq(Byte) /\ Len(x) = p
    BY <1>6, <1>7, <1>11 DEF m
  <2>1. c \in Int /\ d \in Int /\ d = c + Len(x) /\ d <= Len(batch) /\ x \in Seq(Byte)
    BY <1>3, <1>6, <1>9, <1>11
  <2>2. \A k \in 1..Len(x) : ByteOf(c + k) = x[k]
    <3> SUFFICES ASSUME NEW k \in 1..Len(x) PROVE ByteOf(c + k) = x[k]
      OBVIOUS
    <3>1. (t - p) + k \in 1..t /\ c + k = b + ((t - p) + k) /\ k \in 1..p
      BY <1>e, <2>0
    <3> QED
      BY <1>5, <1>9, <1>11, <3>1
  <2>3. r[1] = GetBatch(c, d)
    BY <1>4, <1>11
  <2> HIDE DEF c, d, x
  <2>4. GetBatch(c, d) = x
    BY <2>1, <2>2, GetBatchIs
  <2> QED
    BY <2>3, <2>4 DEF x
<1>12. ASSUME Len(w) >= 2 PROVE r[2] = a[2]
  <2> DEFINE c == e - p - q
             d == e - p
             x == a[2]
  <2>0. Len(w) >= 1 /\ p \in Nat /\ q \in Nat /\ p + q <= t /\ x \in Seq(Byte) /\ Len(x) = q
    BY <1>6, <1>7, <1>12, <1>1 DEF m
  <2>1. c \in Int /\ d \in Int /\ d = c + Len(x) /\ d <= e
    BY <1>3, <2>0
  <2>2. \A k \in 1..Len(x) : ByteOf(c + k) = x[k]
    <3> SUFFICES ASSUME NEW k \in 1..Len(x) PROVE ByteOf(c + k) = x[k]
      OBVIOUS
    <3>1. (t - p - q) + k \in 1..t /\ c + k = b + ((t - p - q) + k) /\ k \in 1..q
      BY <1>e, <2>0
    <3> QED
      BY <1>5, <1>9, <1>12, <3>1
  <2>3. r[2] = GetBatch(c, d)
    BY <1>4, <1>12
  <2> HIDE DEF c, d
  <2>4. d <= Len(batch)
    BY <1>3, <1>9, <2>1
  <2>5. x \in Seq(Byte)
    BY <2>0
  <2> HIDE DEF x
  <2>6. GetBatch(c, d) = x
    BY <2>1, <2>2, <2>4, <2>5, GetBatchIs
  <2> QED
    BY <2>3, <2>6 DEF x
<1>13. ASSUME Len(w) >= 3 PROVE r[3] = a[3]
  <2> DEFINE c == e - p - q - s
             d == e - p - q
             x == a[3]
  <2>0. /\ p \in Nat /\ q \in Nat /\ s \in Nat /\ p + q + s <= t
        /\ x \in Seq(Byte) /\ Len(x) = s
    BY <1>1, <1>6, <1>7, <1>13 DEF m
  <2>1. c \in Int /\ d \in Int /\ d = c + Len(x) /\ d <= e
    BY <1>3, <2>0
  <2>2. \A k \in 1..Len(x) : ByteOf(c + k) = x[k]
    <3> SUFFICES ASSUME NEW k \in 1..Len(x) PROVE ByteOf(c + k) = x[k]
      OBVIOUS
    <3>1. (t - p - q - s) + k \in 1..t /\ c + k = b + ((t - p - q - s) + k) /\ k \in 1..s
      BY <1>e, <2>0
    <3> QED
      BY <1>5, <1>9, <1>13, <3>1
  <2>3. r[3] = GetBatch(c, d)
    BY <1>4, <1>13
  <2> HIDE DEF c, d
  <2>4. d <= Len(batch)
    BY <1>3, <1>9, <2>1
  <2>5. x \in Seq(Byte)
    BY <2>0
  <2> HIDE DEF x
  <2>6. GetBatch(c, d) = x
    BY <2>1, <2>2, <2>4, <2>5, GetBatchIs
  <2> QED
    BY <2>3, <2>6 DEF x
<1>14. \A n \in 1..Len(w) : r[n] = a[n]
  <2> SUFFICES ASSUME NEW n \in 1..Len(w) PROVE r[n] = a[n]
    OBVIOUS
  <2>1. m \in 0..3 /\ n \in 1..m
    BY <1>1 DEF m
  <2> HIDE DEF m
  <2>2. m >= 1 /\ (n = 1 \/ (n = 2 /\ m >= 2) \/ (n = 3 /\ m >= 3))
    BY <2>1
  <2> QED
    BY <1>11, <1>12, <1>13, <2>2 DEF m
<1>15. r = a
  BY <1>8, <1>10, <1>14
<1> QED
  BY <1>15 DEF r, w, t, e

LEMMA RawBytes ==
    ASSUME NEW tx \in Tx
    PROVE  /\ \A k \in 1..Total(Arguments(tx.opcode)) : Raw(tx)[k] = ArgsOf(tx)[k]
           /\ Raw(tx)[Total(Arguments(tx.opcode)) + 1] = OpByte(tx)
           /\ \A k \in 1..ShipBytes :
                 Raw(tx)[Total(Arguments(tx.opcode)) + 1 + k] = tx.ship[k]
           /\ Raw(tx)[Total(Arguments(tx.opcode)) + ShipBytes + 2] = tx.proxy
<1> DEFINE t == Total(Arguments(tx.opcode))
           H == ShipBytes
           R == Raw(tx)
           A == ArgsOf(tx)
           s == tx.ship
           o == OpByte(tx)
           p == tx.proxy
<1>1. R = Bytes(A, o, s, p)
  BY RawIs
<1>2. /\ A \in Seq(Byte) /\ Len(A) = t /\ s \in Seq(Byte) /\ Len(s) = H
      /\ p \in Byte /\ o \in Byte
  BY TxLaid
<1> HIDE DEF t, R, A, s, o, p
<1>3. \A k \in 1..(Len(A) + Len(s) + 2) :
         Bytes(A, o, s, p)[k] = IF k <= Len(A) THEN A[k]
                                ELSE IF k = Len(A) + 1 THEN o
                                ELSE IF k <= Len(A) + 1 + Len(s) THEN s[k - (Len(A) + 1)]
                                ELSE p
  <2>1. \A a, b \in Seq(Byte) : \A q, y \in Byte :
          \A k \in 1..(Len(a) + Len(b) + 2) :
             Bytes(a, y, b, q)[k] = IF k <= Len(a) THEN a[k]
                                    ELSE IF k = Len(a) + 1 THEN y
                                    ELSE IF k <= Len(a) + 1 + Len(b) THEN b[k - (Len(a) + 1)]
                                    ELSE q
    BY RawLaid
  <2>2. A \in Seq(Byte) /\ s \in Seq(Byte) /\ p \in Byte /\ o \in Byte
    BY <1>2
  <2>3. \A q, y \in Byte : \A k \in 1..(Len(A) + Len(s) + 2) :
           Bytes(A, y, s, q)[k] = IF k <= Len(A) THEN A[k]
                                  ELSE IF k = Len(A) + 1 THEN y
                                  ELSE IF k <= Len(A) + 1 + Len(s) THEN s[k - (Len(A) + 1)]
                                  ELSE q
    BY <2>1, <2>2, ZenonT(60)
  <2> QED
    BY <2>2, <2>3, ZenonT(60)
<1>4. H \in Nat /\ t \in Nat
  BY <1>2, LenProperties
<1> HIDE DEF H
<1>5. \A k \in 1..(t + H + 2) :
         R[k] = IF k <= t THEN A[k] ELSE IF k = t + 1 THEN o
                ELSE IF k <= t + 1 + H THEN s[k - (t + 1)] ELSE p
  BY <1>1, <1>2, <1>3
<1>6. \A k \in 1..t : R[k] = A[k]
  BY <1>4, <1>5
<1>7. R[t + 1] = o
  BY <1>4, <1>5
<1>8. ASSUME NEW k \in 1..H PROVE R[t + 1 + k] = s[k]
  <2>1. /\ t + 1 + k \in 1..(t + H + 2) /\ ~(t + 1 + k <= t) /\ t + 1 + k # t + 1
        /\ t + 1 + k <= t + 1 + H /\ (t + 1 + k) - (t + 1) = k
    BY <1>4
  <2> QED
    BY <1>5, <2>1
<1>9. R[t + H + 2] = p
  <2>1. /\ t + H + 2 \in 1..(t + H + 2) /\ ~(t + H + 2 <= t) /\ t + H + 2 # t + 1
        /\ ~(t + H + 2 <= t + 1 + H)
    BY <1>4
  <2> QED
    BY <1>5, <2>1
<1> QED
  BY <1>6, <1>7, <1>8, <1>9 DEF t, R, A, s, o, p, H

(* A round reads the transaction that is there, if its opcode is.          *)
LEMMA ReadsTx ==
    ASSUME batch \in Seq(Byte), i \in Int, i <= Len(batch), NEW tx \in Tx, NEW b \in Int,
           i = b + Len(Piece(tx)),
           \A k \in 1..Len(Piece(tx)) : ByteOf(b + k) = Piece(tx)[k],
           b + Total(Arguments(tx.opcode)) >= 0
    PROVE  Read = Expected(tx) /\ OpAt - Total(Arguments(Read.opcode)) = b
<1> DEFINE t == Total(Arguments(tx.opcode))
           H == ShipBytes
           S == SignatureBytes
           R == Raw(tx)
           P == Piece(tx)
           mark == i - S
<1>1. H \in Nat \ {0} /\ S \in Nat \ {0}
  BY WidthAssumption
<1>2. t \in Nat
  BY TxLaid, LenProperties
<1>3. R \in Seq(Byte) /\ Len(R) = t + H + 2
  BY RawIs
<1>4. /\ Len(P) = Len(R) + S
      /\ \A k \in 1..Len(R) : P[k] = R[k]
      /\ \A k \in 1..S : P[Len(R) + k] = tx.signature[k]
  BY PieceIs
<1>5. /\ \A k \in 1..t : R[k] = ArgsOf(tx)[k]
      /\ R[t + 1] = OpByte(tx)
      /\ \A k \in 1..H : R[t + 1 + k] = tx.ship[k]
      /\ R[t + H + 2] = tx.proxy
  BY RawBytes
<1>6. /\ OpByte(tx) % 128 = tx.opcode
      /\ tx.flag = (HasFlag(tx.opcode) /\ OpByte(tx) < 128)
      /\ tx.args \in Seq(Seq(Byte)) /\ Len(tx.args) = Len(Arguments(tx.opcode))
      /\ \A n \in 1..Len(tx.args) : Len(tx.args[n]) = Arguments(tx.opcode)[n]
      /\ tx.ship \in Seq(Byte) /\ Len(tx.ship) = H
      /\ tx.signature \in Seq(Byte) /\ Len(tx.signature) = S
  BY TxLaid
<1>7. OpAt = i - S - 1 - H - 1
  BY DEF OpAt
<1>8. \A k \in 1..Len(P) : ByteOf(b + k) = P[k]
  OBVIOUS
<1>9. i = b + Len(P) /\ b + t >= 0 /\ Len(batch) \in Nat
  BY LenProperties
<1> HIDE DEF t, H, S, R, P
<1>10. /\ i = b + t + H + 2 + S /\ mark = b + t + H + 2 /\ OpAt = b + t
       /\ mark - 1 = b + t + H + 1 /\ mark - 1 - H = b + t + 1
       /\ i <= Len(batch) /\ mark \in Int /\ OpAt \in Int
  <2>1. i = b + ((t + H + 2) + S) /\ i \in Int /\ b \in Int /\ mark = i - S
    BY <1>3, <1>4, <1>9 DEF mark
  <2>2. H \in Int /\ S \in Int /\ t \in Int
    BY <1>1, <1>2
  <2> HIDE DEF mark
  <2>3. i = b + t + H + 2 + S
    BY <2>1, <2>2
  <2>4. mark = b + t + H + 2 /\ mark \in Int
    BY <2>1, <2>2
  <2>5. OpAt = b + t /\ OpAt \in Int
    BY <1>7, <2>1, <2>2
  <2>6. mark - 1 = b + t + H + 1 /\ mark - 1 - H = b + t + 1
    BY <2>1, <2>2
  <2> QED
    BY <2>3, <2>4, <2>5, <2>6
<1>11. \A k \in 1..Len(R) : ByteOf(b + k) = R[k]
  <2>1. \A k \in 1..Len(R) : k \in 1..Len(P)
    BY <1>1, <1>2, <1>3, <1>4
  <2> QED
    BY <1>4, <1>8, <2>1
<1> HIDE DEF mark
(* Every field. *)
<1>12. GetBatch(mark, i) = tx.signature
  <2>1. \A k \in 1..Len(tx.signature) : ByteOf(mark + k) = tx.signature[k]
    <3> SUFFICES ASSUME NEW k \in 1..S PROVE ByteOf(mark + k) = tx.signature[k]
      BY <1>6
    <3>1. Len(R) + k \in 1..Len(P) /\ mark + k = b + (Len(R) + k)
      BY <1>1, <1>2, <1>3, <1>4, <1>10
    <3> QED
      BY <1>4, <1>8, <3>1
  <2>2. i = mark + Len(tx.signature)
    BY <1>1, <1>2, <1>6, <1>10
  <2> QED
    BY <1>6, <1>10, <2>1, <2>2, GetBatchIs
<1>13. /\ ByteAt(mark - 1) = tx.proxy
       /\ ByteAt(OpAt) = OpByte(tx)
  <2>1. /\ mark - 1 \in Int /\ mark - 1 < Len(batch) /\ mark - 1 >= 0 /\ Len(batch) > 0
        /\ OpAt < Len(batch) /\ OpAt >= 0
    BY <1>1, <1>2, <1>9, <1>10
  <2>2. ByteAt(mark - 1) = batch[(mark - 1) + 1] /\ ByteAt(OpAt) = batch[OpAt + 1]
    BY <1>10, <2>1, ByteThere
  <2>3. /\ (mark - 1) + 1 = b + (t + H + 2) /\ OpAt + 1 = b + (t + 1)
        /\ ~(b + (t + H + 2) < 1) /\ ~(b + (t + 1) < 1)
        /\ t + H + 2 \in 1..Len(R) /\ t + 1 \in 1..Len(R)
    BY <1>1, <1>2, <1>3, <1>9, <1>10
  <2>4. ByteOf(b + (t + H + 2)) = tx.proxy /\ ByteOf(b + (t + 1)) = OpByte(tx)
    BY <1>5, <1>11, <2>3
  <2> QED
    BY <2>2, <2>3, <2>4 DEF ByteOf
<1>14. GetBatch(mark - 1 - H, mark - 1) = tx.ship
  <2> DEFINE c == mark - 1 - H
             d == mark - 1
  <2>1. \A k \in 1..Len(tx.ship) : ByteOf(c + k) = tx.ship[k]
    <3> SUFFICES ASSUME NEW k \in 1..H PROVE ByteOf(c + k) = tx.ship[k]
      BY <1>6
    <3>1. t + 1 + k \in 1..Len(R) /\ c + k = b + (t + 1 + k)
      BY <1>1, <1>2, <1>3, <1>10
    <3> QED
      BY <1>5, <1>11, <3>1
  <2>2. c \in Int /\ d \in Int /\ d = c + Len(tx.ship) /\ d <= Len(batch)
    BY <1>1, <1>2, <1>6, <1>9, <1>10
  <2> HIDE DEF c, d
  <2>3. GetBatch(c, d) = tx.ship
    BY <1>6, <2>1, <2>2, GetBatchIs
  <2> QED
    BY <2>3 DEF c, d
<1>15. ReadArguments(tx.opcode, OpAt) = tx.args
  <2>1. b + t <= Len(batch)
    BY <1>1, <1>2, <1>9, <1>10
  <2>2. \A k \in 1..t : ByteOf(b + k) = FlattenSeq(Reverse(tx.args))[k]
    <3>1. \A k \in 1..t : k \in 1..Len(R)
      BY <1>1, <1>2, <1>3
    <3> QED
      BY <1>5, <1>11, <3>1 DEF ArgsOf
  <2>3. ReadArguments(tx.opcode, b + t) = tx.args
    BY <1>6, <2>1, <2>2, ArgumentsAre DEF t
  <2> QED
    BY <1>10, <2>3
<1>16. OpAt - t = b
  BY <1>2, <1>10
<1>17. GetBatch(OpAt - t, mark) = R
  <2>1. mark = b + Len(R) /\ mark <= Len(batch)
    BY <1>1, <1>2, <1>3, <1>9, <1>10
  <2>2. GetBatch(b, mark) = R
    BY <1>3, <1>10, <1>11, <2>1, GetBatchIs
  <2> QED
    BY <1>16, <2>2
<1>18. Read = [signature |-> tx.signature, proxy |-> tx.proxy, ship |-> tx.ship,
               opcode |-> tx.opcode, flag |-> tx.flag, args |-> tx.args, raw |-> Raw(tx)]
  <2>1. ByteAt(OpAt) % 128 = tx.opcode
    BY <1>6, <1>13
  <2>2. (HasFlag(tx.opcode) /\ ByteAt(OpAt) < 128) = tx.flag
    BY <1>6, <1>13
  <2>3. Read = [signature |-> GetBatch(mark, i), proxy |-> ByteAt(mark - 1),
                ship |-> GetBatch(mark - 1 - H, mark - 1), opcode |-> tx.opcode,
                flag |-> HasFlag(tx.opcode) /\ ByteAt(OpAt) < 128,
                args |-> ReadArguments(tx.opcode, OpAt), raw |-> GetBatch(OpAt - t, mark)]
    BY <2>1 DEF Read, mark, S, H, t
  <2> QED
    BY <1>12, <1>13, <1>14, <1>15, <1>17, <2>2, <2>3 DEF R
<1>19. Expected(tx) = [signature |-> tx.signature, proxy |-> tx.proxy, ship |-> tx.ship,
                       opcode |-> tx.opcode, flag |-> tx.flag, args |-> tx.args,
                       raw |-> Raw(tx)]
  <2>1. DOMAIN tx = {"signature", "proxy", "ship", "opcode", "flag", "args"}
    BY DEF Tx
  <2> QED
    BY <2>1 DEF Expected
<1>20. Read.opcode = tx.opcode
  BY <1>18
<1> QED
  BY <1>16, <1>18, <1>19, <1>20 DEF t

(* Where each transaction is in what is submitted.                         *)
LayoutOf(txs) == CHOOSE g : /\ Layout(g, Pieces(txs))
                            /\ FlattenSeq(Pieces(txs)) = g[Len(Pieces(txs))]

(* How many bytes the first m pieces take: those of the m transactions     *)
(* that are read last.                                                     *)
Upto(txs, m) == Len(LayoutOf(txs)[m])

LEMMA LayoutIs ==
    ASSUME NEW txs \in Seq(Tx), NEW m \in 1..Len(txs)
    PROVE  LET piece == Piece(txs[Len(txs) - m + 1])
           IN /\ Upto(txs, m) \in Nat /\ Upto(txs, m - 1) \in Nat /\ Upto(txs, 0) = 0
              /\ Upto(txs, m) = Upto(txs, m - 1) + Len(piece)
              /\ Upto(txs, Len(txs)) = Len(Encoded(txs))
              /\ Upto(txs, m) <= Len(Encoded(txs)) /\ Upto(txs, 1) <= Upto(txs, m)
              /\ \A k \in 1..Len(piece) : Encoded(txs)[Upto(txs, m - 1) + k] = piece[k]
<1> DEFINE g == LayoutOf(txs)
           s == Pieces(txs)
           L == Len(txs)
           E == Encoded(txs)
           tx == txs[L - m + 1]
           piece == Piece(tx)
           before == g[m - 1]
           after == g[m]
<1>0. L \in Nat /\ m \in 1..L /\ m - 1 \in 0..L /\ m \in 0..L /\ 1 \in 0..L /\ 0 \in 0..L
      /\ L \in 0..L
  BY LenProperties
<1>1. s \in Seq(Seq(Byte)) /\ Len(s) = L /\ E = FlattenSeq(s)
  BY EncodedIs
<1>2. Layout(g, s) /\ FlattenSeq(s) = g[Len(s)]
  <2>1. \E f : Layout(f, s) /\ FlattenSeq(s) = f[Len(s)]
    BY <1>1, Flattened
  <2> HIDE DEF s
  <2> QED
    BY <2>1 DEF LayoutOf, s
<1>3. s[m] = piece
  BY DEF Pieces
<1>4. tx \in Tx
  <2>1. L - m + 1 \in 1..L
    BY <1>0
  <2> QED
    BY <2>1, ElementOfSeq
<1>5. piece \in Seq(Byte)
  BY <1>4, PieceIs
<1>6. \A n \in 1..L : s[n] \in Seq(Byte)
  BY <1>1, ElementOfSeq
<1> HIDE DEF g, s, E, piece, L
<1>7. /\ g \in [0..L -> Seq(Byte)] /\ g[0] = <<>>
      /\ \A n \in 1..L : g[n] = g[n - 1] \o s[n]
  BY <1>1, <1>2 DEF Layout
<1>8. before \in Seq(Byte) /\ after \in Seq(Byte) /\ after = before \o piece
  BY <1>0, <1>3, <1>7
<1>9. g[L] = E
  BY <1>1, <1>2
<1>10. Len(after) <= Len(E) /\ \A k \in 1..Len(after) : E[k] = after[k]
  <2>1. L \in m..L /\ Len(s) = L
    BY <1>0, <1>1
  <2>2. /\ Len(s) \in Nat /\ m \in 0..Len(s) /\ L \in m..Len(s)
        /\ \A n \in 1..Len(s) : s[n] \in Seq(Byte)
    BY <1>0, <1>6, <2>1
  <2>3. Len(g[m]) <= Len(g[L]) /\ \A k \in 1..Len(g[m]) : g[L][k] = g[m][k]
    BY <1>2, <2>2, LayoutGrows
  <2> QED
    BY <1>9, <2>3, Zenon
<1>11. Len(g[1]) <= Len(after)
  <2>1. m \in 1..L /\ Len(s) = L /\ 1 \in 0..L /\ L \in Nat
    BY <1>0, <1>1
  <2> QED
    BY <1>2, <1>6, <2>1, LayoutGrows
<1>12. Len(g[0]) = 0
  BY <1>7, EmptySeq
<1> HIDE DEF before, after
<1>13. /\ Len(before) \in Nat /\ Len(after) \in Nat /\ Len(piece) \in Nat
       /\ Len(after) = Len(before) + Len(piece)
       /\ \A k \in 1..Len(piece) : after[Len(before) + k] = piece[k]
  BY <1>5, <1>8, Joined
<1>14. \A k \in 1..Len(piece) : E[Len(before) + k] = piece[k]
  <2> SUFFICES ASSUME NEW k \in 1..Len(piece) PROVE E[Len(before) + k] = piece[k]
    OBVIOUS
  <2>1. Len(before) + k \in 1..Len(after)
    BY <1>13
  <2> QED
    BY <1>10, <1>13, <2>1
<1>15. /\ Upto(txs, m) = Len(after) /\ Upto(txs, m - 1) = Len(before)
       /\ Upto(txs, 0) = Len(g[0]) /\ Upto(txs, 1) = Len(g[1])
       /\ Upto(txs, Len(txs)) = Len(g[L])
  BY DEF Upto, g, before, after, L
<1>16. \A k \in 1..Len(piece) : E[Upto(txs, m - 1) + k] = piece[k]
  BY <1>14, <1>15
<1>17. /\ Upto(txs, m) \in Nat /\ Upto(txs, m - 1) \in Nat /\ Upto(txs, 0) = 0
       /\ Upto(txs, m) = Upto(txs, m - 1) + Len(piece)
       /\ Upto(txs, Len(txs)) = Len(E)
       /\ Upto(txs, m) <= Len(E) /\ Upto(txs, 1) <= Upto(txs, m)
  BY <1>9, <1>10, <1>11, <1>12, <1>13, <1>15
<1> QED
  BY <1>16, <1>17, Zenon DEF E, piece, L

(* A signature is not all zeros: what is missing ends before it does.      *)
LEMMA FrontSigned ==
    ASSUME Submission, sent # <<>>
    PROVE  LET last == Last(sent)
           IN /\ last = sent[Len(sent)] /\ last \in Tx /\ Len(sent) \in Nat \ {0}
              /\ Len(Raw(last)) \in Nat
              /\ Upto(sent, 1) = Len(Raw(last)) + SignatureBytes
              /\ cut < Upto(sent, 1)
<1> DEFINE last == Last(sent)
           E == Encoded(sent)
           R == Len(Raw(last))
           S == SignatureBytes
           P == Piece(last)
<1>1. sent \in Seq(Tx) /\ cut \in Nat /\ \A k \in 1..cut : E[k] = 0
  BY DEF Submission, Shortened
<1>2. Len(sent) \in Nat \ {0}
  BY <1>1, EmptySeq
<1>3. last = sent[Len(sent)]
  BY DEF Last
<1>4. last \in Tx
  <2>1. Len(sent) \in 1..Len(sent)
    BY <1>2
  <2> QED
    BY <1>1, <1>3, <2>1, ElementOfSeq
<1>5. 1 \in 1..Len(sent) /\ Len(sent) - 1 + 1 = Len(sent) /\ 1 - 1 = 0
  BY <1>2
<1>6. /\ R \in Nat /\ Len(P) = R + S
      /\ \A k \in 1..S : P[R + k] = last.signature[k]
  BY <1>4, PieceIs
<1>7. PICK k \in 1..S : last.signature[k] # 0
  BY <1>4 DEF Tx
<1>8. /\ Upto(sent, 1) = Upto(sent, 0) + Len(P) /\ Upto(sent, 0) = 0
      /\ \A j \in 1..Len(P) : E[Upto(sent, 0) + j] = P[j]
  <2>1. /\ Upto(sent, 1) = Upto(sent, 1 - 1) + Len(Piece(sent[Len(sent) - 1 + 1]))
        /\ Upto(sent, 0) = 0
        /\ \A j \in 1..Len(Piece(sent[Len(sent) - 1 + 1])) :
              Encoded(sent)[Upto(sent, 1 - 1) + j] = Piece(sent[Len(sent) - 1 + 1])[j]
    BY <1>1, <1>5, LayoutIs
  <2> QED
    BY <1>3, <1>5, <2>1
<1>9. S \in Nat
  BY WidthAssumption
<1> HIDE DEF last, E, R, S, P
<1>10. R + k \in 1..Len(P) /\ 0 + (R + k) = R + k
  BY <1>6, <1>9
<1>11. E[R + k] = last.signature[k]
  BY <1>6, <1>8, <1>10
<1>12. ~(R + k <= cut)
  <2>1. R + k <= cut => R + k \in 1..cut
    BY <1>1, <1>6, <1>9
  <2> QED
    BY <1>1, <1>7, <1>11, <2>1
<1>13. Upto(sent, 1) = R + S /\ cut < Upto(sent, 1)
  BY <1>1, <1>6, <1>8, <1>9, <1>12
<1> QED
  BY <1>2, <1>3, <1>4, <1>6, <1>13 DEF last, R, S

AsSent(n) == \A k \in 1..n : ret[k] = Expected(sent[k])

(* The transactions come out in order, as they were submitted.             *)
Reading == /\ Len(ret) <= Len(sent)
           /\ i = Upto(sent, Len(sent) - Len(ret)) - cut
           /\ AsSent(Len(ret))
           /\ Len(ret) = Len(sent) => cut <= Len(Raw(Last(sent)))

(* The opcode of the one at the front was missing.                         *)
OpcodeLost == /\ Len(ret) = Len(sent) /\ i < 0
              /\ AsSent(Len(sent) - 1)
              /\ cut > Len(FlattenSeq(Last(sent).args))
              /\ cut <= Len(Raw(Last(sent)))

(* Of its signature there was a part only.                                 *)
Dropped == ret = <<>> /\ i < 0 /\ cut > Len(Raw(Last(sent)))

SentOK == ReadOK /\ (sent # <<>> => Reading \/ OpcodeLost \/ Dropped)

LEMMA InitSent == Init => SentOK
<1> SUFFICES ASSUME Init, sent # <<>> PROVE Reading
  BY InitRead DEF SentOK
<1>1. Submission
  BY InitSubmission
<1>2. sent \in Seq(Tx) /\ Len(batch) = Len(Encoded(sent)) - cut
  BY <1>1 DEF Submission, Shortened
<1>3. Len(sent) \in Nat \ {0}
  BY <1>2, EmptySeq
<1>4. ret = <<>> /\ i = Len(batch)
  BY DEF Init
<1>5. Len(ret) = 0
  BY <1>4, EmptySeq
<1>6. Upto(sent, Len(sent)) = Len(Encoded(sent))
  <2>1. Len(sent) \in 1..Len(sent)
    BY <1>3
  <2> QED
    BY <1>2, <2>1, LayoutIs
<1>7. Len(sent) - Len(ret) = Len(sent) /\ Len(ret) <= Len(sent) /\ Len(ret) # Len(sent)
  BY <1>3, <1>5
<1>8. AsSent(Len(ret))
  <2>1. 1..0 = {}
    OBVIOUS
  <2> QED
    BY <1>5, <2>1 DEF AsSent
<1> QED
  BY <1>2, <1>4, <1>6, <1>7, <1>8 DEF Reading

(* The transaction that is read next, m-th from the front.                 *)
LEMMA NextPiece ==
    ASSUME Submission, sent # <<>>, i \in Int, i > 0, Len(ret) \in Nat, Reading
    PROVE  LET m  == Len(sent) - Len(ret)
               tx == sent[Len(ret) + 1]
               b  == Upto(sent, m - 1) - cut
           IN /\ m \in 1..Len(sent) /\ tx \in Tx /\ b \in Int
              /\ i = b + Len(Piece(tx))
              /\ \A k \in 1..Len(Piece(tx)) : ByteOf(b + k) = Piece(tx)[k]
              /\ m = 1 => /\ tx = Last(sent) /\ b = -cut
                          /\ cut < Len(Raw(tx)) + SignatureBytes
              /\ m # 1 => b > 0
<1> DEFINE L == Len(sent)
           c == Len(ret)
           m == L - c
           tx == sent[c + 1]
           P == Piece(tx)
           u == Upto(sent, m - 1)
           b == u - cut
           E == Encoded(sent)
<1>1. /\ sent \in Seq(Tx) /\ cut \in Nat
      /\ \A k \in 1..Len(E) : ByteOf(k - cut) = E[k]
  BY DEF Submission, Shortened
<1>2. /\ Last(sent) = sent[L] /\ Last(sent) \in Tx /\ L \in Nat \ {0}
      /\ Upto(sent, 1) = Len(Raw(Last(sent))) + SignatureBytes
      /\ cut < Upto(sent, 1) /\ Len(Raw(Last(sent))) \in Nat
  BY FrontSigned
<1>s. SignatureBytes \in Nat
  BY WidthAssumption
<1>3. c <= L /\ i = Upto(sent, m) - cut /\ c \in Nat
  BY DEF Reading
<1>4. Upto(sent, 0) = 0
  <2>1. 1 \in 1..L
    BY <1>2
  <2> QED
    BY <1>1, <2>1, LayoutIs
<1>5. m \in 1..L
  <2>1. c # L
    <3> SUFFICES ASSUME c = L PROVE FALSE
      OBVIOUS
    <3>1. m = 0
      BY <1>2
    <3> HIDE DEF m
    <3>2. i = 0 - cut
      BY <1>3, <1>4, <3>1
    <3> QED
      BY <1>1, <3>2
  <2> QED
    BY <1>2, <1>3, <2>1
<1>6. L - m + 1 = c + 1 /\ c + 1 \in 1..L
  BY <1>2, <1>3, <1>5
<1>7. tx \in Tx
  BY <1>1, <1>6, ElementOfSeq
<1>8. /\ Upto(sent, m) = u + Len(P) /\ u \in Nat /\ Upto(sent, m) \in Nat
      /\ Upto(sent, m) <= Len(E)
      /\ \A k \in 1..Len(P) : E[u + k] = P[k]
  <2>1. /\ Upto(sent, m) = Upto(sent, m - 1) + Len(Piece(sent[L - m + 1]))
        /\ Upto(sent, m - 1) \in Nat /\ Upto(sent, m) \in Nat
        /\ Upto(sent, m) <= Len(Encoded(sent))
        /\ \A k \in 1..Len(Piece(sent[L - m + 1])) :
              Encoded(sent)[Upto(sent, m - 1) + k] = Piece(sent[L - m + 1])[k]
    <3> HIDE DEF m, L
    <3> QED
      BY <1>1, <1>5, LayoutIs DEF L
  <2> HIDE DEF m, L, c
  <2> QED
    BY <1>6, <2>1
<1>9. Len(P) \in Nat
  <2>1. P \in Seq(Byte)
    BY <1>7, PieceIs
  <2> HIDE DEF P
  <2> QED
    BY <2>1, LenProperties
<1>10. m = 1 => tx = Last(sent) /\ u = 0
  <2>1. m = 1 => c + 1 = L /\ m - 1 = 0
    BY <1>2, <1>3
  <2> HIDE DEF m, c, L
  <2> QED
    BY <1>2, <1>4, <2>1
<1>11. m # 1 => u >= Upto(sent, 1)
  <2> SUFFICES ASSUME m # 1 PROVE u >= Upto(sent, 1)
    OBVIOUS
  <2>1. m - 1 \in 1..L
    BY <1>2, <1>5
  <2> DEFINE n == m - 1
  <2> HIDE DEF n
  <2>2. n \in 1..Len(sent)
    BY <2>1 DEF n
  <2>3. Upto(sent, 1) <= Upto(sent, n)
    BY <1>1, <2>2, LayoutIs
  <2>4. u = Upto(sent, n)
    BY DEF n
  <2>5. u \in Nat /\ Upto(sent, 1) \in Nat
    BY <1>2, <1>s, <1>8
  <2> HIDE DEF u
  <2> QED
    BY <2>3, <2>4, <2>5
<1> HIDE DEF L, c, m, tx, P, u, E
<1>12. b \in Int /\ i = b + Len(P)
  BY <1>1, <1>3, <1>8, <1>9
<1>13. \A k \in 1..Len(P) : ByteOf(b + k) = P[k]
  <2> SUFFICES ASSUME NEW k \in 1..Len(P) PROVE ByteOf(b + k) = P[k]
    OBVIOUS
  <2>0. Len(E) \in Nat
    <3>1. E \in Seq(Byte)
      BY <1>1, EncodedIs DEF E
    <3> QED
      BY <3>1, LenProperties
  <2>1. u + k \in 1..Len(E) /\ b + k = (u + k) - cut
    BY <1>1, <1>8, <1>9, <2>0
  <2> QED
    BY <1>1, <1>8, <2>1
<1>14. m # 1 => b > 0
  <2>1. Upto(sent, 1) \in Nat
    BY <1>2, <1>s
  <2> QED
    BY <1>1, <1>2, <1>8, <1>11, <2>1
<1>15. m = 1 => /\ tx = Last(sent) /\ b = -cut
                /\ cut < Len(Raw(tx)) + SignatureBytes
  BY <1>1, <1>2, <1>10
<1> QED
  BY <1>5, <1>7, <1>12, <1>13, <1>14, <1>15, Zenon DEF L, c, m, tx, P, u

LEMMA SentNotValid ==
    ASSUME SentOK, NotValid, sent # <<>>
    PROVE  Dropped'
<1>1. /\ i > 0 /\ i - SignatureBytes < 0 /\ ret' = <<>> /\ i' = i - SignatureBytes
      /\ sent' = sent /\ cut' = cut
  BY DEF NotValid
<1>2. Submission /\ i \in Int /\ Len(ret) \in Nat /\ cut \in Nat
  <2>1. ret \in Seq(ParsedTx)
    BY DEF SentOK, ReadOK
  <2> QED
    BY <2>1, LenProperties DEF SentOK, ReadOK, Submission
<1>3. Reading
  BY <1>1, <1>2 DEF SentOK, OpcodeLost, Dropped
<1> DEFINE m == Len(sent) - Len(ret)
           tx == sent[Len(ret) + 1]
           b == Upto(sent, m - 1) - cut
           S == SignatureBytes
           R == Len(Raw(tx))
<1>4. /\ m \in 1..Len(sent) /\ tx \in Tx /\ b \in Int
      /\ i = b + Len(Piece(tx))
      /\ m = 1 => tx = Last(sent) /\ b = -cut
      /\ m # 1 => b > 0
  BY <1>1, <1>2, <1>3, NextPiece
<1>5. R \in Nat /\ Len(Piece(tx)) = R + S /\ S \in Nat
  BY <1>4, PieceIs, WidthAssumption
<1> HIDE DEF m, tx, b, S, R
<1>6. i = b + R + S /\ i - S < 0 /\ i \in Int
  <2>1. i = b + (R + S)
    BY <1>4, <1>5
  <2> QED
    BY <1>1, <1>2, <1>4, <1>5, <2>1 DEF S
<1>7. m = 1
  BY <1>4, <1>5, <1>6
<1>8. cut > R
  BY <1>2, <1>4, <1>5, <1>6, <1>7
<1> QED
  BY <1>1, <1>4, <1>7, <1>8 DEF Dropped, R

LEMMA SentParseTx ==
    ASSUME SentOK, ParseTx, sent # <<>>
    PROVE  Reading' \/ OpcodeLost'
<1>1. Submission /\ i \in Int /\ i <= Len(batch) /\ batch \in Seq(Byte)
      /\ ret \in Seq(ParsedTx) /\ cut \in Nat
  BY DEF SentOK, ReadOK, Submission
<1>2. /\ i > 0 /\ i - SignatureBytes >= 0
      /\ ret' = Append(ret, Read)
      /\ i' = OpAt - Total(Arguments(Read.opcode))
      /\ sent' = sent /\ cut' = cut /\ batch' = batch
  BY <1>1, ParseTxReads
<1>3. Read \in ParsedTx /\ OpAt \in Int /\ Total(Arguments(Read.opcode)) \in Nat
  BY <1>1, <1>2, ReadFields
<1>4. /\ Len(ret) \in Nat /\ Len(ret') = Len(ret) + 1
      /\ \A n \in 1..Len(ret) : ret'[n] = ret[n]
      /\ ret'[Len(ret')] = Read
  BY <1>1, <1>2, <1>3, Appended
<1>5. Reading
  BY <1>1, <1>2 DEF SentOK, OpcodeLost, Dropped
<1> DEFINE c == Len(ret)
           m == Len(sent) - c
           tx == sent[c + 1]
           b == Upto(sent, m - 1) - cut
           S == SignatureBytes
           H == ShipBytes
           R == Len(Raw(tx))
           t == Total(Arguments(tx.opcode))
<1>6. /\ m \in 1..Len(sent) /\ tx \in Tx /\ b \in Int
      /\ i = b + Len(Piece(tx))
      /\ \A k \in 1..Len(Piece(tx)) : ByteOf(b + k) = Piece(tx)[k]
      /\ m = 1 => tx = Last(sent) /\ b = -cut
      /\ m # 1 => b > 0
  BY <1>1, <1>2, <1>4, <1>5, NextPiece
<1>7. R \in Nat /\ Len(Piece(tx)) = R + S /\ S \in Nat /\ H \in Nat
  BY <1>6, PieceIs, WidthAssumption
<1>8. R = t + H + 2 /\ Len(FlattenSeq(tx.args)) = t /\ t \in Nat
  <2>1. R = t + H + 2
    BY <1>6, RawIs
  <2>2. Len(FlattenSeq(tx.args)) = t
    BY <1>6, TxLaid
  <2>3. Len(ArgsOf(tx)) = t /\ ArgsOf(tx) \in Seq(Byte)
    BY <1>6, TxLaid
  <2>4. t \in Nat
    BY <2>3, LenProperties
  <2> QED
    BY <2>1, <2>2, <2>4
<1>9. Len(sent) \in Nat \ {0}
  BY <1>1, FrontSigned
<1>10. OpAt = i - S - 1 - H - 1
  BY DEF OpAt
<1>11. AsSent(c)
  BY <1>5 DEF Reading
<1>12. /\ c \in Nat /\ Len(ret') = c + 1 /\ c + 1 <= Len(sent)
       /\ Len(sent) - (c + 1) = m - 1 /\ (m = 1 <=> c + 1 = Len(sent))
  BY <1>4, <1>6, <1>9
<1>13. (b + t >= 0) => Read = Expected(tx) /\ OpAt - Total(Arguments(Read.opcode)) = b
  BY <1>1, <1>6, ReadsTx
<1> HIDE DEF S, H, R, t
<1>14. i = b + R + S /\ OpAt = b + t
  <2> HIDE DEF b, m, c, tx
  <2>1. i = b + (R + S) /\ i \in Int /\ b \in Int /\ R \in Int /\ S \in Int /\ H \in Int /\ t \in Int
    BY <1>1, <1>6, <1>7, <1>8
  <2>2. i = b + R + S
    BY <2>1
  <2>3. OpAt = b + t
    BY <1>8, <1>10, <2>1, <2>2
  <2> QED
    BY <2>2, <2>3
<1>15. m = 1 => cut <= R
  <2> HIDE DEF b, m, c, tx
  <2>1. i - S >= 0
    BY <1>2 DEF S
  <2> QED
    BY <1>1, <1>6, <1>7, <1>14, <2>1
<1>16. CASE b + t >= 0
  <2>1. i' = b /\ Read = Expected(tx)
    BY <1>2, <1>13, <1>16
  <2>2. AsSent(Len(ret))'
    <3> SUFFICES ASSUME NEW k \in 1..(c + 1) PROVE ret'[k] = Expected(sent[k])
      BY <1>2, <1>12, Zenon DEF AsSent
    <3>1. k \in 1..c \/ k = c + 1
      <4>1. c \in Nat
        BY <1>12
      <4> HIDE DEF c, m, tx, b
      <4> QED
        BY <4>1
    <3>2. ASSUME k \in 1..c PROVE ret'[k] = Expected(sent[k])
      BY <1>4, <1>11, <3>2 DEF AsSent
    <3>3. ret'[c + 1] = Expected(sent[c + 1])
      BY <1>4, <1>12, <2>1
    <3> QED
      BY <3>1, <3>2, <3>3
  <2>3. Len(ret') <= Len(sent') /\ Len(sent') - Len(ret') = m - 1
    BY <1>2, <1>12
  <2>4. i' = Upto(sent', Len(sent') - Len(ret')) - cut'
    <3> HIDE DEF m
    <3> QED
      BY <1>2, <2>1, <2>3
  <2>5. Len(ret') = Len(sent') => cut' <= Len(Raw(Last(sent')))
    <3>1. Len(ret') = Len(sent) => m = 1
      BY <1>12
    <3> HIDE DEF m, c, tx, b
    <3> QED
      BY <1>2, <1>6, <1>15, <3>1 DEF R
  <2> QED
    BY <2>2, <2>3, <2>4, <2>5 DEF Reading
<1>17. CASE b + t < 0
  <2>1. m = 1
    <3> HIDE DEF m, c, tx, b
    <3> QED
      BY <1>6, <1>8, <1>17
  <2>2. tx = Last(sent) /\ b = -cut /\ c + 1 = Len(sent) /\ cut <= R
    BY <1>6, <1>12, <1>15, <2>1
  <2> HIDE DEF m, b
  <2>3. cut > t
    BY <1>1, <1>8, <1>17, <2>2
  <2>4. i' < 0
    <3> HIDE DEF c, tx
    <3> QED
      BY <1>2, <1>3, <1>6, <1>8, <1>14, <1>17
  <2>5. Len(sent) - 1 = c /\ Len(ret') = Len(sent)
    BY <1>12, <2>2
  <2>6. AsSent(Len(sent) - 1)'
    <3> SUFFICES ASSUME NEW k \in 1..c PROVE ret'[k] = Expected(sent[k])
      BY <1>2, <2>5, Zenon DEF AsSent
    <3> QED
      BY <1>4, <1>11 DEF AsSent
  <2>7. /\ cut' > Len(FlattenSeq(Last(sent').args))
        /\ cut' <= Len(Raw(Last(sent')))
    <3> HIDE DEF c, tx
    <3> QED
      BY <1>2, <1>8, <2>2, <2>3 DEF R
  <2> QED
    BY <1>2, <2>4, <2>5, <2>6, <2>7 DEF OpcodeLost
<1>18. b + t >= 0 \/ b + t < 0
  <2> HIDE DEF b
  <2> QED
    BY <1>6, <1>8
<1> QED
  BY <1>16, <1>17, <1>18

LEMMA SentStep == SentOK /\ [Next]_vars => SentOK'
<1> SUFFICES ASSUME SentOK, [Next]_vars PROVE SentOK'
  OBVIOUS
<1>1. ReadOK'
  BY ReadStep DEF SentOK
<1>2. ASSUME sent' # <<>> PROVE (Reading \/ OpcodeLost \/ Dropped)'
  <2>1. sent' = sent
    BY DEF Next, NotValid, ParseTx, vars
  <2>2. sent # <<>>
    BY <1>2, <2>1
  <2>3. CASE NotValid
    BY <2>2, <2>3, SentNotValid
  <2>4. CASE ParseTx
    BY <2>2, <2>4, SentParseTx
  <2>5. CASE UNCHANGED vars
    <3>1. sent' = sent /\ cut' = cut /\ i' = i /\ ret' = ret
      BY <2>5 DEF vars
    <3>2. Reading \/ OpcodeLost \/ Dropped
      BY <2>2 DEF SentOK
    <3> QED
      BY <3>1, <3>2 DEF Reading, OpcodeLost, Dropped, AsSent
  <2> QED
    BY <2>3, <2>4, <2>5 DEF Next
<1> QED
  BY <1>1, <1>2 DEF SentOK

(* Of a batch that was submitted, the parser is reading it in order, or is *)
(* at the end, with the opcode of the front lost or the batch dropped      *)
(* (naive_parser.go:303-381).                                              *)
THEOREM SentAlways == Spec => []SentOK
BY InitSent, SentStep, PTL DEF Spec

(* When the loop is over, every transaction was read, or none.             *)
LEMMA WhenDone ==
    ASSUME SentOK, sent # <<>>, Done
    PROVE  /\ Reading => Len(ret) = Len(sent)
           /\ Reading \/ OpcodeLost \/ Dropped
           /\ Len(sent) \in Nat \ {0} /\ ret \in Seq(ParsedTx) /\ sent \in Seq(Tx)
           /\ cut \in Nat /\ Last(sent) \in Tx /\ Len(Raw(Last(sent))) \in Nat
           /\ Len(FlattenSeq(Last(sent).args)) <= Len(Raw(Last(sent)))
           /\ Len(FlattenSeq(Last(sent).args)) \in Nat
<1>1. /\ Submission /\ i \in Int /\ ret \in Seq(ParsedTx) /\ cut \in Nat
      /\ Reading \/ OpcodeLost \/ Dropped
      /\ sent \in Seq(Tx)
  BY DEF SentOK, ReadOK, Submission
<1>2. /\ Last(sent) \in Tx /\ Len(sent) \in Nat \ {0} /\ Len(Raw(Last(sent))) \in Nat
      /\ Upto(sent, 1) = Len(Raw(Last(sent))) + SignatureBytes /\ cut < Upto(sent, 1)
  BY <1>1, FrontSigned
<1>3. ASSUME Reading PROVE Len(ret) = Len(sent)
  <2>1. Len(ret) \in Nat /\ Len(ret) <= Len(sent)
    BY <1>1, <1>3, LenProperties DEF Reading
  <2>2. SUFFICES ASSUME Len(ret) # Len(sent) PROVE FALSE
    OBVIOUS
  <2> DEFINE m == Len(sent) - Len(ret)
  <2>3. m \in 1..Len(sent)
    BY <1>2, <2>1, <2>2
  <2>4. i = Upto(sent, m) - cut
    BY <1>3 DEF Reading
  <2> HIDE DEF m
  <2>5. Upto(sent, 1) <= Upto(sent, m) /\ Upto(sent, m) \in Nat
    BY <1>1, <2>3, LayoutIs
  <2>6. i <= 0
    BY DEF Done
  <2>7. Upto(sent, 1) \in Nat
    BY <1>2, WidthAssumption
  <2> QED
    BY <1>1, <1>2, <2>4, <2>5, <2>6, <2>7
<1>4. /\ Len(FlattenSeq(Last(sent).args)) <= Len(Raw(Last(sent)))
      /\ Len(FlattenSeq(Last(sent).args)) \in Nat
  <2> DEFINE tx == Last(sent)
             t == Total(Arguments(tx.opcode))
  <2>1. Len(Raw(tx)) = t + ShipBytes + 2
    BY <1>2, RawIs
  <2>2. Len(FlattenSeq(tx.args)) = t /\ Len(ArgsOf(tx)) = t /\ ArgsOf(tx) \in Seq(Byte)
    BY <1>2, TxLaid
  <2>3. t \in Nat
    BY <2>2, LenProperties
  <2>4. ShipBytes \in Nat
    BY WidthAssumption
  <2> HIDE DEF t, tx
  <2>5. Len(FlattenSeq(tx.args)) <= Len(Raw(tx)) /\ Len(FlattenSeq(tx.args)) \in Nat
    BY <2>1, <2>2, <2>3, <2>4
  <2> QED
    BY <2>5 DEF tx
<1> QED
  BY <1>1, <1>2, <1>3, <1>4

(* A batch comes out of the parser as it was submitted, also when the      *)
(* zeros at its front were lost, as long as they are zeros of the          *)
(* arguments of the last transaction (naive_parser.go:307-381).            *)
THEOREM ParsesAsSent == Spec => []ParsedAsSent
<1>1. SentOK => ParsedAsSent
  <2> SUFFICES ASSUME SentOK, Done, sent # <<>>, OpcodeThere
               PROVE  ret = [n \in DOMAIN sent |-> Expected(sent[n])]
    BY DEF ParsedAsSent
  <2>1. /\ Reading => Len(ret) = Len(sent)
        /\ Reading \/ OpcodeLost \/ Dropped
        /\ Len(sent) \in Nat \ {0} /\ ret \in Seq(ParsedTx) /\ sent \in Seq(Tx)
        /\ cut \in Nat /\ Len(Raw(Last(sent))) \in Nat
        /\ Len(FlattenSeq(Last(sent).args)) <= Len(Raw(Last(sent)))
        /\ Len(FlattenSeq(Last(sent).args)) \in Nat
    BY WhenDone
  <2>2. cut <= Len(FlattenSeq(Last(sent).args))
    BY DEF OpcodeThere
  <2>3. ~OpcodeLost /\ ~Dropped
    BY <2>1, <2>2 DEF OpcodeLost, Dropped
  <2>4. Len(ret) = Len(sent) /\ AsSent(Len(sent))
    BY <2>1, <2>3 DEF Reading
  <2>5. DOMAIN sent = 1..Len(sent) /\ ret = [n \in 1..Len(sent) |-> ret[n]]
    BY <2>1, <2>4, LenProperties
  <2> QED
    BY <2>4, <2>5 DEF AsSent
<1> QED
  BY <1>1, SentAlways, PTL

(* However many zeros at its front were lost, the other transactions come  *)
(* out as they were submitted; when the signature of the last does not fit *)
(* any more, none does (naive_parser.go:310-316).                          *)
THEOREM ReadsAllOrNothing == Spec => []AllOrNothing
<1>1. SentOK => AllOrNothing
  <2> SUFFICES ASSUME SentOK, Done, sent # <<>>
               PROVE  IF cut > Len(Raw(Last(sent))) THEN ret = <<>>
                      ELSE /\ Len(ret) = Len(sent)
                           /\ \A n \in 1..(Len(sent) - 1) : ret[n] = Expected(sent[n])
    BY DEF AllOrNothing
  <2>1. /\ Reading => Len(ret) = Len(sent)
        /\ Reading \/ OpcodeLost \/ Dropped
        /\ Len(sent) \in Nat \ {0} /\ cut \in Nat /\ Len(Raw(Last(sent))) \in Nat
    BY WhenDone
  <2>2. CASE Reading
    <3>1. Len(ret) = Len(sent) /\ AsSent(Len(sent)) /\ cut <= Len(Raw(Last(sent)))
      BY <2>1, <2>2 DEF Reading
    <3>2. \A n \in 1..(Len(sent) - 1) : n \in 1..Len(sent)
      BY <2>1
    <3>3. ~(cut > Len(Raw(Last(sent))))
      BY <2>1, <3>1
    <3> QED
      BY <3>1, <3>2, <3>3 DEF AsSent
  <2>3. CASE OpcodeLost
    <3>1. ~(cut > Len(Raw(Last(sent))))
      BY <2>1, <2>3 DEF OpcodeLost
    <3> QED
      BY <2>3, <3>1 DEF OpcodeLost, AsSent
  <2>4. CASE Dropped
    BY <2>4 DEF Dropped
  <2> QED
    BY <2>1, <2>2, <2>3, <2>4
<1> QED
  BY <1>1, SentAlways, PTL

=============================================================================
