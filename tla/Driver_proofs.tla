---------------------------- MODULE Driver_proofs -----------------------------
(***************************************************************************)
(* Proofs about Clock and Driver: keys give their clocks back, and sort by  *)
(* clock while clocks have at most two bytes; and a walk over two trees, of *)
(* whatever shape, brings all that the source has, in that order.  And     *)
(* about Iteration: who reads a log while it is written reads all there    *)
(* is, of one moment.                                                      *)
(***************************************************************************)
EXTENDS Driver, LogAccess, SequenceTheorems, FiniteSetTheorems, WellFoundedInduction, TLAPS

-----------------------------------------------------------------------------
(* Keys *)

\* A clock below 128 is its own byte.
LEMMA ShortKey ==
  ASSUME NEW clock \in Nat, clock < N1, NEW hash
  PROVE Key(clock, hash)[1] = clock
<1>1. EncodingLength(clock) = 1
  BY DEF EncodingLength
<1>2. Group(clock, 0) = clock
  BY DEF Group, N1
<1>3. EncodeClock(clock) = [i \in 1..1 |-> clock]
  BY <1>1, <1>2 DEF EncodeClock
<1>4. Len(EncodeClock(clock)) = 1 /\ EncodeClock(clock)[1] = clock
  BY <1>3
<1>. QED
  BY <1>4, KeyLengthAssumption DEF Key

\* A clock of two bytes has its upper bits, and a continuation bit, in the first.
LEMMA LongKey ==
  ASSUME NEW clock \in Nat, N1 <= clock, clock < N2, NEW hash
  PROVE /\ Key(clock, hash)[1] = clock \div 128 + 128
        /\ Key(clock, hash)[2] = clock % 128
<1>1. EncodingLength(clock) = 2
  BY DEF EncodingLength, N1, N2
<1>2. Group(clock, 0) = clock % 128
  BY DEF Group
<1>3. clock \div 128 \in Nat /\ clock \div 128 < 128
  BY DEF N1, N2
<1>4. Group(clock, 1) = clock \div 128
  BY <1>3 DEF Group, N1
<1>5. EncodeClock(clock) =
        [i \in 1..2 |-> Group(clock, 2 - i) + (IF i < 2 THEN 128 ELSE 0)]
  BY <1>1 DEF EncodeClock
<1>6. /\ Len(EncodeClock(clock)) = 2
      /\ EncodeClock(clock)[1] = clock \div 128 + 128
      /\ EncodeClock(clock)[2] = clock % 128
  BY <1>2, <1>4, <1>5
<1>. QED
  BY <1>6, KeyLengthAssumption DEF Key

\* Below clock 16384 the key of an earlier clock comes first, whatever the hashes
\* (clock.ts:24-46, schema.ts:63-69): a clock with fewer bytes has a smaller first
\* byte, and clocks of two bytes compare group by group.
THEOREM KeysFollowClocks ==
  ASSUME NEW c \in Nat, NEW d \in Nat, c < d, d < N2, NEW g, NEW h
  PROVE KeyBefore(Key(c, g), Key(d, h))
<1>1. 1 \in 1..KeyLength /\ 2 \in 1..KeyLength
  BY KeyLengthAssumption
<1>2. ASSUME Key(c, g)[1] < Key(d, h)[1]
      PROVE KeyBefore(Key(c, g), Key(d, h))
  BY <1>1, <1>2 DEF KeyBefore
<1>3. CASE d < N1
  <2>1. Key(c, g)[1] = c /\ Key(d, h)[1] = d
    BY <1>3, ShortKey DEF N1
  <2>. QED
    BY <2>1, <1>2
<1>4. CASE c < N1 /\ d >= N1
  <2>1. Key(c, g)[1] = c /\ Key(d, h)[1] = d \div 128 + 128
    BY <1>4, ShortKey, LongKey
  <2>2. c < 128 /\ d \div 128 \in Nat
    BY <1>4 DEF N1
  <2>. QED
    BY <2>1, <2>2, <1>2
<1>5. CASE c >= N1
  <2>1. /\ Key(c, g)[1] = c \div 128 + 128 /\ Key(c, g)[2] = c % 128
        /\ Key(d, h)[1] = d \div 128 + 128 /\ Key(d, h)[2] = d % 128
    BY <1>5, LongKey DEF N1, N2
  <2>2. CASE c \div 128 = d \div 128
    <3>1. c % 128 < d % 128
      BY <2>2
    <3>2. Key(c, g)[2] < Key(d, h)[2] /\ \A j \in 1..(2 - 1) : Key(c, g)[j] = Key(d, h)[j]
      BY <2>1, <2>2, <3>1
    <3>. QED
      BY <1>1, <3>2 DEF KeyBefore
  <2>3. CASE c \div 128 < d \div 128
    BY <2>1, <2>3, <1>2
  <2>4. c \div 128 <= d \div 128
    OBVIOUS
  <2>. QED
    BY <2>2, <2>3, <2>4
<1>. QED
  BY <1>3, <1>4, <1>5 DEF N1

\* The groups of a clock, from the last.
LEMMA Groups ==
  ASSUME NEW clock \in Nat, clock < N4
  PROVE  /\ \A k \in 0..3 : Group(clock, k) \in 0..127
         /\ clock < N1 => clock = Group(clock, 0)
         /\ clock < N2 => clock = Group(clock, 1) * N1 + Group(clock, 0)
         /\ clock < N3 => clock = Group(clock, 2) * N2 + Group(clock, 1) * N1 + Group(clock, 0)
         /\ clock = Group(clock, 3) * N3 + Group(clock, 2) * N2 + Group(clock, 1) * N1 + Group(clock, 0)
<1>1. PICK x \in Nat, d \in Nat : d < 128 /\ clock = x * 128 + d
  <2>1. /\ clock % 128 \in 0..127 /\ (clock \div 128) \in Nat
        /\ clock = (clock \div 128) * 128 + (clock % 128)
    OBVIOUS
  <2> QED
    BY <2>1
<1>2. PICK y \in Nat, c \in Nat : c < 128 /\ x = y * 128 + c
  <2>1. x % 128 \in 0..127 /\ (x \div 128) \in Nat /\ x = (x \div 128) * 128 + (x % 128)
    OBVIOUS
  <2> QED
    BY <2>1
<1>3. PICK a \in Nat, b \in Nat : b < 128 /\ y = a * 128 + b
  <2>1. y % 128 \in 0..127 /\ (y \div 128) \in Nat /\ y = (y \div 128) * 128 + (y % 128)
    OBVIOUS
  <2> QED
    BY <2>1
<1>4. clock = ((a * 128 + b) * 128 + c) * 128 + d
  BY <1>1, <1>2, <1>3
<1>5. a < 128
  <2>1. clock < 128 * 128 * 128 * 128
    BY DEF N4, N3, N2, N1
  <2> QED
    BY <1>4, <2>1
<1>6. a < 128 /\ b < 128 /\ c < 128 /\ d < 128
  BY <1>1, <1>2, <1>3, <1>5
<1>7. /\ clock \div 128 = (a * 128 + b) * 128 + c /\ clock % 128 = d
      /\ clock \div (128 * 128) = a * 128 + b /\ clock \div (128 * 128 * 128) = a
  BY <1>4, <1>6
<1>8. /\ ((a * 128 + b) * 128 + c) % 128 = c /\ (a * 128 + b) % 128 = b /\ a % 128 = a
  BY <1>6
<1>9. N1 = 128 /\ N2 = 128 * 128 /\ N3 = 128 * 128 * 128
  BY DEF N1, N2, N3
<1>10. Group(clock, 0) = d /\ Group(clock, 1) = c /\ Group(clock, 2) = b /\ Group(clock, 3) = a
  BY <1>7, <1>8, <1>9 DEF Group
<1>11. /\ clock < 128 => a = 0 /\ b = 0 /\ c = 0
       /\ clock < 128 * 128 => a = 0 /\ b = 0
       /\ clock < 128 * 128 * 128 => a = 0
  BY <1>4, <1>6
<1>12. \A k \in 0..3 : k = 0 \/ k = 1 \/ k = 2 \/ k = 3
  OBVIOUS
<1>13. \A k \in 0..3 : Group(clock, k) \in 0..127
  BY <1>6, <1>10, <1>12
<1>14. clock = a * N3 + b * N2 + c * N1 + d
  <2>1. ((a * 128 + b) * 128 + c) * 128 + d
          = a * (128 * 128 * 128) + b * (128 * 128) + c * 128 + d
    OBVIOUS
  <2> QED
    BY <1>4, <1>9, <2>1
<1>15. /\ clock < N1 => clock = Group(clock, 0)
       /\ clock < N2 => clock = Group(clock, 1) * N1 + Group(clock, 0)
       /\ clock < N3 => clock = Group(clock, 2) * N2 + Group(clock, 1) * N1 + Group(clock, 0)
  BY <1>4, <1>9, <1>10, <1>11
<1> QED
  BY <1>10, <1>13, <1>14, <1>15

\* What is decoded from a key is the clock that it was made of, with as many bytes
\* as it has, whatever hash follows (clock.ts:24-66, schema.ts:63-69).
THEOREM ClocksDecoded ==
  ASSUME NEW clock \in Nat, clock < N4, NEW hash
  PROVE  DecodeClock(Key(clock, hash)) = clock /\ ClockLength(Key(clock, hash)) = Len(EncodeClock(clock))
<1>1. PICK n \in 1..4 : n = EncodingLength(clock)
  BY DEF EncodingLength
<1>2. EncodeClock(clock) = [i \in 1..n |-> Group(clock, n - i) + IF i < n THEN 128 ELSE 0]
  BY <1>1 DEF EncodeClock
<1>3. Len(EncodeClock(clock)) = n
  BY <1>2
<1>4. \A i \in 1..n : Key(clock, hash)[i] = Group(clock, n - i) + IF i < n THEN 128 ELSE 0
  <2>1. \A i \in 1..n : i \in 1..KeyLength /\ i <= Len(EncodeClock(clock))
    BY <1>3, KeyLengthAssumption
  <2> QED
    BY <1>2, <2>1 DEF Key
<1>5. \A i \in 1..n : n - i \in 0..3
  OBVIOUS
<1>6. \A i \in 1..n :
        /\ i < n => Key(clock, hash)[i] >= 128 /\ Key(clock, hash)[i] % 128 = Group(clock, n - i)
        /\ i = n => Key(clock, hash)[i] < 128 /\ Key(clock, hash)[i] % 128 = Group(clock, 0)
  <2>1. \A i \in 1..n : Group(clock, n - i) \in 0..127
    BY <1>5, Groups
  <2>2. \A g \in 0..127 : (g + 128) % 128 = g /\ (g + 0) % 128 = g /\ g + 0 < 128 /\ g + 128 >= 128
    OBVIOUS
  <2>3. \A i \in 1..n : i = n => Group(clock, n - i) = Group(clock, 0)
    <3>1. n - n = 0
      OBVIOUS
    <3> QED
      BY <3>1
  <2>4. ASSUME NEW i \in 1..n, i < n
        PROVE  Key(clock, hash)[i] >= 128 /\ Key(clock, hash)[i] % 128 = Group(clock, n - i)
    <3>1. Key(clock, hash)[i] = Group(clock, n - i) + 128
      BY <1>4, <2>4
    <3> QED
      BY <2>1, <2>2, <3>1
  <2>5. ASSUME NEW i \in 1..n, i = n
        PROVE  Key(clock, hash)[i] < 128 /\ Key(clock, hash)[i] % 128 = Group(clock, 0)
    <3>1. Key(clock, hash)[i] = Group(clock, n - i) + 0
      BY <1>4, <2>5
    <3> QED
      BY <2>1, <2>2, <2>3, <2>5, <3>1
  <2> QED
    BY <2>4, <2>5
<1>7. ClockLength(Key(clock, hash)) = n
  <2> DEFINE Ends(m) == Key(clock, hash)[m] < 128 /\ \A i \in 1..(m - 1) : Key(clock, hash)[i] >= 128
  <2>1. Ends(n)
    <3>1. \A i \in 1..(n - 1) : i \in 1..n /\ i < n
      OBVIOUS
    <3> QED
      BY <1>6, <3>1
  <2>2. ASSUME NEW m \in 1..4, Ends(m) PROVE m = n
    <3>1. CASE m < n
      <4>1. m \in 1..n /\ Key(clock, hash)[m] >= 128
        BY <1>6, <3>1
      <4>2. Key(clock, hash)[m] \in Int
        <5>1. n - m \in 0..3 /\ m \in 1..n
          BY <3>1
        <5>2. Key(clock, hash)[m] = Group(clock, n - m) + 128 /\ Group(clock, n - m) \in 0..127
          BY <1>4, <3>1, <5>1, Groups
        <5> QED
          BY <5>2
      <4> QED
        BY <2>2, <4>1, <4>2
    <3>2. CASE m > n
      <4>1. n \in 1..(m - 1)
        BY <3>2
      <4>2. Key(clock, hash)[n] >= 128 /\ Key(clock, hash)[n] < 128
        BY <1>6, <2>2, <4>1
      <4>3. Key(clock, hash)[n] \in Int
        <5>1. 0 \in 0..3 /\ n \in 1..n /\ n - n = 0
          OBVIOUS
        <5>2. Key(clock, hash)[n] = Group(clock, 0) + 0 /\ Group(clock, 0) \in 0..127
          BY <1>4, <5>1, Groups
        <5> QED
          BY <5>2
      <4> QED
        BY <4>2, <4>3
    <3> QED
      BY <3>1, <3>2
  <2> QED
    BY <2>1, <2>2 DEF ClockLength
<1>8. (n = 1 => clock < N1) /\ (n = 2 => clock < N2) /\ (n = 3 => clock < N3)
  BY <1>1 DEF EncodingLength
<1>9. \A i \in 1..n : Key(clock, hash)[i] % 128 = Group(clock, n - i)
  <2>1. n - n = 0 /\ \A i \in 1..n : i < n \/ i = n
    OBVIOUS
  <2> QED
    BY <1>6, <2>1
<1>10. DecodeClock(Key(clock, hash)) = clock
  <2>1. CASE n = 1
    <3>1. Key(clock, hash)[1] % 128 = Group(clock, 0)
      <4>1. 1 \in 1..n /\ n - 1 = 0
        BY <2>1
      <4> QED
        BY <1>9, <4>1
    <3> QED
      BY <1>7, <1>8, <2>1, <3>1, Groups DEF DecodeClock
  <2>2. CASE n = 2
    <3>1. Key(clock, hash)[1] % 128 = Group(clock, 1) /\ Key(clock, hash)[2] % 128 = Group(clock, 0)
      <4>1. {1, 2} \subseteq 1..n /\ n - 1 = 1 /\ n - 2 = 0
        BY <2>2
      <4> QED
        BY <1>9, <4>1
    <3> QED
      BY <1>7, <1>8, <2>2, <3>1, Groups DEF DecodeClock
  <2>3. CASE n = 3
    <3>1. /\ Key(clock, hash)[1] % 128 = Group(clock, 2) /\ Key(clock, hash)[2] % 128 = Group(clock, 1)
          /\ Key(clock, hash)[3] % 128 = Group(clock, 0)
      <4>1. {1, 2, 3} \subseteq 1..n /\ n - 1 = 2 /\ n - 2 = 1 /\ n - 3 = 0
        BY <2>3
      <4> QED
        BY <1>9, <4>1
    <3> QED
      BY <1>7, <1>8, <2>3, <3>1, Groups DEF DecodeClock
  <2>4. CASE n = 4
    <3>1. /\ Key(clock, hash)[1] % 128 = Group(clock, 3) /\ Key(clock, hash)[2] % 128 = Group(clock, 2)
          /\ Key(clock, hash)[3] % 128 = Group(clock, 1) /\ Key(clock, hash)[4] % 128 = Group(clock, 0)
      <4>1. {1, 2, 3, 4} \subseteq 1..n /\ n - 1 = 3 /\ n - 2 = 2 /\ n - 3 = 1 /\ n - 4 = 0
        BY <2>4
      <4> QED
        BY <1>9, <4>1
    <3> QED
      BY <1>7, <2>4, <3>1, Groups DEF DecodeClock
  <2> QED
    BY <2>1, <2>2, <2>3, <2>4
<1> QED
  BY <1>3, <1>7, <1>10

-----------------------------------------------------------------------------
(* Sets in an order *)

\* A strict order of a set.
Orders(R, S) ==
  /\ \A x \in S : <<x, x>> \notin R
  /\ \A x, y \in S : x # y => <<x, y>> \in R \/ <<y, x>> \in R
  /\ \A x, y, z \in S : <<x, y>> \in R /\ <<y, z>> \in R => <<x, z>> \in R

Before(R, S, x) == {y \in S : <<y, x>> \in R}

\* The i-th element has i - 1 before it.
IsOrdered(R, S, s) ==
  /\ Cardinality(S) \in Nat /\ s \in Seq(S) /\ Len(s) = Cardinality(S)
  /\ \A x \in S : \E i \in DOMAIN s : s[i] = x
  /\ \A i, j \in DOMAIN s : i < j => <<s[i], s[j]>> \in R

LEMMA InOrderOf ==
  ASSUME NEW S, IsFiniteSet(S), NEW R, Orders(R, S),
         NEW s, s = [i \in 1..Cardinality(S) |-> s[i]],
         \A i \in 1..Cardinality(S) :
           (\E x \in S : Cardinality(Before(R, S, x)) = i - 1) =>
             s[i] \in S /\ Cardinality(Before(R, S, s[i])) = i - 1
  PROVE  IsOrdered(R, S, s)
  <1>n. PICK n : n = Cardinality(S) /\ n \in Nat
    BY FS_CardinalityType
  <1>1. ASSUME NEW x \in S
        PROVE  /\ IsFiniteSet(Before(R, S, x)) /\ Cardinality(Before(R, S, x)) \in 0..(n - 1)
    <2>1. Before(R, S, x) \in SUBSET S /\ x \notin Before(R, S, x)
      BY DEF Before, Orders
    <2>2. /\ IsFiniteSet(Before(R, S, x)) /\ Cardinality(Before(R, S, x)) <= n
          /\ n # Cardinality(Before(R, S, x))
      BY <1>n, <2>1, FS_Subset
    <2>3. Cardinality(Before(R, S, x)) \in Nat
      BY <2>2, FS_CardinalityType
    <2> QED
      BY <1>n, <2>2, <2>3
  <1>2. ASSUME NEW x \in S, NEW y \in S, <<x, y>> \in R
        PROVE  Cardinality(Before(R, S, x)) < Cardinality(Before(R, S, y))
    <2>1. /\ Before(R, S, x) \in SUBSET Before(R, S, y)
          /\ x \in Before(R, S, y) /\ x \notin Before(R, S, x)
      BY <1>2 DEF Before, Orders
    <2>2. /\ Cardinality(Before(R, S, x)) <= Cardinality(Before(R, S, y))
          /\ Cardinality(Before(R, S, y)) # Cardinality(Before(R, S, x))
      BY <1>1, <2>1, FS_Subset
    <2> QED
      BY <1>1, <1>n, <2>2
  <1> DEFINE rank == [x \in S |-> Cardinality(Before(R, S, x))]
  <1>3. \A i \in 0..(n - 1) : \E x \in S : Cardinality(Before(R, S, x)) = i
    <2>1. rank \in [S -> 0..(n - 1)]
      BY <1>1
    <2>2. \A x, y \in S : rank[x] = rank[y] => x = y
      <3>1. SUFFICES ASSUME NEW x \in S, NEW y \in S, x # y PROVE rank[x] # rank[y]
        OBVIOUS
      <3>2. <<x, y>> \in R \/ <<y, x>> \in R
        BY <3>1 DEF Orders
      <3>3. rank[x] < rank[y] \/ rank[y] < rank[x]
        BY <1>2, <3>2
      <3> QED
        BY <1>1, <1>n, <3>3
    <2>3. IsFiniteSet(0..(n - 1)) /\ Cardinality(0..(n - 1)) = n
      BY <1>n, FS_Interval
    <2> HIDE DEF rank
    <2>4. rank \in Injection(S, 0..(n - 1))
      BY <2>1, <2>2 DEF Injection, IsInjective
    <2>5. rank \in Surjection(S, 0..(n - 1))
      BY <1>n, <2>3, <2>4, FS_Injection
    <2>6. \A i \in 0..(n - 1) : \E x \in S : rank[x] = i
      BY <2>5 DEF Surjection
    <2> QED
      BY <2>6 DEF rank
  <1>4. ASSUME NEW i \in 1..n PROVE s[i] \in S /\ Cardinality(Before(R, S, s[i])) = i - 1
    <2>1. i - 1 \in 0..(n - 1)
      BY <1>n
    <2> QED
      BY <1>3, <1>n, <2>1
  <1>5. s \in Seq(S) /\ Len(s) = n /\ DOMAIN s = 1..n
    BY <1>4, <1>n
  <1>6. ASSUME NEW x \in S PROVE \E i \in DOMAIN s : s[i] = x
    <2>1. PICK i : i = Cardinality(Before(R, S, x)) + 1 /\ i \in 1..n
      BY <1>1, <1>n
    <2>2. Cardinality(Before(R, S, s[i])) = Cardinality(Before(R, S, x)) /\ s[i] \in S
      BY <1>1, <1>4, <2>1
    <2>3. s[i] = x
      <3>1. CASE <<s[i], x>> \in R
        BY <1>1, <1>2, <1>n, <2>2, <3>1
      <3>2. CASE <<x, s[i]>> \in R
        <4>1. Cardinality(Before(R, S, x)) < Cardinality(Before(R, S, s[i]))
          BY <1>2, <2>2, <3>2
        <4> QED
          BY <1>1, <1>n, <2>2, <4>1
      <3> QED
        BY <2>2, <3>1, <3>2 DEF Orders
    <2> QED
      BY <1>5, <2>1, <2>3
  <1>7. ASSUME NEW i \in 1..n, NEW j \in 1..n, i < j PROVE <<s[i], s[j]>> \in R
    <2>1. Cardinality(Before(R, S, s[i])) < Cardinality(Before(R, S, s[j]))
      BY <1>4, <1>7, <1>n
    <2>2. s[i] # s[j] /\ <<s[j], s[i]>> \notin R
      BY <1>1, <1>2, <1>4, <1>n, <2>1
    <2> QED
      BY <1>4, <2>2 DEF Orders
  <1> QED
    BY <1>5, <1>6, <1>7, <1>n DEF IsOrdered

\* Numbers in order.
Below(S) == {p \in S \X S : p[1] < p[2]}

LEMMA OrderedNumbers ==
  ASSUME NEW S \in SUBSET Nat, IsFiniteSet(S)
  PROVE  IsOrdered(Below(S), S, Ascending(S))
  <1>1. Orders(Below(S), S)
    BY DEF Orders, Below
  <1>2. ASSUME NEW x \in S PROVE Before(Below(S), S, x) = {y \in S : y < x}
    BY DEF Before, Below
  <1>3. PICK s : s = Ascending(S)
    OBVIOUS
  <1>4. s = [i \in 1..Cardinality(S) |-> CHOOSE x \in S : Cardinality({y \in S : y < x}) = i - 1]
    BY <1>3 DEF Ascending, Ordered
  <1>5. s = [i \in 1..Cardinality(S) |-> s[i]]
    <2> DEFINE nth(i) == CHOOSE x \in S : Cardinality({y \in S : y < x}) = i - 1
    <2>1. s = [i \in 1..Cardinality(S) |-> nth(i)]
      BY <1>4
    <2> HIDE DEF nth
    <2> QED
      BY <2>1
  <1>6. ASSUME NEW i \in 1..Cardinality(S), \E x \in S : Cardinality(Before(Below(S), S, x)) = i - 1
        PROVE  s[i] \in S /\ Cardinality(Before(Below(S), S, s[i])) = i - 1
    <2>1. \E x \in S : Cardinality({y \in S : y < x}) = i - 1
      BY <1>2, <1>6
    <2>2. s[i] \in S /\ Cardinality({y \in S : y < s[i]}) = i - 1
      BY <1>4, <2>1
    <2> QED
      BY <1>2, <2>2
  <1> QED
    BY <1>1, <1>3, <1>5, <1>6, InOrderOf

LEMMA Smallest ==
  ASSUME NEW T \in SUBSET Nat, T # {}
  PROVE  \E n \in T : \A m \in T : n <= m
  <1>1. PICK n \in T : \A m \in T : <<m, n>> \notin OpToRel(<, Nat)
    BY NatLessThanWellFounded, WFMin
  <1>2. ASSUME NEW m \in T, m < n PROVE FALSE
    <2>1. <<m, n>> \in OpToRel(<, Nat)
      BY <1>2 DEF OpToRel
    <2> QED
      BY <1>1, <2>1
  <1> QED
    BY <1>2

LEMMA Largest ==
  ASSUME NEW T \in SUBSET Nat, NEW n \in Nat, \A x \in T : x <= n, T # {}
  PROVE  \E x \in T : \A y \in T : y <= x
  <1> DEFINE Short == {k \in Nat : \E x \in T : k = n - x}
  <1>1. \A x \in T : x \in Nat /\ n - x \in Short
    OBVIOUS
  <1>2. PICK m \in Short : \A k \in Short : m <= k
    <2>1. Short \in SUBSET Nat /\ Short # {}
      BY <1>1
    <2> HIDE DEF Short
    <2> QED
      BY <2>1, Smallest
  <1>3. PICK x \in T : m = n - x
    BY <1>2
  <1>4. ASSUME NEW y \in T PROVE y <= x
    <2>1. m <= n - y
      BY <1>1, <1>2
    <2> QED
      BY <1>1, <1>3, <2>1
  <1> QED
    BY <1>4

-----------------------------------------------------------------------------
(* Trees: the operators of the model, with what is a boundary as a parameter,  *)
(* so that they do not change in a step.                                      *)

BoundaryOf(s, l, entries) ==
  IF l = 0 THEN entries \subseteq s.boundaries
  ELSE l < MaxLevel - 1 /\ (Total(entries) + l + s.seed) % 2 = 0

AboveOf(s, tree, l, below) ==
  {0} \cup {key \in below \ {0} :
              BoundaryOf(s, l - 1, IF l = 1 THEN {key} ELSE Cover(tree, below, key))}

IsLevels(s, tree, n, f) ==
  f = [l \in 0..n |-> IF l = 0 THEN tree \cup {0} ELSE AboveOf(s, tree, l, f[l - 1])]

LevelsOf(s, tree) == CHOOSE f : IsLevels(s, tree, MaxLevel, f)

NodeOf(s, tree, l, key) ==
  [level |-> l, key |-> key,
   hash |-> IF l = 0 THEN {key} ELSE Cover(tree, LevelsOf(s, tree)[l], key)]

LEMMA LevelsSame == ASSUME NEW tree PROVE Levels(tree) = LevelsOf(setup, tree)
  BY DEF Levels, LevelsOf, IsLevels, Above, AboveOf, Boundary, BoundaryOf

LEMMA NodeSame == ASSUME NEW tree, NEW l, NEW key PROVE Node(tree, l, key) = NodeOf(setup, tree, l, key)
  BY LevelsSame DEF Node, NodeOf

\* There is such a function, whatever the number of levels.
LEMMA LevelsExist ==
  ASSUME NEW s, NEW tree, NEW n \in Nat
  PROVE  \E f : IsLevels(s, tree, n, f)
  <1> DEFINE bad == {m \in Nat : ~ \E f : IsLevels(s, tree, m, f)}
  <1>1. SUFFICES ASSUME bad # {} PROVE FALSE
    OBVIOUS
  <1>2. PICK m \in bad : \A k \in bad : m <= k
    BY <1>1, Smallest
  <1>3. m \in Nat /\ ~ \E f : IsLevels(s, tree, m, f)
    BY <1>2
  <1>4. CASE m = 0
    <2> DEFINE f == [l \in 0..0 |-> tree \cup {0}]
    <2>1. IsLevels(s, tree, 0, f)
      BY DEF IsLevels
    <2> QED
      BY <1>3, <1>4, <2>1
  <1>5. CASE m > 0
    <2>1. m - 1 \in Nat /\ m - 1 \notin bad
      BY <1>2, <1>3, <1>5
    <2>2. PICK f : IsLevels(s, tree, m - 1, f)
      BY <2>1
    <2> DEFINE next == AboveOf(s, tree, m, f[m - 1])
               g == [l \in 0..m |-> IF l = m THEN next ELSE f[l]]
    <2>3. DOMAIN f = 0..(m - 1)
      BY <2>2 DEF IsLevels
    <2>4. \A l \in 0..(m - 1) :
            f[l] = IF l = 0 THEN tree \cup {0} ELSE AboveOf(s, tree, l, f[l - 1])
      BY <2>2 DEF IsLevels
    <2>5. ASSUME NEW l \in 0..m
          PROVE  g[l] = IF l = 0 THEN tree \cup {0} ELSE AboveOf(s, tree, l, g[l - 1])
      <3>1. CASE l = m
        <4>1. g[l - 1] = f[m - 1] /\ l # 0
          BY <1>3, <1>5, <3>1
        <4> QED
          BY <3>1, <4>1
      <3>2. CASE l = 0
        BY <1>5, <2>4, <3>2
      <3>3. CASE l # m /\ l # 0
        <4>1. l \in 0..(m - 1) /\ l - 1 \in 0..m /\ l - 1 # m
          BY <1>3, <3>3
        <4>2. g[l] = f[l] /\ g[l - 1] = f[l - 1]
          BY <3>3, <4>1
        <4> QED
          BY <2>4, <3>3, <4>1, <4>2
      <3> QED
        BY <3>1, <3>2, <3>3
    <2>6. IsLevels(s, tree, m, g)
      <3>1. g = [l \in 0..m |-> g[l]]
        OBVIOUS
      <3> HIDE DEF g
      <3> QED
        BY <2>5, <3>1 DEF IsLevels
    <2> QED
      BY <1>3, <2>6
  <1> QED
    BY <1>3, <1>4, <1>5

\* What begins a node of a level begins one of every level below; at the top there is
\* one node.
LEMMA LevelsFit ==
  ASSUME NEW s, NEW tree \in SUBSET Nat, NEW L, L = LevelsOf(s, tree)
  PROVE  /\ L[0] = tree \cup {0}
         /\ \A l \in 1..MaxLevel : L[l] \subseteq L[l - 1]
         /\ \A l \in 0..MaxLevel : 0 \in L[l] /\ L[l] \subseteq tree \cup {0}
         /\ L[MaxLevel] = {0}
  <1>1. MaxLevel \in Nat /\ MaxLevel > 1
    BY DriverAssumption
  <1>2. IsLevels(s, tree, MaxLevel, L)
    BY <1>1, LevelsExist DEF LevelsOf
  <1>3. L[0] = tree \cup {0}
    BY <1>1, <1>2 DEF IsLevels
  <1>4. \A l \in 1..MaxLevel : L[l] = AboveOf(s, tree, l, L[l - 1])
    <2>1. \A l \in 0..MaxLevel : L[l] = IF l = 0 THEN tree \cup {0} ELSE AboveOf(s, tree, l, L[l - 1])
      BY <1>2 DEF IsLevels
    <2> QED
      BY <1>1, <2>1
  <1>5. ASSUME NEW l \in 0..MaxLevel PROVE 0 \in L[l]
    <2>1. l \in 1..MaxLevel => 0 \in AboveOf(s, tree, l, L[l - 1])
      BY DEF AboveOf
    <2> QED
      BY <1>1, <1>3, <1>4, <2>1
  <1>6. ASSUME NEW l \in 1..MaxLevel PROVE L[l] \subseteq L[l - 1]
    <2>1. l - 1 \in 0..MaxLevel
      BY <1>1
    <2> QED
      BY <1>4, <1>5, <2>1 DEF AboveOf
  <1>7. \A l \in 0..MaxLevel : L[l] \subseteq tree \cup {0}
    <2> DEFINE bad == {l \in 0..MaxLevel : ~ (L[l] \subseteq tree \cup {0})}
    <2>1. SUFFICES ASSUME bad # {} PROVE FALSE
      OBVIOUS
    <2>2. PICK m \in bad : \A k \in bad : m <= k
      <3>1. bad \in SUBSET Nat
        OBVIOUS
      <3> HIDE DEF bad
      <3> QED
        BY <2>1, <3>1, Smallest
    <2>3. m # 0
      BY <1>3, <2>2
    <2>4. m \in 1..MaxLevel /\ m - 1 \in 0..MaxLevel /\ m - 1 \notin bad
      BY <1>1, <2>2, <2>3
    <2> QED
      BY <1>6, <2>2, <2>4
  <1>8. L[MaxLevel] = {0}
    <2>1. /\ MaxLevel \in 1..MaxLevel /\ MaxLevel - 1 # 0 /\ ~ (MaxLevel - 1 < MaxLevel - 1)
      BY <1>1
    <2>2. \A entries : ~ BoundaryOf(s, MaxLevel - 1, entries)
      BY <2>1 DEF BoundaryOf
    <2> QED
      BY <1>4, <2>1, <2>2 DEF AboveOf
  <1> QED
    BY <1>3, <1>5, <1>6, <1>7, <1>8

-----------------------------------------------------------------------------
(* The children of a node *)

\* What a node and its subtree may yield.
Reach(node) == node.hash \cup {node.key}

NodeRecords == [level : 0..MaxLevel, key : Nat, hash : SUBSET Nat]

\* The part of a node that begins at one of its children is in the node.
LEMMA CoverInside ==
  ASSUME NEW tree \in SUBSET Nat, NEW below, below \subseteq tree \cup {0},
         NEW above \in SUBSET below, NEW key \in above,
         NEW c \in Cover(below, above, key)
  PROVE  /\ c \in below /\ key \in Nat /\ c \in Nat /\ key <= c
         /\ c \in Cover(tree, above, key) \cup {key}
         /\ Cover(tree, below, c) \subseteq Cover(tree, above, key)
  <1>1. /\ c \in below /\ c >= key /\ key \in Nat /\ c \in Nat
        /\ \A other \in above : other > key => c < other
    BY DEF Cover
  <1>2. c \in tree \/ c = key
    BY <1>1
  <1>3. ASSUME NEW e \in Cover(tree, below, c) PROVE e \in Cover(tree, above, key)
    <2>1. /\ e \in tree /\ e \in Nat /\ e >= c
          /\ \A other \in below : other > c => e < other
      BY DEF Cover
    <2>2. ASSUME NEW other \in above, other > key PROVE e < other
      BY <1>1, <2>1, <2>2
    <2> QED
      BY <1>1, <2>1, <2>2 DEF Cover
  <1> QED
    BY <1>1, <1>2, <1>3 DEF Cover

\* Every entry of a node is in the part that begins at one of its children: the last
\* that is not after it.
LEMMA CoverFound ==
  ASSUME NEW tree \in SUBSET Nat, NEW below, below \subseteq tree \cup {0},
         NEW above \in SUBSET below, NEW key \in above,
         NEW e \in Cover(tree, above, key)
  PROVE  \E c \in Cover(below, above, key) : e \in Cover(tree, below, c)
  <1>1. /\ e \in tree /\ e \in Nat /\ key \in Nat /\ e >= key
        /\ \A other \in above : other > key => e < other
    BY DEF Cover
  <1> DEFINE T == {k \in below : k <= e}
  <1>2. PICK c \in T : \A k \in T : k <= c
    <2>1. T \in SUBSET Nat /\ key \in T /\ \A k \in T : k <= e
      <3>1. below \subseteq Nat /\ key \in below
        OBVIOUS
      <3> QED
        BY <1>1, <3>1
    <2>2. T # {} /\ e \in Nat
      BY <1>1, <2>1
    <2> HIDE DEF T
    <2> QED
      BY <2>1, <2>2, Largest
  <1>3. c \in below /\ c \in Nat /\ c <= e /\ key <= c
    BY <1>1, <1>2
  <1>4. ASSUME NEW other \in above, other > key PROVE c < other
    BY <1>1, <1>3, <1>4
  <1>5. ASSUME NEW other \in below, other > c PROVE e < other
    <2>1. other \in Nat /\ other \notin T
      BY <1>2, <1>3, <1>5
    <2> QED
      BY <1>1, <2>1
  <1> QED
    BY <1>1, <1>3, <1>4, <1>5 DEF Cover

\* Children are in order, within their parent and apart from one another, and between
\* them have all it has.
LEMMA ChildrenFit ==
  ASSUME NEW s, NEW tree \in SUBSET Nat, IsFiniteSet(tree),
         NEW l \in 1..MaxLevel, NEW L, L = LevelsOf(s, tree), NEW key \in L[l],
         NEW cs, cs = Ascending(Cover(L[l - 1], L[l], key)),
         NEW kids, kids = [i \in DOMAIN cs |-> NodeOf(s, tree, l - 1, cs[i])],
         NEW node, node = NodeOf(s, tree, l, key)
  PROVE  /\ kids \in Seq(NodeRecords)
         /\ \A i \in DOMAIN kids :
              /\ kids[i].key \in L[l - 1] /\ kids[i] = NodeOf(s, tree, l - 1, kids[i].key)
              /\ kids[i].level = l - 1
              /\ key <= kids[i].key /\ Reach(kids[i]) \subseteq Reach(node)
         /\ \A i, j \in DOMAIN kids : i < j => \A a \in Reach(kids[i]) : a < kids[j].key
         /\ \A e \in node.hash : \E i \in DOMAIN kids : e \in kids[i].hash
  <1>1. /\ MaxLevel \in Nat /\ l - 1 \in 0..MaxLevel /\ l # 0
        /\ L[0] = tree \cup {0}
        /\ L[l] \subseteq L[l - 1] /\ L[l - 1] \subseteq tree \cup {0}
    <2>1. MaxLevel \in Nat /\ l - 1 \in 0..MaxLevel /\ l # 0
      BY DriverAssumption
    <2>2. /\ L[0] = tree \cup {0}
          /\ \A k \in 1..MaxLevel : L[k] \subseteq L[k - 1]
          /\ \A k \in 0..MaxLevel : 0 \in L[k] /\ L[k] \subseteq tree \cup {0}
      BY LevelsFit
    <2> QED
      BY <2>1, <2>2
  <1>2. node.hash = Cover(tree, L[l], key) /\ node.key = key
    BY <1>1 DEF NodeOf
  <1> DEFINE S == Cover(L[l - 1], L[l], key)
  <1>3. S \in SUBSET Nat /\ S \subseteq L[l - 1] /\ IsFiniteSet(S)
    <2>1. S \subseteq tree \cup {0} /\ S \subseteq L[l - 1]
      BY <1>1 DEF Cover
    <2>2. IsFiniteSet(tree \cup {0})
      BY FS_AddElement
    <2>3. tree \cup {0} \in SUBSET Nat /\ S \in SUBSET (tree \cup {0})
      BY <2>1
    <2> HIDE DEF S
    <2>4. IsFiniteSet(S)
      BY <2>2, <2>3, FS_Subset
    <2> QED
      BY <2>1, <2>3, <2>4
  <1>4. IsOrdered(Below(S), S, cs)
    BY <1>3, OrderedNumbers
  <1> HIDE DEF S
  <1>5. /\ cs \in Seq(S) /\ Len(cs) \in Nat /\ DOMAIN cs = 1..Len(cs)
        /\ \A i \in DOMAIN cs : cs[i] \in S
        /\ \A x \in S : \E i \in DOMAIN cs : cs[i] = x
        /\ \A i, j \in DOMAIN cs : i < j => cs[i] < cs[j]
    <2>1. /\ cs \in Seq(S) /\ Len(cs) \in Nat
          /\ \A x \in S : \E i \in DOMAIN cs : cs[i] = x
          /\ \A i, j \in DOMAIN cs : i < j => <<cs[i], cs[j]>> \in Below(S)
      BY <1>4 DEF IsOrdered
    <2>2. DOMAIN cs = 1..Len(cs) /\ \A i \in DOMAIN cs : cs[i] \in S
      BY <2>1
    <2>4. ASSUME NEW i \in DOMAIN cs, NEW j \in DOMAIN cs, i < j PROVE cs[i] < cs[j]
      <3>1. <<cs[i], cs[j]>> \in Below(S)
        BY <2>1, <2>4
      <3> QED
        BY <3>1, Zenon DEF Below
    <2> QED
      BY <2>1, <2>2, <2>4
  <1>6. /\ DOMAIN kids = DOMAIN cs
        /\ \A i \in DOMAIN cs : kids[i] = NodeOf(s, tree, l - 1, cs[i])
    OBVIOUS
  <1>7. ASSUME NEW x
        PROVE  /\ NodeOf(s, tree, l - 1, x).key = x
               /\ NodeOf(s, tree, l - 1, x).level = l - 1
               /\ l = 1 => NodeOf(s, tree, l - 1, x).hash = {x}
               /\ l # 1 => NodeOf(s, tree, l - 1, x).hash = Cover(tree, L[l - 1], x)
    BY <1>1 DEF NodeOf
  <1>8. ASSUME NEW x \in S
        PROVE  NodeOf(s, tree, l - 1, x) \in NodeRecords
    <2>1. {x} \in SUBSET Nat /\ Cover(tree, L[l - 1], x) \in SUBSET Nat
      BY <1>3 DEF Cover
    <2> QED
      BY <1>1, <1>3, <2>1 DEF NodeOf, NodeRecords
  <1>9. ASSUME NEW x \in S
        PROVE  /\ key <= x /\ x \in node.hash \cup {key}
               /\ Cover(tree, L[l - 1], x) \subseteq node.hash
    <2>1. PICK below : below = L[l - 1]
      OBVIOUS
    <2>2. PICK above : above = L[l]
      OBVIOUS
    <2>3. /\ below \subseteq tree \cup {0} /\ above \in SUBSET below /\ key \in above
          /\ x \in Cover(below, above, key)
      BY <1>1, <1>9, <2>1, <2>2 DEF S
    <2>4. /\ key <= x /\ x \in Cover(tree, above, key) \cup {key}
          /\ Cover(tree, below, x) \subseteq Cover(tree, above, key)
      BY <2>3, CoverInside
    <2> QED
      BY <1>2, <2>1, <2>2, <2>4
  <1>10. kids \in Seq(NodeRecords)
    BY <1>5, <1>6, <1>8
  <1>11. ASSUME NEW i \in DOMAIN kids
         PROVE  /\ kids[i].key \in L[l - 1] /\ kids[i] = NodeOf(s, tree, l - 1, kids[i].key)
                /\ kids[i].level = l - 1
                /\ key <= kids[i].key /\ Reach(kids[i]) \subseteq Reach(node)
    <2>1. cs[i] \in S /\ kids[i] = NodeOf(s, tree, l - 1, cs[i])
      BY <1>5, <1>6
    <2>2. Reach(kids[i]) \subseteq Reach(node)
      BY <1>2, <1>7, <1>9, <2>1 DEF Reach
    <2> QED
      BY <1>3, <1>7, <1>9, <2>1, <2>2
  <1>12. ASSUME NEW i \in DOMAIN kids, NEW j \in DOMAIN kids, i < j,
                NEW a \in Reach(kids[i])
         PROVE  a < kids[j].key
    <2>1. /\ cs[i] \in S /\ cs[j] \in S /\ cs[i] < cs[j] /\ kids[j].key = cs[j]
          /\ cs[i] \in Nat /\ cs[j] \in Nat /\ cs[j] \in L[l - 1]
      BY <1>3, <1>5, <1>6, <1>7, <1>12
    <2>2. a = cs[i] \/ a \in Cover(tree, L[l - 1], cs[i])
      BY <1>5, <1>6, <1>7, <1>12 DEF Reach
    <2> QED
      BY <2>1, <2>2 DEF Cover
  <1>13. ASSUME NEW e \in node.hash PROVE \E i \in DOMAIN kids : e \in kids[i].hash
    <2>1. CASE l = 1
      <3>1. e \in S
        <4>1. e \in L[l - 1] /\ e \in Cover(tree, L[l], key)
          BY <1>1, <1>2, <1>13, <2>1 DEF Cover
        <4> QED
          BY <4>1 DEF S, Cover
      <3>2. PICK i : i \in DOMAIN cs /\ cs[i] = e
        BY <1>5, <3>1
      <3>3. i \in DOMAIN kids /\ e \in kids[i].hash
        BY <1>5, <1>6, <1>7, <2>1, <3>1, <3>2
      <3> QED
        BY <3>3
    <2>2. CASE l # 1
      <3>1. PICK c \in S : e \in Cover(tree, L[l - 1], c)
        BY <1>1, <1>2, <1>13, CoverFound DEF S
      <3>2. PICK i \in DOMAIN cs : cs[i] = c
        BY <1>5
      <3>3. kids[i].hash = Cover(tree, L[l - 1], c)
        BY <1>6, <1>7, <2>2, <3>2
      <3> QED
        BY <1>6, <3>1, <3>2, <3>3
    <2> QED
      BY <2>1, <2>2
  <1> QED
    BY <1>10, <1>11, <1>12, <1>13

-----------------------------------------------------------------------------
(* Entries and roots *)

LEMMA MessagesFinite ==
  /\ IsFiniteSet(Messages)
  /\ \A m \in Messages : m[1] \in Nat /\ m[2] \in 0..255 /\ m = <<m[1], m[2]>>
  <1>1. Messages \subseteq (0..(N4 - 1)) \X (0..255) /\ N4 - 1 \in Int
    <2>1. N1 \in Int /\ N2 \in Int
      BY DEF N1, N2
    <2>2. N3 \in Int /\ N4 \in Int
      BY <2>1 DEF N1, N3, N4
    <2>3. Messages \subseteq (0..(N4 - 1)) \X (0..255)
      BY DriverAssumption
    <2> QED
      BY <2>2, <2>3
  <1>2. IsFiniteSet(0..(N4 - 1)) /\ IsFiniteSet(0..255)
    <2>1. 0 \in Int /\ 255 \in Int
      OBVIOUS
    <2> QED
      BY <1>1, <2>1, FS_Interval
  <1>3. IsFiniteSet((0..(N4 - 1)) \X (0..255))
    BY <1>2, FS_Product
  <1>4. Messages \in SUBSET ((0..(N4 - 1)) \X (0..255))
    BY <1>1
  <1>5. IsFiniteSet(Messages)
    BY <1>3, <1>4, FS_Subset
  <1>6. PICK n : n = N4 - 1 /\ n \in Int
    BY <1>1
  <1>7. \A m \in (0..n) \X (0..255) : m[1] \in Nat /\ m[2] \in 0..255 /\ m = <<m[1], m[2]>>
    BY <1>6
  <1> QED
    BY <1>1, <1>5, <1>6, <1>7

LEMMA EntriesFinite ==
  /\ Entries \in SUBSET (Nat \ {0}) /\ IsFiniteSet(Entries)
  /\ \A T \in SUBSET Entries : IsFiniteSet(T) /\ T \in SUBSET Nat /\ 0 \notin T
  <1>1. Cardinality(Messages) \in Nat
    BY MessagesFinite, FS_CardinalityType
  <1>2. Entries = 1..Cardinality(Messages)
    BY DEF Entries, InOrder, Ordered
  <1>3. IsFiniteSet(Entries)
    BY <1>1, <1>2, FS_Interval
  <1>4. Entries \in SUBSET (Nat \ {0})
    BY <1>1, <1>2
  <1>5. \A T \in SUBSET Entries : IsFiniteSet(T)
    BY <1>3, FS_Subset
  <1> QED
    BY <1>3, <1>4, <1>5

\* The root of a tree covers it.
LEMMA RootFits ==
  ASSUME NEW tree \in SUBSET (Nat \ {0}), NEW root, root = GetRoot(tree)
  PROVE  /\ root.level \in 0..MaxLevel /\ root.key = 0 /\ 0 \in LevelsOf(setup, tree)[root.level]
         /\ root = NodeOf(setup, tree, root.level, 0)
         /\ root.level = 0 => tree = {}
         /\ root.level # 0 => root.hash = tree
  <1> DEFINE L == LevelsOf(setup, tree)
             T == {l \in 0..MaxLevel : L[l] = {0}}
  <1>1. /\ MaxLevel \in Nat /\ tree \in SUBSET Nat /\ 0 \notin tree
        /\ L[0] = tree \cup {0} /\ L[MaxLevel] = {0}
        /\ \A l \in 0..MaxLevel : 0 \in L[l]
    <2>1. tree \in SUBSET Nat /\ 0 \notin tree /\ MaxLevel \in Nat
      BY DriverAssumption
    <2> QED
      BY <2>1, LevelsFit
  <1> HIDE DEF L
  <1>2. PICK first \in T : \A l \in T : first <= l
    <2>1. T \in SUBSET Nat /\ MaxLevel \in T
      BY <1>1
    <2> HIDE DEF T
    <2> QED
      BY <2>1, Smallest
  <1> DEFINE IsTop(l) == L[l] = {0} /\ \A m \in 0..(l - 1) : L[m] # {0}
             top == CHOOSE l \in 0..MaxLevel : IsTop(l)
  <1>3. first \in 0..MaxLevel /\ IsTop(first)
    <2>1. ASSUME NEW m \in 0..(first - 1) PROVE L[m] # {0}
      <3>1. m \in 0..MaxLevel /\ ~ (first <= m)
        BY <1>1, <1>2
      <3> QED
        BY <1>2, <3>1
    <2> QED
      BY <1>2, <2>1
  <1>4. top \in 0..MaxLevel /\ L[top] = {0}
    <2> HIDE DEF IsTop
    <2>1. top \in 0..MaxLevel /\ IsTop(top)
      BY <1>3
    <2> QED
      BY <2>1 DEF IsTop
  <1>5. root = NodeOf(setup, tree, top, 0)
    BY LevelsSame, NodeSame DEF GetRoot, L
  <1> HIDE DEF top
  <1>6. /\ root.level = top /\ root.key = 0
        /\ top # 0 => root.hash = Cover(tree, L[top], 0)
    BY <1>5 DEF NodeOf, L
  <1>7. top = 0 => tree = {}
    BY <1>1, <1>4
  <1>8. Cover(tree, {0}, 0) = tree
    <2>1. Cover(tree, {0}, 0) \subseteq tree
      BY DEF Cover
    <2>2. ASSUME NEW e \in tree PROVE e \in Cover(tree, {0}, 0)
      <3>1. e >= 0 /\ \A other \in {0} : ~ (other > 0)
        BY <1>1
      <3> QED
        BY <3>1 DEF Cover
    <2> QED
      BY <2>1, <2>2
  <1> QED
    BY <1>1, <1>4, <1>5, <1>6, <1>7, <1>8 DEF L

\* Children of a node of the source.
LEMMA ChildrenOfNode ==
  ASSUME setup.source \in SUBSET Entries,
         NEW node, node.level \in 1..MaxLevel,
         node.key \in LevelsOf(setup, setup.source)[node.level],
         node = NodeOf(setup, setup.source, node.level, node.key),
         NEW kids, kids = Children(node)
  PROVE  /\ kids \in Seq(NodeRecords)
         /\ \A i \in DOMAIN kids :
              /\ kids[i].key \in LevelsOf(setup, setup.source)[node.level - 1]
              /\ kids[i] = NodeOf(setup, setup.source, node.level - 1, kids[i].key)
              /\ kids[i].level = node.level - 1
              /\ node.key <= kids[i].key /\ Reach(kids[i]) \subseteq Reach(node)
         /\ \A i, j \in DOMAIN kids : i < j => \A a \in Reach(kids[i]) : a < kids[j].key
         /\ \A e \in node.hash : \E i \in DOMAIN kids : e \in kids[i].hash
  <1>1. PICK tree : tree = setup.source
    OBVIOUS
  <1>2. PICK l : l = node.level
    OBVIOUS
  <1>3. PICK key : key = node.key
    OBVIOUS
  <1>4. PICK L : L = LevelsOf(setup, tree)
    OBVIOUS
  <1>5. PICK cs : cs = Ascending(Cover(L[l - 1], L[l], key))
    OBVIOUS
  <1>6. tree \in SUBSET Nat /\ IsFiniteSet(tree)
    BY <1>1, EntriesFinite
  <1>7. kids = [i \in DOMAIN cs |-> NodeOf(setup, tree, l - 1, cs[i])]
    BY <1>1, <1>2, <1>3, <1>4, <1>5, LevelsSame, NodeSame DEF Children, GetChildren, Source
  <1>8. l \in 1..MaxLevel /\ key \in L[l] /\ node = NodeOf(setup, tree, l, key)
    BY <1>1, <1>2, <1>3, <1>4
  <1>9. PICK s : s = setup
    OBVIOUS
  <1>10. /\ kids \in Seq(NodeRecords)
         /\ \A i \in DOMAIN kids :
              /\ kids[i].key \in L[l - 1] /\ kids[i] = NodeOf(s, tree, l - 1, kids[i].key)
              /\ kids[i].level = l - 1
              /\ key <= kids[i].key /\ Reach(kids[i]) \subseteq Reach(node)
         /\ \A i, j \in DOMAIN kids : i < j => \A a \in Reach(kids[i]) : a < kids[j].key
         /\ \A e \in node.hash : \E i \in DOMAIN kids : e \in kids[i].hash
    <2>1. L = LevelsOf(s, tree) /\ node = NodeOf(s, tree, l, key)
          /\ kids = [i \in DOMAIN cs |-> NodeOf(s, tree, l - 1, cs[i])]
      BY <1>4, <1>7, <1>8, <1>9
    <2> QED
      BY <1>5, <1>6, <1>8, <2>1, ChildrenFit
  <1> QED
    BY <1>1, <1>2, <1>3, <1>4, <1>9, <1>10

-----------------------------------------------------------------------------
(* The invariant *)

\* What there is to visit: nodes of the source as they are in its tree, those of
\* level 0 as leaves; without a look at the target only if it was empty.
Work(s, top) ==
  {item \in [walk : {"root", "node", "leaf", "all"}, node : NodeRecords] :
     /\ item.node.key \in LevelsOf(s, s.source)[item.node.level]
     /\ item.node = NodeOf(s, s.source, item.node.level, item.node.key)
     /\ item.node.level = 0 <=> item.walk \in {"leaf", "all"}
     /\ item.walk = "all" => top = 0}

\* What one node may yield comes before the key of the next.
InLine(items) ==
  \A i, j \in DOMAIN items : i < j => \A a \in Reach(items[i].node) : a < items[j].node.key

WalkFits ==
  /\ setup.source \in SUBSET Entries /\ target \in SUBSET Entries /\ waiting \in SUBSET Entries
  /\ level \in 0..MaxLevel \/ (level = -1 /\ todo = <<>> /\ yielded = <<>>)
  /\ todo \in Seq(Work(setup, level))
  /\ yielded \in Seq([entry : Entries, lacked : BOOLEAN])

\* What the target lacks is still to come.
Covered ==
  level # -1 => \A e \in setup.source \ target : \E i \in DOMAIN todo : e \in todo[i].node.hash

Ahead == \A j \in DOMAIN yielded, i \in DOMAIN todo : yielded[j].entry < todo[i].node.key

Rising == \A i, j \in DOMAIN yielded : i < j => yielded[i].entry < yielded[j].entry

Lacked == \A j \in DOMAIN yielded : yielded[j].lacked \/ level = 0

DriverInv == WalkFits /\ Covered /\ InLine(todo) /\ Ahead /\ Rising /\ Lacked

LEMMA DriverInvInit == Init => DriverInv
  <1> SUFFICES ASSUME Init PROVE DriverInv
    OBVIOUS
  <1>1. /\ setup.source \in SUBSET Entries /\ target \in SUBSET Entries /\ waiting \in SUBSET Entries
        /\ level = -1 /\ todo = <<>> /\ yielded = <<>>
    BY DEF Init
  <1>2. DOMAIN todo = {} /\ DOMAIN yielded = {}
    BY <1>1
  <1>3. WalkFits
    BY <1>1 DEF WalkFits
  <1> QED
    BY <1>1, <1>2, <1>3 DEF DriverInv, Covered, InLine, Ahead, Rising, Lacked

-----------------------------------------------------------------------------
(* Steps *)

\* What a sequence has whose head gave way to others.
Mixes(p, kids, q) ==
  /\ \A i \in DOMAIN p :
       (\E k \in DOMAIN kids : p[i] = kids[k]) \/ (\E k \in DOMAIN q : k # 1 /\ p[i] = q[k])
  /\ \A k \in DOMAIN kids : \E i \in DOMAIN p : p[i] = kids[k]
  /\ \A k \in DOMAIN q : k # 1 => \E i \in DOMAIN p : p[i] = q[k]

\* The head gives way to what it is made of.
LEMMA Replaced ==
  ASSUME NEW S, NEW q \in Seq(S), q # <<>>, NEW kids \in Seq(S), InLine(q), InLine(kids),
         \A i \in DOMAIN kids : Reach(kids[i].node) \subseteq Reach(Head(q).node),
         NEW p, p = kids \o Tail(q)
  PROVE  p \in Seq(S) /\ InLine(p) /\ Mixes(p, kids, q)
  <1>1. PICK n : n = Len(kids) /\ n \in Nat
    OBVIOUS
  <1>2. PICK m : m = Len(q) - 1 /\ m \in Nat
    <2>1. Len(q) \in Nat /\ Len(q) # 0
      BY EmptySeq
    <2> QED
      BY <2>1
  <1>3. /\ DOMAIN kids = 1..n /\ DOMAIN q = 1..(m + 1) /\ Head(q) = q[1]
    BY <1>1, <1>2
  <1>4. /\ Tail(q) \in Seq(S) /\ Len(Tail(q)) = m
        /\ \A i \in 1..m : Tail(q)[i] = q[i + 1]
    BY <1>2, HeadTailProperties
  <1>5. /\ p \in Seq(S) /\ Len(p) = n + m
        /\ \A i \in 1..(n + m) : p[i] = IF i <= n THEN kids[i] ELSE Tail(q)[i - n]
    <2>1. PICK t : t = Tail(q)
      OBVIOUS
    <2>2. t \in Seq(S) /\ kids \in Seq(S) /\ Len(t) = m
      BY <1>4, <2>1
    <2>3. /\ kids \o t \in Seq(S) /\ Len(kids \o t) = Len(kids) + Len(t)
          /\ \A i \in 1..(Len(kids) + Len(t)) :
               (kids \o t)[i] = IF i <= Len(kids) THEN kids[i] ELSE t[i - Len(kids)]
      BY <2>2, ConcatProperties
    <2>4. p = kids \o t
      BY <2>1
    <2> QED
      BY <1>1, <2>1, <2>2, <2>3, <2>4
  <1>6. DOMAIN p = 1..(n + m)
    BY <1>5
  <1>7. ASSUME NEW i \in 1..(n + m)
        PROVE  IF i <= n THEN i \in DOMAIN kids /\ p[i] = kids[i]
               ELSE i - n + 1 \in DOMAIN q /\ i - n + 1 # 1 /\ p[i] = q[i - n + 1]
    <2>1. CASE i <= n
      BY <1>1, <1>3, <1>5, <2>1
    <2>2. CASE i > n
      <3>1. i - n \in 1..m /\ i - n + 1 \in 1..(m + 1) /\ i - n + 1 # 1
        BY <1>1, <1>2, <2>2
      <3> QED
        BY <1>1, <1>3, <1>4, <1>5, <2>2, <3>1
    <2> QED
      BY <1>1, <1>2, <2>1, <2>2
  <1>8. ASSUME NEW i \in DOMAIN p, NEW j \in DOMAIN p, i < j, NEW a \in Reach(p[i].node)
        PROVE  a < p[j].node.key
    <2>1. CASE j <= n
      <3>1. i <= n
        BY <1>1, <1>2, <1>6, <1>8, <2>1
      <3> QED
        BY <1>6, <1>7, <1>8, <2>1, <3>1 DEF InLine
    <2>2. CASE i > n
      <3>1. i - n + 1 < j - n + 1 /\ ~ (i <= n) /\ ~ (j <= n)
        BY <1>1, <1>2, <1>6, <1>8, <2>2
      <3>2. p[i] = q[i - n + 1] /\ p[j] = q[j - n + 1]
            /\ i - n + 1 \in DOMAIN q /\ j - n + 1 \in DOMAIN q
        BY <1>6, <1>7, <3>1
      <3> QED
        BY <1>8, <3>1, <3>2 DEF InLine
    <2>3. CASE i <= n /\ j > n
      <3>1. PICK k : k = j - n + 1
        OBVIOUS
      <3>2. k \in DOMAIN q /\ k # 1 /\ p[j] = q[k] /\ p[i] = kids[i] /\ i \in DOMAIN kids
        BY <1>1, <1>2, <1>6, <1>7, <2>3, <3>1
      <3>3. 1 < k /\ 1 \in DOMAIN q
        BY <1>2, <1>3, <3>2
      <3>4. a \in Reach(q[1].node)
        BY <1>3, <1>8, <3>2
      <3> QED
        BY <3>2, <3>3, <3>4 DEF InLine
    <2> QED
      BY <1>1, <1>2, <1>6, <2>1, <2>2, <2>3
  <1>9. ASSUME NEW k \in DOMAIN kids PROVE \E i \in DOMAIN p : p[i] = kids[k]
    <2>1. k \in 1..(n + m) /\ k <= n
      BY <1>1, <1>2, <1>3
    <2> QED
      BY <1>6, <1>7, <2>1
  <1>10. ASSUME NEW k \in DOMAIN q, k # 1 PROVE \E i \in DOMAIN p : p[i] = q[k]
    <2>1. PICK i : i = n + k - 1
      OBVIOUS
    <2>2. i \in 1..(n + m) /\ ~ (i <= n) /\ i - n + 1 = k
      BY <1>1, <1>2, <1>3, <1>10, <2>1
    <2> QED
      BY <1>6, <1>7, <2>2
  <1>11. ASSUME NEW i \in DOMAIN p
         PROVE  (\E k \in DOMAIN kids : p[i] = kids[k]) \/ (\E k \in DOMAIN q : k # 1 /\ p[i] = q[k])
    BY <1>6, <1>7
  <1>12. Mixes(p, kids, q)
    BY <1>9, <1>10, <1>11 DEF Mixes
  <1> QED
    BY <1>5, <1>8, <1>12 DEF InLine

\* Items that stand for a node: in line, within it, and with all that it has.
Parts(kids, node) ==
  /\ InLine(kids)
  /\ \A i \in DOMAIN kids :
       Reach(kids[i].node) \subseteq Reach(node) /\ node.key <= kids[i].node.key
  /\ \A e \in node.hash : \E i \in DOMAIN kids : e \in kids[i].node.hash

\* What a node above the leaves is made of.
LEMMA KidsFit ==
  ASSUME setup.source \in SUBSET Entries, NEW top, NEW item \in Work(setup, top),
         item.node.level # 0,
         NEW walk \in {"root", "node", "leaf", "all"},
         item.node.level = 1 <=> walk \in {"leaf", "all"}, walk = "all" => top = 0,
         NEW kids, kids = Items(walk, Children(item.node))
  PROVE  kids \in Seq(Work(setup, top)) /\ Parts(kids, item.node)
  <1>1. PICK node : node = item.node
    OBVIOUS
  <1>2. /\ node \in NodeRecords
        /\ node.key \in LevelsOf(setup, setup.source)[node.level]
        /\ node = NodeOf(setup, setup.source, node.level, node.key)
    BY <1>1 DEF Work
  <1>3. MaxLevel \in Nat /\ node.level \in 1..MaxLevel
    <2>1. node.level \in 0..MaxLevel /\ MaxLevel \in Nat
      BY <1>2, DriverAssumption DEF NodeRecords
    <2> QED
      BY <1>1, <2>1
  <1>4. PICK nodes : nodes = Children(node)
    OBVIOUS
  <1>5. /\ nodes \in Seq(NodeRecords)
        /\ \A i \in DOMAIN nodes :
              /\ nodes[i].key \in LevelsOf(setup, setup.source)[node.level - 1]
              /\ nodes[i] = NodeOf(setup, setup.source, node.level - 1, nodes[i].key)
              /\ nodes[i].level = node.level - 1
              /\ node.key <= nodes[i].key /\ Reach(nodes[i]) \subseteq Reach(node)
        /\ \A i, j \in DOMAIN nodes : i < j => \A a \in Reach(nodes[i]) : a < nodes[j].key
        /\ \A e \in node.hash : \E i \in DOMAIN nodes : e \in nodes[i].hash
    BY <1>2, <1>3, <1>4, ChildrenOfNode
  <1>6. kids = [i \in DOMAIN nodes |-> [walk |-> walk, node |-> nodes[i]]]
    BY <1>1, <1>4 DEF Items, Item
  <1>7. /\ DOMAIN kids = DOMAIN nodes
        /\ \A i \in DOMAIN nodes : kids[i] = [walk |-> walk, node |-> nodes[i]]
        /\ \A i \in DOMAIN nodes : kids[i].node = nodes[i] /\ kids[i].walk = walk
    BY <1>6
  <1>8. ASSUME NEW i \in DOMAIN nodes PROVE kids[i] \in Work(setup, top)
    <2>1. nodes[i] \in NodeRecords
      BY <1>5
    <2>2. nodes[i].level = 0 <=> walk \in {"leaf", "all"}
      BY <1>1, <1>3, <1>5
    <2>3. kids[i] \in [walk : {"root", "node", "leaf", "all"}, node : NodeRecords]
      <3>1. PICK x : x = nodes[i]
        OBVIOUS
      <3>2. kids[i] = [walk |-> walk, node |-> x] /\ x \in NodeRecords
        BY <1>7, <2>1, <3>1
      <3> QED
        BY <3>2
    <2> QED
      BY <1>5, <1>7, <2>2, <2>3 DEF Work
  <1>9. kids \in Seq(Work(setup, top))
    <2>1. Len(nodes) \in Nat /\ DOMAIN nodes = 1..Len(nodes)
      BY <1>5
    <2> QED
      BY <1>6, <1>7, <1>8, <2>1
  <1>10. InLine(kids)
    BY <1>5, <1>7 DEF InLine
  <1>11. Parts(kids, node)
    BY <1>5, <1>7, <1>10 DEF Parts
  <1> QED
    BY <1>1, <1>9, <1>11

LEMMA RecordsOfWork ==
  ASSUME NEW s, NEW top, NEW item \in Work(s, top)
  PROVE  /\ item.node.level \in 0..MaxLevel /\ item.node.key \in Nat
         /\ item.node.hash \in SUBSET Nat /\ MaxLevel \in Nat
         /\ item.walk \in {"root", "node", "leaf", "all"}
         /\ item.walk \in {"leaf", "all"} => item.node.hash = {item.node.key}
  <1>1. /\ item.walk \in {"root", "node", "leaf", "all"} /\ item.node \in NodeRecords
        /\ item.node = NodeOf(s, s.source, item.node.level, item.node.key)
        /\ item.node.level = 0 <=> item.walk \in {"leaf", "all"}
    BY DEF Work
  <1>2. item.node.level = 0 => item.node.hash = {item.node.key}
    BY <1>1 DEF NodeOf
  <1> QED
    BY <1>1, <1>2, DriverAssumption DEF NodeRecords

LEMMA ElementIn == ASSUME NEW S, NEW q \in Seq(S), NEW j \in DOMAIN q PROVE q[j] \in S
  OBVIOUS

\* A step that only replaces the head by what it is made of, or by nothing where the
\* target has it all.
LEMMA DriverInvReplace ==
  ASSUME DriverInv, todo # <<>>,
         NEW kids \in Seq(Work(setup, level)), InLine(kids),
         \A i \in DOMAIN kids :
           /\ Reach(kids[i].node) \subseteq Reach(Head(todo).node)
           /\ Head(todo).node.key <= kids[i].node.key,
         \A e \in Head(todo).node.hash :
           e \in target \/ e \notin setup.source \/ \E i \in DOMAIN kids : e \in kids[i].node.hash,
         todo' = kids \o Tail(todo),
         UNCHANGED <<setup, target, waiting, level, yielded>>
  PROVE  DriverInv'
  <1>1. /\ todo' \in Seq(Work(setup, level)) /\ InLine(todo')
        /\ \A i \in DOMAIN todo' :
             \/ \E k \in DOMAIN kids : todo'[i] = kids[k]
             \/ \E k \in DOMAIN todo : k # 1 /\ todo'[i] = todo[k]
        /\ \A k \in DOMAIN kids : \E i \in DOMAIN todo' : todo'[i] = kids[k]
        /\ \A k \in DOMAIN todo : k # 1 => \E i \in DOMAIN todo' : todo'[i] = todo[k]
    <2>1. PICK S : S = Work(setup, level)
      OBVIOUS
    <2>2. PICK q : q = todo
      OBVIOUS
    <2>3. PICK p : p = todo'
      OBVIOUS
    <2>4. /\ q \in Seq(S) /\ q # <<>> /\ InLine(q) /\ kids \in Seq(S) /\ InLine(kids)
          /\ p = kids \o Tail(q)
      BY <2>1, <2>2, <2>3 DEF DriverInv, WalkFits
    <2>5. \A i \in DOMAIN kids : Reach(kids[i].node) \subseteq Reach(Head(q).node)
      BY <2>2
    <2>6. p \in Seq(S) /\ InLine(p) /\ Mixes(p, kids, q)
      BY <2>4, <2>5, Replaced
    <2>7. Mixes(todo', kids, todo)
      BY <2>2, <2>3, <2>6
    <2> QED
      BY <2>1, <2>3, <2>6, <2>7 DEF Mixes
  <1>2. 1 \in DOMAIN todo /\ Head(todo) = todo[1] /\ level # -1
    BY EmptySeq DEF DriverInv, WalkFits
  <1>3. WalkFits'
    BY <1>1, <1>2 DEF DriverInv, WalkFits
  <1>4. Covered'
    <2>1. ASSUME NEW e \in setup.source \ target
          PROVE  \E i \in DOMAIN todo' : e \in todo'[i].node.hash
      <3>1. PICK k \in DOMAIN todo : e \in todo[k].node.hash
        BY <1>2 DEF DriverInv, Covered
      <3>2. CASE k # 1
        BY <1>1, <3>1, <3>2
      <3>3. CASE k = 1
        <4>1. e \in Head(todo).node.hash
          BY <1>2, <3>1, <3>3
        <4>2. PICK i \in DOMAIN kids : e \in kids[i].node.hash
          BY <4>1
        <4> QED
          BY <1>1, <4>2
      <3> QED
        BY <3>2, <3>3
    <2> QED
      BY <2>1 DEF Covered
  <1>5. Ahead'
    <2>1. ASSUME NEW j \in DOMAIN yielded, NEW i \in DOMAIN todo'
          PROVE  yielded[j].entry < todo'[i].node.key
      <3>1. \A k \in DOMAIN todo : yielded[j].entry < todo[k].node.key
        BY DEF DriverInv, Ahead
      <3>2. CASE \E k \in DOMAIN todo : k # 1 /\ todo'[i] = todo[k]
        BY <3>1, <3>2
      <3>3. CASE \E k \in DOMAIN kids : todo'[i] = kids[k]
        <4>1. PICK k \in DOMAIN kids : todo'[i] = kids[k]
          BY <3>3
        <4>2. /\ yielded[j].entry < todo[1].node.key
              /\ todo[1].node.key <= kids[k].node.key
          BY <1>2, <3>1
        <4>3. yielded[j].entry \in Nat
          <5>1. yielded[j] \in [entry : Entries, lacked : BOOLEAN]
            <6>1. yielded \in Seq([entry : Entries, lacked : BOOLEAN])
              BY DEF DriverInv, WalkFits
            <6> QED
              BY <6>1, ElementIn
          <5> QED
            BY <5>1, EntriesFinite
        <4>4. kids[k] \in Work(setup, level) /\ todo[1] \in Work(setup, level)
          BY <1>2 DEF DriverInv, WalkFits
        <4>5. kids[k].node.key \in Nat /\ todo[1].node.key \in Nat
          BY <4>4, RecordsOfWork
        <4>6. PICK a, b, c : /\ a = yielded[j].entry /\ b = todo[1].node.key
                             /\ c = kids[k].node.key
          OBVIOUS
        <4>7. a \in Nat /\ b \in Nat /\ c \in Nat /\ a < b /\ b <= c
          BY <4>2, <4>3, <4>5, <4>6
        <4>8. a < c
          BY <4>7
        <4> QED
          BY <4>1, <4>6, <4>8
      <3> QED
        BY <1>1, <3>2, <3>3
    <2> QED
      BY <2>1 DEF Ahead
  <1> QED
    BY <1>1, <1>3, <1>4, <1>5 DEF DriverInv, Rising, Lacked

LEMMA DriverInvStart ==
  ASSUME DriverInv, Start
  PROVE  DriverInv'
  <1>1. PICK root : root = GetRoot(Source)
    OBVIOUS
  <1>2. PICK other : other = GetRoot(target)
    OBVIOUS
  <1>3. /\ level = -1 /\ level' = other.level
        /\ todo' = IF root.level = 0 \/ root = other THEN <<>>
                   ELSE <<[walk |-> "root", node |-> root]>>
        /\ UNCHANGED <<setup, target, waiting, yielded>>
    BY <1>1, <1>2 DEF Start, Item
  <1>4. /\ setup.source \in SUBSET Entries /\ target \in SUBSET Entries
        /\ setup.source \in SUBSET (Nat \ {0}) /\ target \in SUBSET (Nat \ {0})
        /\ MaxLevel \in Nat
    BY EntriesFinite, DriverAssumption DEF DriverInv, WalkFits
  <1>5. /\ root.level \in 0..MaxLevel /\ root.key = 0
        /\ 0 \in LevelsOf(setup, setup.source)[root.level]
        /\ root = NodeOf(setup, setup.source, root.level, 0)
        /\ root.level = 0 => setup.source = {}
        /\ root.level # 0 => root.hash = setup.source
    BY <1>1, <1>4, RootFits DEF Source
  <1>6. /\ other.level \in 0..MaxLevel
        /\ other.level # 0 => other.hash = target
    BY <1>2, <1>4, RootFits
  <1>7. level' \in 0..MaxLevel /\ level' # -1 /\ yielded = <<>>
    BY <1>3, <1>4, <1>6 DEF DriverInv, WalkFits
  <1>8. CASE root.level = 0 \/ root = other
    <2>1. setup.source \subseteq target
      BY <1>5, <1>6, <1>8
    <2>2. todo' = <<>> /\ DOMAIN todo' = {} /\ DOMAIN yielded' = {}
      BY <1>3, <1>7, <1>8
    <2>3. WalkFits'
      <3>1. todo' \in Seq(Work(setup', level'))
        BY <2>2
      <3>2. /\ setup.source \in SUBSET Entries /\ target \in SUBSET Entries
            /\ waiting \in SUBSET Entries
            /\ yielded \in Seq([entry : Entries, lacked : BOOLEAN])
        BY DEF DriverInv, WalkFits
      <3>3. /\ setup'.source \in SUBSET Entries /\ target' \in SUBSET Entries
            /\ waiting' \in SUBSET Entries
            /\ yielded' \in Seq([entry : Entries, lacked : BOOLEAN])
        BY <1>3, <3>2
      <3> QED
        BY <1>7, <3>1, <3>3 DEF WalkFits
    <2> QED
      BY <1>3, <2>1, <2>2, <2>3 DEF DriverInv, Covered, InLine, Ahead, Rising, Lacked
  <1>9. CASE ~ (root.level = 0 \/ root = other)
    <2>1. /\ todo' = <<[walk |-> "root", node |-> root]>> /\ DOMAIN todo' = {1}
          /\ todo'[1].node = root /\ DOMAIN yielded' = {}
      BY <1>3, <1>7, <1>9
    <2>2. root \in NodeRecords
      <3>1. PICK h : h = root.hash /\ h \in SUBSET Nat
        BY <1>4, <1>5, <1>9
      <3>2. root = [level |-> root.level, key |-> 0, hash |-> h]
        <4>1. root = [level |-> root.level, key |-> 0, hash |-> root.hash]
          BY <1>5 DEF NodeOf
        <4> QED
          BY <3>1, <4>1
      <3> QED
        BY <1>5, <3>1, <3>2 DEF NodeRecords
    <2>3. [walk |-> "root", node |-> root] \in Work(setup, level')
      BY <1>5, <1>9, <2>2 DEF Work
    <2>4. WalkFits'
      <3>1. todo' \in Seq(Work(setup', level'))
        <4>1. PICK x : x = [walk |-> "root", node |-> root]
          OBVIOUS
        <4>2. todo' = <<x>> /\ x \in Work(setup', level')
          BY <1>3, <2>1, <2>3, <4>1
        <4> QED
          BY <4>2
      <3>2. /\ setup.source \in SUBSET Entries /\ target \in SUBSET Entries
            /\ waiting \in SUBSET Entries
            /\ yielded \in Seq([entry : Entries, lacked : BOOLEAN])
        BY DEF DriverInv, WalkFits
      <3>3. /\ setup'.source \in SUBSET Entries /\ target' \in SUBSET Entries
            /\ waiting' \in SUBSET Entries
            /\ yielded' \in Seq([entry : Entries, lacked : BOOLEAN])
        BY <1>3, <3>2
      <3> QED
        BY <1>7, <3>1, <3>3 DEF WalkFits
    <2>5. Covered'
      BY <1>3, <1>5, <1>9, <2>1 DEF Covered
    <2>6. InLine(todo')
      BY <2>1 DEF InLine
    <2> QED
      BY <2>1, <2>4, <2>5, <2>6 DEF DriverInv, Ahead, Rising, Lacked
  <1> QED
    BY <1>8, <1>9

LEMMA DriverInvSyncRoot ==
  ASSUME DriverInv, SyncRoot
  PROVE  DriverInv'
  <1>1. PICK item : item = Head(todo)
    OBVIOUS
  <1>2. /\ todo # <<>> /\ item.walk = "root" /\ item \in Work(setup, level)
        /\ setup.source \in SUBSET Entries
    BY <1>1 DEF DriverInv, WalkFits, SyncRoot, Visits
  <1>3. /\ item.node.level \in 0..MaxLevel /\ item.node.level # 0 /\ item.node.key \in Nat
    BY <1>2, RecordsOfWork DEF Work
  <1>4. UNCHANGED <<setup, target, waiting, level, yielded>>
    BY DEF SyncRoot
  <1>5. CASE item.node.level <= level
    <2>1. PICK kids : kids = <<[walk |-> "node", node |-> item.node]>>
      OBVIOUS
    <2>2. todo' = kids \o Tail(todo)
      BY <1>1, <1>5, <2>1 DEF SyncRoot, Item
    <2>3. [walk |-> "node", node |-> item.node] \in Work(setup, level)
      BY <1>2, <1>3 DEF Work
    <2>4. kids \in Seq(Work(setup, level)) /\ DOMAIN kids = {1} /\ kids[1].node = item.node
      BY <2>1, <2>3
    <2>5. InLine(kids)
      BY <2>4 DEF InLine
    <2>6. \A i \in DOMAIN kids :
            /\ Reach(kids[i].node) \subseteq Reach(Head(todo).node)
            /\ Head(todo).node.key <= kids[i].node.key
      BY <1>1, <1>3, <2>4
    <2>7. \A e \in Head(todo).node.hash : \E i \in DOMAIN kids : e \in kids[i].node.hash
      BY <1>1, <2>4
    <2> QED
      BY <1>2, <1>4, <2>2, <2>4, <2>5, <2>6, <2>7, DriverInvReplace
  <1>6. CASE ~ (item.node.level <= level)
    <2>1. PICK walk : walk = IF level = 0 /\ item.node.level = 1 THEN "all" ELSE "root"
      OBVIOUS
    <2>2. PICK kids : kids = Items(walk, Children(item.node))
      OBVIOUS
    <2>3. todo' = kids \o Tail(todo)
      BY <1>1, <1>6, <2>1, <2>2 DEF SyncRoot
    <2>4. level \in Nat
      BY <1>2, DriverAssumption DEF DriverInv, WalkFits
    <2>5. /\ walk \in {"root", "node", "leaf", "all"} /\ (walk = "all" => level = 0)
          /\ item.node.level = 1 <=> walk \in {"leaf", "all"}
      BY <1>3, <1>6, <2>1, <2>4
    <2>6. kids \in Seq(Work(setup, level)) /\ Parts(kids, item.node)
      BY <1>2, <1>3, <2>2, <2>5, KidsFit
    <2> QED
      BY <1>1, <1>2, <1>4, <2>3, <2>6, DriverInvReplace DEF Parts
  <1> QED
    BY <1>5, <1>6

LEMMA DriverInvSyncNode ==
  ASSUME DriverInv, SyncNode
  PROVE  DriverInv'
  <1>1. PICK item : item = Head(todo)
    OBVIOUS
  <1>2. /\ todo # <<>> /\ item.walk = "node" /\ item \in Work(setup, level)
        /\ setup.source \in SUBSET Entries
    <2>1. /\ todo # <<>> /\ todo \in Seq(Work(setup, level)) /\ setup.source \in SUBSET Entries
      BY DEF DriverInv, WalkFits, SyncNode, Visits
    <2>2. item.walk = "node"
      BY <1>1 DEF SyncNode, Visits
    <2>3. PICK W : W = Work(setup, level)
      OBVIOUS
    <2>4. Head(todo) \in W
      BY <2>1, <2>3
    <2> QED
      BY <1>1, <2>1, <2>2, <2>3, <2>4
  <1>3. /\ item.node.level \in 0..MaxLevel /\ item.node.level # 0 /\ item.node.key \in Nat
    BY <1>2, RecordsOfWork DEF Work
  <1>4. UNCHANGED <<setup, target, waiting, level, yielded>>
    BY DEF SyncNode
  <1> DEFINE same == /\ HasNode(target, item.node.level, item.node.key)
                     /\ Node(target, item.node.level, item.node.key) = item.node
  <1>5. CASE same
    <2>1. PICK kids : kids = <<>>
      OBVIOUS
    <2>2. todo' = kids \o Tail(todo)
      BY <1>1, <1>5, <2>1 DEF SyncNode
    <2>3. kids \in Seq(Work(setup, level)) /\ DOMAIN kids = {}
      BY <2>1
    <2>4. InLine(kids)
      BY <2>3 DEF InLine
    <2>5. item.node.hash \subseteq target
      <3>1. PICK l : l = item.node.level
        OBVIOUS
      <3>2. PICK key : key = item.node.key
        OBVIOUS
      <3>3. Node(target, l, key).hash = Cover(target, Levels(target)[l], key)
        BY <1>3, <3>1 DEF Node
      <3>4. Cover(target, Levels(target)[l], key) \subseteq target
        BY DEF Cover
      <3> QED
        BY <1>5, <3>1, <3>2, <3>3, <3>4
    <2> QED
      BY <1>1, <1>2, <1>4, <2>2, <2>3, <2>4, <2>5, DriverInvReplace
  <1>6. CASE ~ same
    <2>1. PICK walk : walk = IF item.node.level > 1 THEN "node" ELSE "leaf"
      OBVIOUS
    <2>2. PICK kids : kids = Items(walk, Children(item.node))
      OBVIOUS
    <2>3. todo' = kids \o Tail(todo)
      BY <1>1, <1>6, <2>1, <2>2 DEF SyncNode
    <2>4. /\ walk \in {"root", "node", "leaf", "all"} /\ (walk = "all" => level = 0)
          /\ item.node.level = 1 <=> walk \in {"leaf", "all"}
      BY <1>3, <2>1
    <2>5. kids \in Seq(Work(setup, level)) /\ Parts(kids, item.node)
      BY <1>2, <1>3, <2>2, <2>4, KidsFit
    <2> QED
      BY <1>1, <1>2, <1>4, <2>3, <2>5, DriverInvReplace DEF Parts
  <1> QED
    BY <1>5, <1>6

\* A leaf that is passed over, as the anchor or as an entry of the target, or whose
\* entry is yielded and inserted.
LEMMA DriverInvLeaves ==
  ASSUME DriverInv, todo # <<>>, NEW item, item = Head(todo), item.walk \in {"leaf", "all"},
         NEW e, e = item.node.key, todo' = Tail(todo), UNCHANGED <<setup, level>>,
         \/ (e = 0 \/ e \in target) /\ UNCHANGED <<target, waiting, yielded>>
         \/ e # 0 /\ (e \notin target \/ level = 0) /\ Yield(e)
  PROVE  DriverInv'
  <1>1. PICK S : S = Work(setup, level)
    OBVIOUS
  <1>2. PICK q : q = todo
    OBVIOUS
  <1>3. PICK p : p = todo'
    OBVIOUS
  <1>4. /\ q \in Seq(S) /\ q # <<>> /\ InLine(q) /\ setup.source \in SUBSET Entries
        /\ target \in SUBSET Entries /\ waiting \in SUBSET Entries
        /\ yielded \in Seq([entry : Entries, lacked : BOOLEAN])
    BY <1>1, <1>2 DEF DriverInv, WalkFits
  <1>5. Len(q) \in Nat /\ DOMAIN q = 1..Len(q) /\ 1 \in DOMAIN q /\ item = q[1] /\ item \in S
    BY <1>2, <1>4, EmptySeq
  <1>6. p \in Seq(S) /\ InLine(p) /\ Mixes(p, <<>>, q)
    <2>1. <<>> \in Seq(S) /\ DOMAIN <<>> = {}
      OBVIOUS
    <2>2. InLine(<<>>)
      BY <2>1 DEF InLine
    <2>3. p = <<>> \o Tail(q)
      BY <1>2, <1>3, <1>4, HeadTailProperties, ConcatEmptySeq
    <2>4. \A i \in DOMAIN <<>> : Reach(<<>>[i].node) \subseteq Reach(Head(q).node)
      BY <2>1
    <2> QED
      BY <1>4, <2>1, <2>2, <2>3, <2>4, Replaced
  <1>7. /\ \A i \in DOMAIN p : \E k \in DOMAIN q : k # 1 /\ p[i] = q[k]
        /\ \A k \in DOMAIN q : k # 1 => \E i \in DOMAIN p : p[i] = q[k]
    <2>1. DOMAIN <<>> = {}
      OBVIOUS
    <2> QED
      BY <1>6, <2>1 DEF Mixes
  <1>8. e \in Nat /\ item.node.hash = {e} /\ (e # 0 => e \in Entries) /\ level # -1
    <2>1. e \in Nat /\ item.node.hash = {e}
      BY <1>1, <1>5, RecordsOfWork
    <2>2. item.node.level = 0 /\ item.node.key \in LevelsOf(setup, setup.source)[item.node.level]
      BY <1>1, <1>5 DEF Work
    <2>3. setup.source \in SUBSET Nat
      BY <1>4, EntriesFinite
    <2>4. LevelsOf(setup, setup.source)[0] = setup.source \cup {0}
      BY <2>3, LevelsFit
    <2>5. level # -1
      BY DEF DriverInv, WalkFits
    <2> QED
      BY <1>4, <2>1, <2>2, <2>4, <2>5
  <1>9. \A i \in DOMAIN p : e < p[i].node.key
    <2>1. ASSUME NEW k \in DOMAIN q, k # 1 PROVE e < q[k].node.key
      <3>1. 1 < k /\ e \in Reach(q[1].node)
        BY <1>5, <2>1 DEF Reach
      <3> QED
        BY <1>4, <1>5, <3>1 DEF InLine
    <2> QED
      BY <1>7, <2>1
  <1>10. target' \in SUBSET Entries /\ waiting' \in SUBSET Entries /\ target \subseteq target'
         /\ (e = 0 \/ e \in target')
    <2>1. CASE e # 0 /\ Yield(e)
      <3>1. PICK released \in SUBSET {w \in waiting : ClockOf(w) > ClockOf(e)} :
               /\ target' = target \cup {e} \cup released
               /\ waiting' = waiting \ (released \cup {e})
        BY <2>1 DEF Yield
      <3>2. released \subseteq waiting
        BY <3>1
      <3> QED
        BY <1>4, <1>8, <2>1, <3>1, <3>2
    <2>2. CASE (e = 0 \/ e \in target) /\ UNCHANGED <<target, waiting, yielded>>
      BY <1>4, <2>2
    <2> QED
      BY <2>1, <2>2
  <1>11. Covered'
    <2>1. ASSUME NEW x \in setup.source \ target' PROVE \E i \in DOMAIN p : x \in p[i].node.hash
      <3>1. x # e /\ x \in setup.source \ target
        BY <1>4, <1>10, <2>1, EntriesFinite
      <3>2. PICK k \in DOMAIN q : x \in q[k].node.hash
        BY <1>2, <1>8, <3>1 DEF DriverInv, Covered
      <3>3. k # 1
        BY <1>5, <1>8, <3>1, <3>2
      <3> QED
        BY <1>7, <3>2, <3>3
    <2> QED
      BY <1>3, <2>1 DEF Covered
  <1>12. ASSUME NEW j \in DOMAIN yielded, NEW i \in DOMAIN p
         PROVE  yielded[j].entry < p[i].node.key
    BY <1>2, <1>7 DEF DriverInv, Ahead
  <1>13. CASE UNCHANGED <<target, waiting, yielded>>
    <2>1. WalkFits'
      <3>1. todo' \in Seq(Work(setup, level)')
        BY <1>1, <1>3, <1>6
      <3> QED
        BY <1>3, <1>8, <1>13, <3>1 DEF DriverInv, WalkFits
    <2>2. Ahead'
      BY <1>3, <1>12, <1>13 DEF Ahead
    <2> QED
      BY <1>3, <1>6, <1>11, <1>13, <2>1, <2>2 DEF DriverInv, Rising, Lacked
  <1>14. CASE e # 0 /\ (e \notin target \/ level = 0) /\ Yield(e)
    <2>1. PICK y : y = [entry |-> e, lacked |-> e \notin target]
      OBVIOUS
    <2>2. /\ y.entry = e /\ (y.lacked \/ level = 0) /\ y \in [entry : Entries, lacked : BOOLEAN]
          /\ yielded' = Append(yielded, y)
      BY <1>8, <1>14, <2>1 DEF Yield
    <2>3. PICK n : n = Len(yielded) /\ n \in Nat
      BY <1>4
    <2>4. /\ yielded' \in Seq([entry : Entries, lacked : BOOLEAN])
          /\ DOMAIN yielded' = 1..(n + 1) /\ DOMAIN yielded = 1..n
          /\ yielded'[n + 1] = y /\ \A j \in 1..n : yielded'[j] = yielded[j]
      BY <1>4, <2>2, <2>3
    <2>5. ASSUME NEW j \in DOMAIN yielded', NEW i \in DOMAIN p PROVE yielded'[j].entry < p[i].node.key
      <3>1. CASE j = n + 1
        BY <1>9, <2>2, <2>4, <3>1
      <3>2. CASE j # n + 1
        <4>1. j \in 1..n
          BY <2>3, <2>4, <3>2
        <4> QED
          BY <1>12, <2>4, <4>1
      <3> QED
        BY <3>1, <3>2
    <2>6. ASSUME NEW i \in DOMAIN yielded', NEW j \in DOMAIN yielded', i < j
          PROVE  yielded'[i].entry < yielded'[j].entry
      <3>1. i \in 1..n /\ yielded'[i] = yielded[i]
        BY <2>3, <2>4, <2>6
      <3>2. CASE j = n + 1
        BY <1>2, <1>5, <2>2, <2>4, <3>1, <3>2, SMTT(30) DEF DriverInv, Ahead
      <3>3. CASE j # n + 1
        <4>1. j \in 1..n
          BY <2>3, <2>4, <3>3
        <4> QED
          BY <2>4, <2>6, <3>1, <4>1 DEF DriverInv, Rising
      <3> QED
        BY <3>2, <3>3
    <2>7. ASSUME NEW j \in DOMAIN yielded' PROVE yielded'[j].lacked \/ level' = 0
      <3>1. CASE j = n + 1
        BY <2>2, <2>4, <3>1
      <3>2. CASE j # n + 1
        <4>1. j \in 1..n
          BY <2>3, <2>4, <3>2
        <4> QED
          BY <2>4, <4>1 DEF DriverInv, Lacked
      <3> QED
        BY <3>1, <3>2
    <2>8. WalkFits'
      <3>1. todo' \in Seq(Work(setup, level)')
        BY <1>1, <1>3, <1>6
      <3>2. level' \in 0..MaxLevel
        BY <1>8 DEF DriverInv, WalkFits
      <3>3. setup'.source \in SUBSET Entries
        BY <1>4
      <3> QED
        BY <1>10, <2>4, <3>1, <3>2, <3>3 DEF WalkFits
    <2> QED
      BY <1>3, <1>6, <1>11, <2>5, <2>6, <2>7, <2>8 DEF DriverInv, Ahead, Rising, Lacked
  <1> QED
    BY <1>13, <1>14

LEMMA DriverInvNext == DriverInv /\ [Next]_vars => DriverInv'
  <1> SUFFICES ASSUME DriverInv, [Next]_vars PROVE DriverInv'
    OBVIOUS
  <1>1. CASE Start
    BY <1>1, DriverInvStart
  <1>2. CASE SyncRoot
    BY <1>2, DriverInvSyncRoot
  <1>3. CASE SyncNode
    BY <1>3, DriverInvSyncNode
  <1>4. CASE Leaf
    <2>1. PICK item : item = Head(todo)
      OBVIOUS
    <2>2. PICK e : e = item.node.key
      OBVIOUS
    <2>3. /\ todo # <<>> /\ item.walk \in {"leaf", "all"} /\ todo' = Tail(todo)
          /\ UNCHANGED <<setup, level>>
          /\ \/ (e = 0 \/ e \in target) /\ UNCHANGED <<target, waiting, yielded>>
             \/ e # 0 /\ (e \notin target \/ level = 0) /\ Yield(e)
      BY <1>4, <2>1, <2>2 DEF Leaf, Visits
    <2> QED
      BY <2>1, <2>2, <2>3, DriverInvLeaves
  <1>5. CASE LeafOfAll
    <2>1. PICK item : item = Head(todo)
      OBVIOUS
    <2>2. PICK e : e = item.node.key
      OBVIOUS
    <2>3. item \in Work(setup, level) /\ item.walk = "all"
      BY <1>5, <2>1, HeadTailProperties DEF LeafOfAll, Visits, DriverInv, WalkFits
    <2>4. level = 0
      BY <2>3 DEF Work
    <2>5. /\ todo # <<>> /\ item.walk \in {"leaf", "all"} /\ todo' = Tail(todo)
          /\ UNCHANGED <<setup, level>>
          /\ \/ (e = 0 \/ e \in target) /\ UNCHANGED <<target, waiting, yielded>>
             \/ e # 0 /\ (e \notin target \/ level = 0) /\ Yield(e)
      BY <1>5, <2>1, <2>2, <2>4 DEF LeafOfAll, Visits
    <2> QED
      BY <2>1, <2>2, <2>5, DriverInvLeaves
  <1>6. CASE UNCHANGED vars
    BY <1>6 DEF vars, DriverInv, WalkFits, Covered, Ahead, Rising, Lacked
  <1> QED
    BY <1>1, <1>2, <1>3, <1>4, <1>5, <1>6 DEF Next

\* A walk that is over leaves the target with all that the source has (sync/driver.ts,
\* sync), whatever the content of both, the shapes of their trees and what the inserts
\* release meanwhile.
THEOREM WalkComplete == Spec => []SyncComplete
  <1>1. DriverInv => SyncComplete
    <2> SUFFICES ASSUME DriverInv, level >= 0, todo = <<>> PROVE setup.source \subseteq target
      BY DEF SyncComplete, Source
    <2>1. level # -1 /\ DOMAIN todo = {}
      OBVIOUS
    <2> QED
      BY <2>1 DEF DriverInv, Covered
  <1> QED
    BY <1>1, DriverInvInit, DriverInvNext, PTL DEF Spec

-----------------------------------------------------------------------------
(* The order of entries *)

\* Up to two bytes of clock, and then the hash.
LEMMA KeyBytes ==
  ASSUME NEW c \in Nat, c < N2, NEW g \in Nat
  PROVE  \E n \in 1..2 : \A i \in 1..KeyLength :
           /\ Key(c, g)[i] \in Nat
           /\ i > n => Key(c, g)[i] = g
           /\ i <= n => \A h \in Nat : Key(c, g)[i] = Key(c, h)[i]
           /\ \A h \in Nat : i > n => Key(c, h)[i] = h
  <1>1. PICK n : n = EncodingLength(c) /\ n \in 1..2
    BY DEF EncodingLength
  <1>2. EncodeClock(c) = [i \in 1..n |-> Group(c, n - i) + (IF i < n THEN 128 ELSE 0)]
    BY <1>1 DEF EncodeClock
  <1>3. Len(EncodeClock(c)) = n
    BY <1>1, <1>2
  <1>4. \A h, i : i \in 1..KeyLength =>
          Key(c, h)[i] = IF i <= n THEN EncodeClock(c)[i] ELSE h
    BY <1>3 DEF Key
  <1>5. ASSUME NEW i \in 1..KeyLength, i <= n PROVE Key(c, g)[i] \in Nat
    <2>1. CASE c < N1
      <3>1. n = 1 /\ i = 1
        BY <1>1, <1>5, <2>1, KeyLengthAssumption DEF EncodingLength
      <3> QED
        BY <2>1, <3>1, ShortKey
    <2>2. CASE c >= N1
      <3>1. i \in {1, 2}
        BY <1>1, <1>5, KeyLengthAssumption
      <3>2. c \div 128 + 128 \in Nat /\ c % 128 \in Nat
        OBVIOUS
      <3> QED
        BY <2>2, <3>1, <3>2, LongKey
    <2> QED
      BY <2>1, <2>2 DEF N1
  <1>6. ASSUME NEW i \in 1..KeyLength
        PROVE  /\ Key(c, g)[i] \in Nat
               /\ i > n => Key(c, g)[i] = g
               /\ i <= n => \A h \in Nat : Key(c, g)[i] = Key(c, h)[i]
               /\ \A h \in Nat : i > n => Key(c, h)[i] = h
    <2>1. i \in Nat /\ n \in Nat
      BY <1>1, KeyLengthAssumption
    <2>2. CASE i <= n
      BY <1>4, <1>5, <2>1, <2>2
    <2>3. CASE i > n
      BY <1>4, <2>1, <2>3
    <2> QED
      BY <2>1, <2>2, <2>3
  <1> QED
    BY <1>1, <1>6

LEMMA SameClock ==
  ASSUME NEW c \in Nat, c < N2, NEW g \in Nat, NEW h \in Nat, g < h
  PROVE  KeyBefore(Key(c, g), Key(c, h))
  <1>1. PICK n \in 1..2 : \A i \in 1..KeyLength :
           /\ Key(c, g)[i] \in Nat
           /\ i > n => Key(c, g)[i] = g
           /\ i <= n => \A k \in Nat : Key(c, g)[i] = Key(c, k)[i]
           /\ \A k \in Nat : i > n => Key(c, k)[i] = k
    BY KeyBytes
  <1>2. n + 1 \in 1..KeyLength /\ n + 1 > n
    BY KeyLengthAssumption
  <1>3. Key(c, g)[n + 1] < Key(c, h)[n + 1]
    BY <1>1, <1>2
  <1>4. \A j \in 1..((n + 1) - 1) : Key(c, g)[j] = Key(c, h)[j]
    BY <1>1, KeyLengthAssumption
  <1> QED
    BY <1>2, <1>3, <1>4 DEF KeyBefore

LEMMA OneWay ==
  ASSUME NEW a, NEW b, \A i \in 1..KeyLength : a[i] \in Nat /\ b[i] \in Nat,
         KeyBefore(a, b), KeyBefore(b, a)
  PROVE  FALSE
  <1>1. PICK i \in 1..KeyLength : a[i] < b[i] /\ \A j \in 1..(i - 1) : a[j] = b[j]
    BY DEF KeyBefore
  <1>2. PICK k \in 1..KeyLength : b[k] < a[k] /\ \A j \in 1..(k - 1) : b[j] = a[j]
    BY DEF KeyBefore
  <1>3. CASE i < k
    <2>1. i \in 1..(k - 1)
      BY <1>3, KeyLengthAssumption
    <2> QED
      BY <1>1, <1>2, <2>1
  <1>4. CASE k < i
    <2>1. k \in 1..(i - 1)
      BY <1>4, KeyLengthAssumption
    <2> QED
      BY <1>1, <1>2, <2>1
  <1>5. CASE i = k
    BY <1>1, <1>2, <1>5
  <1> QED
    BY <1>3, <1>4, <1>5, KeyLengthAssumption

\* Below clock 16384 keys sort by clock, and by hash within a clock.
LEMMA KeysCompare ==
  ASSUME NEW c \in Nat, c < N2, NEW d \in Nat, d < N2, NEW g \in Nat, NEW h \in Nat
  PROVE  KeyBefore(Key(c, g), Key(d, h)) <=> (c < d \/ (c = d /\ g < h))
  <1>1. \A i \in 1..KeyLength : Key(c, g)[i] \in Nat /\ Key(d, h)[i] \in Nat
    BY KeyBytes
  <1>2. CASE c < d
    BY <1>2, KeysFollowClocks
  <1>3. CASE d < c
    <2>1. KeyBefore(Key(d, h), Key(c, g))
      BY <1>3, KeysFollowClocks
    <2>2. ~ KeyBefore(Key(c, g), Key(d, h))
      BY <1>1, <2>1, OneWay
    <2> QED
      BY <1>3, <2>2
  <1>4. CASE c = d /\ g < h
    BY <1>4, SameClock
  <1>5. CASE c = d /\ h < g
    <2>1. KeyBefore(Key(d, h), Key(c, g))
      BY <1>5, SameClock
    <2>2. ~ KeyBefore(Key(c, g), Key(d, h))
      BY <1>1, <2>1, OneWay
    <2> QED
      BY <1>5, <2>2
  <1>6. CASE c = d /\ g = h
    <2>1. KeyBefore(Key(c, g), Key(c, g)) => FALSE
      BY <1>1, <1>6, OneWay
    <2> QED
      BY <1>6, <2>1
  <1> QED
    BY <1>2, <1>3, <1>4, <1>5, <1>6

\* So do entries, which are numbered in the order of keys.
LEMMA EntriesFollowClocks ==
  ASSUME \A m \in Messages : m[1] < N2,
         NEW e \in Entries, NEW f \in Entries, e < f
  PROVE  ClockOf(e) <= ClockOf(f)
  <1> DEFINE R == {p \in Messages \X Messages : KeyBefore(Key(p[1][1], p[1][2]), Key(p[2][1], p[2][2]))}
  <1>1. ASSUME NEW m \in Messages, NEW n \in Messages
        PROVE  /\ m[1] \in Nat /\ m[2] \in Nat /\ n[1] \in Nat /\ n[2] \in Nat
               /\ <<m, n>> \in R <=> KeyBefore(Key(m[1], m[2]), Key(n[1], n[2]))
               /\ <<m, n>> \in R <=> (m[1] < n[1] \/ (m[1] = n[1] /\ m[2] < n[2]))
               /\ m = n <=> (m[1] = n[1] /\ m[2] = n[2])
    <2>1. /\ m[1] \in Nat /\ m[2] \in Nat /\ n[1] \in Nat /\ n[2] \in Nat
          /\ m = <<m[1], m[2]>> /\ n = <<n[1], n[2]>> /\ m[1] < N2 /\ n[1] < N2
      BY MessagesFinite
    <2>2. <<m, n>> \in R <=> KeyBefore(Key(m[1], m[2]), Key(n[1], n[2]))
      OBVIOUS
    <2>3. KeyBefore(Key(m[1], m[2]), Key(n[1], n[2])) <=> (m[1] < n[1] \/ (m[1] = n[1] /\ m[2] < n[2]))
      BY <2>1, KeysCompare
    <2>4. m = n <=> (m[1] = n[1] /\ m[2] = n[2])
      BY <2>1
    <2> QED
      BY <2>1, <2>2, <2>3, <2>4
  <1> HIDE DEF R
  <1>2. Orders(R, Messages)
    <2>1. \A x \in Messages : <<x, x>> \notin R
      BY <1>1
    <2>2. \A x, y \in Messages : x # y => <<x, y>> \in R \/ <<y, x>> \in R
      BY <1>1
    <2>3. \A x, y, z \in Messages : <<x, y>> \in R /\ <<y, z>> \in R => <<x, z>> \in R
      BY <1>1
    <2> QED
      BY <2>1, <2>2, <2>3 DEF Orders
  <1>3. PICK s : s = InOrder
    OBVIOUS
  <1>4. ASSUME NEW x \in Messages
        PROVE  Before(R, Messages, x) =
                 {y \in Messages : KeyBefore(Key(y[1], y[2]), Key(x[1], x[2]))}
    BY <1>1 DEF Before
  <1>5. s = [i \in 1..Cardinality(Messages) |->
               CHOOSE x \in Messages :
                 Cardinality({y \in Messages : KeyBefore(Key(y[1], y[2]), Key(x[1], x[2]))}) = i - 1]
    BY <1>3 DEF InOrder, Ordered
  <1>6. s = [i \in 1..Cardinality(Messages) |-> s[i]]
    <2> DEFINE nth(i) ==
          CHOOSE x \in Messages :
            Cardinality({y \in Messages : KeyBefore(Key(y[1], y[2]), Key(x[1], x[2]))}) = i - 1
    <2>1. s = [i \in 1..Cardinality(Messages) |-> nth(i)]
      BY <1>5
    <2> HIDE DEF nth
    <2> QED
      BY <2>1
  <1>7. ASSUME NEW i \in 1..Cardinality(Messages),
               \E x \in Messages : Cardinality(Before(R, Messages, x)) = i - 1
        PROVE  s[i] \in Messages /\ Cardinality(Before(R, Messages, s[i])) = i - 1
    <2>1. \E x \in Messages :
            Cardinality({y \in Messages : KeyBefore(Key(y[1], y[2]), Key(x[1], x[2]))}) = i - 1
      BY <1>4, <1>7
    <2>2. /\ s[i] \in Messages
          /\ Cardinality({y \in Messages : KeyBefore(Key(y[1], y[2]), Key(s[i][1], s[i][2]))}) = i - 1
      BY <1>5, <2>1
    <2> QED
      BY <1>4, <2>2
  <1>8. IsOrdered(R, Messages, s)
    BY <1>2, <1>6, <1>7, MessagesFinite, InOrderOf
  <1>9. e \in DOMAIN s /\ f \in DOMAIN s /\ ClockOf(e) = s[e][1] /\ ClockOf(f) = s[f][1]
    BY <1>3 DEF Entries, ClockOf
  <1>10. /\ <<s[e], s[f]>> \in R /\ s[e] \in Messages /\ s[f] \in Messages
    BY <1>8, <1>9 DEF IsOrdered
  <1> QED
    BY <1>1, <1>9, <1>10

\* Below clock 16384 the walk yields entries in clock order, and yields none that the
\* target has, but to a target that was empty at the start (sync/driver.ts, which
\* messages are inserted from as they come).
THEOREM WalkInOrder == Spec => []YieldsInOrder
  <1>1. DriverInv => YieldsInOrder
    <2> SUFFICES ASSUME DriverInv PROVE YieldsInOrder
      OBVIOUS
    <2>1. /\ yielded \in Seq([entry : Entries, lacked : BOOLEAN]) /\ Rising /\ Lacked
      BY DEF DriverInv, WalkFits
    <2>2. ASSUME \A m \in Messages : m[1] < N2,
                 NEW j \in DOMAIN yielded, NEW i \in 1..(j - 1)
          PROVE  ClockOf(yielded[i].entry) <= ClockOf(yielded[j].entry)
      <3>1. i \in DOMAIN yielded /\ j \in Nat /\ i < j
        BY <2>1
      <3>2. yielded[i].entry < yielded[j].entry
        BY <2>1, <3>1 DEF Rising
      <3>3. /\ yielded[i] \in [entry : Entries, lacked : BOOLEAN]
            /\ yielded[j] \in [entry : Entries, lacked : BOOLEAN]
        BY <2>1, <3>1, ElementIn
      <3> QED
        BY <2>2, <3>2, <3>3, EntriesFollowClocks
    <2> QED
      BY <2>1, <2>2 DEF YieldsInOrder, KeepsClockOrder, Lacked
  <1> QED
    BY <1>1, DriverInvInit, DriverInvNext, PTL DEF Spec

-----------------------------------------------------------------------------
(* Iteration: who reads what is written                                    *)

IterationTypes ==
  /\ store \in SUBSET Access!Positive
  /\ DOMAIN phase = Access!Everyone
  /\ left \in [Writers -> Seq(Access!Positive)]
  /\ base \in [Iterators \cup Readers -> SUBSET store]
  /\ DOMAIN seen = Iterators \cup Readers
  /\ \A i \in Iterators : seen[i] \in Seq(Access!Positive)

\* A turn is had by one, or by several who only read; who writes has it, and who
\* reads has it but with LMDB.  Who sets a message has one left.
TurnsFit ==
  /\ \A x, y \in held : x # y => Access!Shares(x) /\ Access!Shares(y)
  /\ \A w \in Writers : phase[w] \in {"writing", "setting"} => w \in held
  /\ \A w \in Writers : phase[w] = "setting" => left[w] # <<>>
  /\ \A r \in Readers : phase[r] = "reading" /\ kind # "node" => r \in held

Rises(i) ==
  /\ \A j, k \in DOMAIN seen[i] : j < k => seen[i][j] < seen[i][k]
  /\ Access!Elements(seen[i]) \subseteq store
  /\ kind = "node" => Access!Elements(seen[i]) \subseteq base[i]

\* An iterator has yielded all there was up to where it is.
Gapless(i) == \A m \in base[i] : m \in Access!Elements(seen[i]) \/ m > Access!Last(seen[i])

IterFits(i) ==
  /\ Rises(i) /\ Gapless(i)
  /\ phase[i] = "idle" => seen[i] = <<>>
  /\ phase[i] = "done" => base[i] \subseteq Access!Elements(seen[i])

\* While it reads nothing is written.
ReadFits(r) ==
  /\ phase[r] = "reading" => Access!View(r) = base[r]
  /\ phase[r] = "done" => seen[r] = <<base[r]>>

IterationInv ==
  /\ IterationTypes /\ TurnsFit
  /\ \A i \in Iterators : IterFits(i)
  /\ \A r \in Readers : ReadFits(r)

-----------------------------------------------------------------------------

LEMMA IterationInit == ASSUME Access!Apart, Access!Init PROVE IterationInv
  <1>1. IterationTypes
    BY DEF Access!Apart, Access!Init, IterationTypes, Access!Everyone
  <1>2. TurnsFit
    BY DEF Access!Init, TurnsFit, Access!Everyone
  <1>3. ASSUME NEW i \in Iterators PROVE IterFits(i)
    <2>1. seen[i] = <<>> /\ base[i] = {} /\ phase[i] = "idle"
      BY DEF Access!Init, Access!Everyone
    <2> QED
      BY <2>1 DEF IterFits, Rises, Gapless, Access!Elements
  <1>4. ASSUME NEW r \in Readers PROVE ReadFits(r)
    BY DEF Access!Init, Access!Everyone, ReadFits
  <1> QED
    BY <1>1, <1>2, <1>3, <1>4 DEF IterationInv

\* What concerns an iterator and a reader, if the store grows at most.
LEMMA IterKept ==
  ASSUME NEW i \in Iterators, IterFits(i), kind' = kind, store \subseteq store',
         base'[i] = base[i], seen'[i] = seen[i],
         phase'[i] = phase[i] \/ phase'[i] \notin {"idle", "done"}
  PROVE  IterFits(i)'
  BY DEF IterFits, Rises, Gapless, Access!Elements, Access!Last

\* Others than who moves, as far as their parts stay.
Others(x) == \A y \in (Iterators \cup Readers) \ {x} :
  phase'[y] = phase[y] /\ base'[y] = base[y] /\ seen'[y] = seen[y]

LEMMA OthersKept ==
  ASSUME IterationInv, NEW x, Others(x), kind' = kind, store \subseteq store',
         kind = "node" \/ store' = store \/ \A r \in Readers : phase[r] # "reading"
  PROVE  /\ \A i \in Iterators : i # x => IterFits(i)'
         /\ \A r \in Readers : r # x => ReadFits(r)'
  <1>1. ASSUME NEW i \in Iterators, i # x PROVE IterFits(i)'
    BY <1>1, IterKept DEF IterationInv, Others
  <1>2. ASSUME NEW r \in Readers, r # x PROVE ReadFits(r)'
    BY <1>2 DEF IterationInv, Others, ReadFits, Access!View
  <1> QED
    BY <1>1, <1>2

LEMMA StaysFit ==
  ASSUME IterationInv, IterationTypes', TurnsFit', kind' = kind, store' = store, phase' = phase,
         base' = base, seen' = seen
  PROVE  IterationInv'
  <1>1. \A i \in Iterators : IterFits(i)'
    BY IterKept DEF IterationInv
  <1>2. \A r \in Readers : ReadFits(r)'
    BY DEF IterationInv, ReadFits, Access!View
  <1> QED
    BY <1>1, <1>2 DEF IterationInv

LEMMA GrantFits == ASSUME IterationInv, Access!Grant PROVE IterationInv'
  <1>1. IterationTypes'
    BY DEF Access!Grant, IterationInv, IterationTypes
  <1>2. TurnsFit'
    BY DEF Access!Grant, IterationInv, TurnsFit, Access!Shares, Access!MayHold
  <1> QED
    BY <1>1, <1>2, StaysFit DEF Access!Grant

\* A step of one that is no writer, and leaves no turn to another.
LEMMA TurnsKept ==
  ASSUME Access!Apart, IterationInv, NEW x \in Access!Everyone, NEW how, Access!To(x, how),
         kind' = kind, held' \subseteq held, held \ {x} \subseteq held',
         how = "setting" => left'[x] # <<>>, \A w \in Writers : w # x => left'[w] = left[w],
         x \in held' \/ (how \notin {"writing", "setting"} /\ (how = "reading" => kind = "node"))
  PROVE  TurnsFit'
  <1>1. \A y \in Access!Everyone : phase'[y] = IF y = x THEN how ELSE phase[y]
    BY DEF IterationInv, IterationTypes, Access!To
  <1>2. \A y, z \in held' : y # z => Access!Shares(y)' /\ Access!Shares(z)'
    BY DEF IterationInv, TurnsFit, Access!Shares
  <1>3. ASSUME NEW w \in Writers, phase'[w] \in {"writing", "setting"} PROVE w \in held'
    BY <1>1, <1>3 DEF IterationInv, TurnsFit, Access!Everyone
  <1>4. ASSUME NEW r \in Readers, phase'[r] = "reading" /\ kind # "node" PROVE r \in held'
    BY <1>1, <1>4 DEF IterationInv, TurnsFit, Access!Everyone
  <1>5. ASSUME NEW w \in Writers, phase'[w] = "setting" PROVE left'[w] # <<>>
    BY <1>1, <1>5 DEF IterationInv, TurnsFit, Access!Everyone
  <1> QED
    BY <1>2, <1>3, <1>4, <1>5 DEF TurnsFit

LEMMA IterateFits ==
  ASSUME Access!Apart, IterationInv, NEW i \in Iterators, Access!Iterate(i)
  PROVE  IterationInv'
  <1>1. /\ phase[i] = "idle" /\ Access!To(i, "open")
        /\ base' = [base EXCEPT ![i] = store]
        /\ held' = held /\ kind' = kind /\ store' = store /\ left' = left /\ seen' = seen
    BY DEF Access!Iterate, Access!Ask
  <1>2. IterationTypes'
    BY <1>1 DEF IterationInv, IterationTypes, Access!To
  <1>3. TurnsFit'
    <2>1. i \in Access!Everyone
      BY DEF Access!Everyone
    <2> QED
      BY <1>1, <2>1, TurnsKept
  <1>4. Others(i)
    BY <1>1 DEF Others, IterationInv, IterationTypes, Access!To, Access!Everyone
  <1>5. IterFits(i)'
    <2>1. phase'[i] = "open" /\ seen'[i] = <<>> /\ base'[i] = store
      BY <1>1 DEF IterationInv, IterationTypes, IterFits, Access!To, Access!Everyone
    <2>2. \A m \in base'[i] : m > 0
      <3>1. ASSUME NEW m \in store PROVE m > 0
        <4>1. m \in Nat /\ m # 0
          BY DEF IterationInv, IterationTypes, Access!Positive
        <4> QED
          BY <4>1
      <3> QED
        BY <2>1, <3>1
    <2> QED
      BY <2>1, <2>2 DEF IterFits, Rises, Gapless, Access!Elements, Access!Last
  <1> QED
    BY <1>1, <1>2, <1>3, <1>4, <1>5, OthersKept DEF IterationInv, Access!Apart

\* It yields the next of what it sees.
LEMMA YieldFits ==
  ASSUME Access!Apart, IterationInv, NEW i \in Iterators, Access!Yield(i)
  PROVE  IterationInv'
  <1>1. PICK m \in Access!Ahead(i) :
          /\ \A n \in Access!Ahead(i) : m <= n
          /\ seen' = [seen EXCEPT ![i] = Append(@, m)]
    BY DEF Access!Yield
  <1>2. /\ phase[i] = "open" /\ base' = base /\ phase' = phase
        /\ held' = held /\ kind' = kind /\ store' = store /\ left' = left
    BY DEF Access!Yield
  <1>3. /\ m \in Access!Positive /\ m \in Access!View(i) /\ m > Access!Last(seen[i])
        /\ seen[i] \in Seq(Access!Positive) /\ base[i] \subseteq store /\ store \subseteq Access!Positive
    BY <1>1 DEF Access!Ahead, Access!View, IterationInv, IterationTypes
  <1>4. PICK k : k = Len(seen[i]) /\ k \in Nat
    BY <1>3
  <1>5. /\ seen'[i] = Append(seen[i], m) /\ seen'[i] \in Seq(Access!Positive)
        /\ DOMAIN seen'[i] = 1..(k + 1) /\ DOMAIN seen[i] = 1..k /\ Len(seen'[i]) = k + 1
        /\ seen'[i][k + 1] = m /\ \A j \in 1..k : seen'[i][j] = seen[i][j]
    BY <1>1, <1>3, <1>4 DEF IterationInv, IterationTypes
  <1>6. IterationTypes'
    BY <1>1, <1>2, <1>5 DEF IterationInv, IterationTypes
  <1>7. TurnsFit'
    BY <1>2 DEF IterationInv, TurnsFit, Access!Shares
  <1>8. Others(i)
    BY <1>1, <1>2 DEF Others, IterationInv, IterationTypes
  <1>9. Access!Elements(seen'[i]) = Access!Elements(seen[i]) \cup {m}
    <2>1. 1..(k + 1) = 1..k \cup {k + 1}
      BY <1>4
    <2>2. \A e \in Access!Elements(seen'[i]) : e \in Access!Elements(seen[i]) \cup {m}
      BY <1>5, <2>1 DEF Access!Elements
    <2>3. \A e \in Access!Elements(seen[i]) : e \in Access!Elements(seen'[i])
      BY <1>5, <2>1 DEF Access!Elements
    <2>4. m \in Access!Elements(seen'[i])
      BY <1>5, <2>1 DEF Access!Elements
    <2> QED
      BY <2>2, <2>3, <2>4
  <1>10. Access!Last(seen'[i]) = m
    <2>1. seen'[i] # <<>>
      BY <1>4, <1>5
    <2> QED
      BY <1>5, <2>1 DEF Access!Last
  <1>11. \A j \in 1..k : seen[i][j] <= Access!Last(seen[i])
    <2>1. CASE k = 0
      BY <2>1
    <2>2. CASE k # 0
      <3>1. Access!Last(seen[i]) = seen[i][k] /\ k \in 1..k
        BY <1>3, <1>4, <2>2 DEF Access!Last
      <3>2. \A j \in 1..k : j < k => seen[i][j] < seen[i][k]
        BY <1>5, <3>1 DEF IterationInv, IterFits, Rises
      <3>3. \A j \in 1..k : seen[i][j] \in Nat
        <4>1. seen[i] \in [1..k -> Access!Positive]
          BY <1>3, <1>4
        <4> QED
          BY <4>1 DEF Access!Positive
      <3> QED
        BY <3>1, <3>2, <3>3
    <2> QED
      BY <1>4, <2>1, <2>2
  <1>12. Access!Last(seen[i]) \in Nat /\ m \in Nat /\ \A j \in 1..k : seen[i][j] \in Nat
    BY <1>3, <1>4, <1>5 DEF Access!Last, Access!Positive
  <1>13. Rises(i)'
    <2>1. ASSUME NEW j \in 1..(k + 1), NEW n \in 1..(k + 1), j < n
          PROVE  seen'[i][j] < seen'[i][n]
      <3>1. CASE n = k + 1
        BY <1>3, <1>4, <1>5, <1>11, <1>12, <2>1, <3>1
      <3>2. CASE n # k + 1
        <4>1. j \in 1..k /\ n \in 1..k
          BY <1>4, <2>1, <3>2
        <4>2. seen[i][j] < seen[i][n]
          BY <1>5, <2>1, <4>1 DEF IterationInv, IterFits, Rises
        <4> QED
          BY <1>5, <4>1, <4>2
      <3> QED
        BY <3>1, <3>2
    <2>2. Access!Elements(seen'[i]) \subseteq store
      BY <1>3, <1>9 DEF IterationInv, IterFits, Rises, Access!View
    <2>3. kind = "node" => Access!Elements(seen'[i]) \subseteq base[i]
      BY <1>3, <1>9 DEF IterationInv, IterFits, Rises, Access!View
    <2> QED
      BY <1>2, <1>5, <2>1, <2>2, <2>3 DEF Rises, Access!Elements
  <1>14. Gapless(i)'
    <2> SUFFICES ASSUME NEW n \in base[i], n \notin Access!Elements(seen'[i]) PROVE n > m
      BY <1>2, <1>10 DEF Gapless, Access!Elements, Access!Last
    <2>1. n > Access!Last(seen[i]) /\ n # m
      BY <1>9 DEF IterationInv, IterFits, Gapless
    <2>2. n \in Access!Ahead(i)
      BY <1>3, <2>1 DEF Access!Ahead, Access!View
    <2>3. n \in Nat
      BY <1>3 DEF Access!Positive
    <2> QED
      BY <1>1, <1>12, <2>1, <2>2, <2>3
  <1>15. IterFits(i)'
    BY <1>2, <1>13, <1>14 DEF IterFits
  <1> QED
    BY <1>2, <1>6, <1>7, <1>8, <1>15, OthersKept DEF IterationInv, Access!Apart

\* An iterator ends; by itself, if it has seen all there is.
LEMMA EndsFits ==
  ASSUME Access!Apart, IterationInv, NEW i \in Iterators, NEW how, Access!Ends(i, how),
         how \in {"left", "failed"} \/ (how = "done" /\ Access!Ahead(i) = {})
  PROVE  IterationInv'
  <1>1. /\ Access!To(i, how) /\ held' = held \ {i}
        /\ kind' = kind /\ store' = store /\ left' = left /\ base' = base /\ seen' = seen
    BY DEF Access!Ends, Access!Release
  <1>2. IterationTypes'
    BY <1>1 DEF IterationInv, IterationTypes, Access!To
  <1>3. TurnsFit'
    <2>1. i \in Access!Everyone
      BY DEF Access!Everyone
    <2> QED
      BY <1>1, <2>1, TurnsKept
  <1>4. Others(i)
    BY <1>1 DEF Others, IterationInv, IterationTypes, Access!To, Access!Everyone
  <1>5. IterFits(i)'
    <2>1. phase'[i] = how /\ how # "idle"
      BY <1>1 DEF IterationInv, IterationTypes, Access!To, Access!Everyone
    <2>2. Rises(i)' /\ Gapless(i)'
      BY <1>1 DEF IterationInv, IterFits, Rises, Gapless, Access!Elements, Access!Last
    <2>3. ASSUME how = "done" PROVE base[i] \subseteq Access!Elements(seen[i])
      <3>1. base[i] \subseteq Access!View(i)
        BY DEF Access!View, IterationInv, IterationTypes
      <3> QED
        BY <2>3, <3>1 DEF IterationInv, IterFits, Gapless, Access!Ahead
    <2> QED
      BY <1>1, <2>1, <2>2, <2>3 DEF IterFits, Access!Elements
  <1> QED
    BY <1>1, <1>2, <1>3, <1>4, <1>5, OthersKept DEF IterationInv, Access!Apart

LEMMA AskReadFits ==
  ASSUME Access!Apart, IterationInv, NEW r \in Readers, Access!AskRead(r)
  PROVE  IterationInv'
  <1>1. /\ phase[r] = "idle" /\ Access!To(r, "asked") /\ held' = held
        /\ kind' = kind /\ store' = store /\ left' = left /\ base' = base /\ seen' = seen
    BY DEF Access!AskRead, Access!Ask
  <1>2. IterationTypes'
    BY <1>1 DEF IterationInv, IterationTypes, Access!To
  <1>3. TurnsFit'
    <2>1. r \in Access!Everyone
      BY DEF Access!Everyone
    <2> QED
      BY <1>1, <2>1, TurnsKept
  <1>4. Others(r)
    BY <1>1 DEF Others, IterationInv, IterationTypes, Access!To, Access!Everyone
  <1>5. ReadFits(r)'
    BY <1>1 DEF IterationInv, IterationTypes, ReadFits, Access!To, Access!Everyone
  <1> QED
    BY <1>1, <1>2, <1>3, <1>4, <1>5, OthersKept DEF IterationInv, Access!Apart

LEMMA BeginReadFits ==
  ASSUME Access!Apart, IterationInv, NEW r \in Readers, Access!BeginRead(r)
  PROVE  IterationInv'
  <1>1. /\ kind = "node" \/ r \in held
        /\ Access!To(r, "reading") /\ held' = held
        /\ kind' = kind /\ store' = store /\ left' = left /\ seen' = seen
        /\ base' = [base EXCEPT ![r] = store]
    BY DEF Access!BeginRead
  <1>2. IterationTypes'
    BY <1>1 DEF IterationInv, IterationTypes, Access!To
  <1>3. TurnsFit'
    <2>1. r \in Access!Everyone
      BY DEF Access!Everyone
    <2> QED
      BY <1>1, <2>1, TurnsKept
  <1>4. Others(r)
    BY <1>1 DEF Others, IterationInv, IterationTypes, Access!To, Access!Everyone
  <1>5. ReadFits(r)'
    BY <1>1 DEF IterationInv, IterationTypes, ReadFits, Access!To, Access!Everyone, Access!View
  <1> QED
    BY <1>1, <1>2, <1>3, <1>4, <1>5, OthersKept DEF IterationInv, Access!Apart

LEMMA EndReadFits ==
  ASSUME Access!Apart, IterationInv, NEW r \in Readers, Access!EndRead(r)
  PROVE  IterationInv'
  <1>1. /\ phase[r] = "reading" /\ Access!To(r, "done") /\ held' = held \ {r}
        /\ kind' = kind /\ store' = store /\ left' = left /\ base' = base
        /\ seen' = [seen EXCEPT ![r] = <<Access!View(r)>>]
    BY DEF Access!EndRead, Access!Release
  <1>2. IterationTypes'
    BY <1>1 DEF IterationInv, IterationTypes, Access!To, Access!Apart
  <1>3. TurnsFit'
    <2>1. r \in Access!Everyone
      BY DEF Access!Everyone
    <2> QED
      BY <1>1, <2>1, TurnsKept
  <1>4. Others(r)
    BY <1>1 DEF Others, IterationInv, IterationTypes, Access!To, Access!Everyone
  <1>5. ReadFits(r)'
    BY <1>1 DEF IterationInv, IterationTypes, ReadFits, Access!To, Access!Everyone
  <1> QED
    BY <1>1, <1>2, <1>3, <1>4, <1>5, OthersKept DEF IterationInv, Access!Apart

\* What a step of a writer has to keep.
LEMMA WriterFits ==
  ASSUME Access!Apart, IterationInv, NEW w \in Writers,
         phase' = phase \/ \E how : Access!To(w, how),
         kind' = kind, base' = base, seen' = seen, TurnsFit',
         left' \in [Writers -> Seq(Access!Positive)], store \subseteq store', store' \subseteq Access!Positive,
         kind = "node" \/ store' = store \/ w \in held
  PROVE  IterationInv'
  <1>1. IterationTypes'
    BY DEF IterationInv, IterationTypes, Access!To
  <1>2. \A x \in Iterators \cup Readers : x # w
    BY DEF Access!Apart
  <1>3. Others(w)
    BY <1>2 DEF Others, IterationInv, IterationTypes, Access!To, Access!Everyone
  <1>4. ASSUME w \in held, kind # "node", NEW r \in Readers PROVE phase[r] # "reading"
    BY <1>2, <1>4 DEF IterationInv, TurnsFit, Access!Shares
  <1> QED
    BY <1>1, <1>2, <1>3, <1>4, OthersKept DEF IterationInv

LEMMA AskWriteFits ==
  ASSUME Access!Apart, IterationInv, NEW w \in Writers, Access!AskWrite(w) \/ Access!BeginWrite(w)
  PROVE  IterationInv'
  <1>1. /\ Access!To(w, "asked") \/ (Access!To(w, "writing") /\ w \in held)
        /\ held' = held /\ kind' = kind /\ store' = store /\ left' = left
        /\ base' = base /\ seen' = seen
    BY DEF Access!AskWrite, Access!BeginWrite, Access!Ask
  <1>2. w \in Access!Everyone
    BY DEF Access!Everyone
  <1>3. TurnsFit'
    BY <1>1, <1>2, TurnsKept
  <1> QED
    BY <1>1, <1>3, WriterFits DEF IterationInv, IterationTypes

\* The message a writer sets next is one, and so are those left.
LEMMA NextSet ==
  ASSUME IterationInv, NEW w \in Writers, left[w] # <<>>,
         store' = store \cup {Head(left[w])}, left' = [left EXCEPT ![w] = Tail(@)]
  PROVE  left' \in [Writers -> Seq(Access!Positive)] /\ store \subseteq store' /\ store' \subseteq Access!Positive
  <1>1. left[w] \in Seq(Access!Positive) /\ store \subseteq Access!Positive
    BY DEF IterationInv, IterationTypes
  <1>2. Head(left[w]) \in Access!Positive /\ Tail(left[w]) \in Seq(Access!Positive)
    BY <1>1, HeadTailProperties
  <1> QED
    BY <1>1, <1>2 DEF IterationInv, IterationTypes

LEMMA SetFits ==
  ASSUME Access!Apart, IterationInv, NEW w \in Writers, Access!Set(w) PROVE IterationInv'
  <1>1. /\ phase[w] = "writing" /\ left[w] # <<>> /\ phase' = phase /\ held' = held /\ kind' = kind
        /\ base' = base /\ seen' = seen
        /\ store' = store \cup {Head(left[w])} /\ left' = [left EXCEPT ![w] = Tail(@)]
    BY DEF Access!Set, Access!Sets
  <1>2. w \in held
    BY <1>1 DEF IterationInv, TurnsFit
  <1>3. TurnsFit'
    <2>1. \A y \in Writers : phase[y] = "setting" => left'[y] = left[y]
      BY <1>1 DEF IterationInv, IterationTypes
    <2> QED
      BY <1>1, <2>1 DEF IterationInv, TurnsFit, Access!Shares
  <1> QED
    BY <1>1, <1>2, <1>3, NextSet, WriterFits

LEMMA BeginSetFits ==
  ASSUME Access!Apart, IterationInv, NEW w \in Writers, Access!BeginSet(w) PROVE IterationInv'
  <1>1. /\ phase[w] = "writing" /\ left[w] # <<>> /\ Access!To(w, "setting") /\ held' = held /\ kind' = kind
        /\ base' = base /\ seen' = seen /\ store' = store /\ left' = left
    BY DEF Access!BeginSet, Access!Sets
  <1>2. w \in held /\ w \in Access!Everyone
    BY <1>1 DEF IterationInv, TurnsFit, Access!Everyone
  <1>3. TurnsFit'
    BY <1>1, <1>2, TurnsKept
  <1> QED
    BY <1>1, <1>3, WriterFits DEF IterationInv, IterationTypes

LEMMA EndSetFits ==
  ASSUME Access!Apart, IterationInv, NEW w \in Writers, Access!EndSet(w)
  PROVE  IterationInv'
  <1>1. /\ phase[w] = "setting" /\ Access!To(w, "writing") /\ held' = held /\ kind' = kind
        /\ base' = base /\ seen' = seen
        /\ store' = store \cup {Head(left[w])} /\ left' = [left EXCEPT ![w] = Tail(@)]
    BY DEF Access!EndSet
  <1>2. left[w] # <<>> /\ w \in held /\ w \in Access!Everyone
    BY <1>1 DEF IterationInv, TurnsFit, Access!Everyone
  <1>3. TurnsFit'
    <2>1. \A y \in Writers : y # w => left'[y] = left[y]
      BY <1>1 DEF IterationInv, IterationTypes
    <2> QED
      BY <1>1, <1>2, <2>1, TurnsKept
  <1> QED
    BY <1>1, <1>2, <1>3, NextSet, WriterFits

\* The end of a writer's turn.
LEMMA LeavesFits ==
  ASSUME Access!Apart, IterationInv, NEW w \in Writers, NEW how, how \in {"done", "failed"},
         Access!To(w, how), Access!Release(w), kind' = kind, base' = base, seen' = seen,
         left' \in [Writers -> Seq(Access!Positive)], \A y \in Writers : y # w => left'[y] = left[y],
         store \subseteq store', store' \subseteq Access!Positive,
         kind = "node" \/ store' = store
  PROVE  IterationInv'
  <1>1. held' = held \ {w} /\ w \in Access!Everyone
    BY DEF Access!Release, Access!Everyone
  <1>2. /\ how \notin {"writing", "setting"} /\ how # "setting" /\ how # "reading"
        /\ held' \subseteq held /\ held \ {w} \subseteq held'
    BY <1>1
  <1>3. TurnsFit'
    BY <1>1, <1>2, TurnsKept
  <1> QED
    BY <1>3, WriterFits

LEMMA FailSetFits ==
  ASSUME Access!Apart, IterationInv, NEW w \in Writers, Access!FailSet(w) \/ Access!EndWrite(w)
  PROVE  IterationInv'
  <1>1. PICK how \in {"done", "failed"} :
          /\ Access!To(w, how) /\ Access!Release(w)
          /\ kind' = kind /\ base' = base /\ seen' = seen /\ store' = store /\ left' = left
    BY DEF Access!FailSet, Access!EndWrite
  <1>2. left' \in [Writers -> Seq(Access!Positive)] /\ store' \subseteq Access!Positive
    BY <1>1 DEF IterationInv, IterationTypes
  <1> QED
    BY <1>1, <1>2, LeavesFits

LEMMA CommitFits ==
  ASSUME Access!Apart, IterationInv, NEW w \in Writers, Access!Commit(w) PROVE IterationInv'
  <1>1. /\ Access!To(w, "done") /\ Access!Release(w) /\ kind = "node"
        /\ kind' = kind /\ base' = base /\ seen' = seen
        /\ store' = store \cup Access!Elements(left[w]) /\ left' = [left EXCEPT ![w] = <<>>]
    BY DEF Access!Commit
  <1>2. left' \in [Writers -> Seq(Access!Positive)] /\ \A y \in Writers : y # w => left'[y] = left[y]
    BY <1>1 DEF IterationInv, IterationTypes
  <1>3. Access!Elements(left[w]) \subseteq Access!Positive /\ store \subseteq Access!Positive
    BY DEF IterationInv, IterationTypes, Access!Elements
  <1> QED
    BY <1>1, <1>2, <1>3, LeavesFits

-----------------------------------------------------------------------------

LEMMA IterationKept == ASSUME Access!Apart, IterationInv, [Access!Next]_(Access!vars) PROVE IterationInv'
  <1>1. CASE UNCHANGED Access!vars
    <2>1. /\ kind' = kind /\ store' = store /\ held' = held /\ phase' = phase /\ left' = left
          /\ base' = base /\ seen' = seen
      BY <1>1 DEF Access!vars
    <2>2. IterationTypes' /\ TurnsFit'
      BY <2>1 DEF IterationInv, IterationTypes, TurnsFit, Access!Shares
    <2> QED
      BY <2>1, <2>2, StaysFit
  <1>2. CASE Access!Grant
    BY <1>2, GrantFits
  <1>3. ASSUME NEW i \in Iterators, Access!Iterate(i) \/ Access!Iterates(i) PROVE IterationInv'
    <2>1. CASE Access!Iterate(i)
      BY <2>1, IterateFits
    <2>2. CASE Access!Yield(i)
      BY <2>2, YieldFits
    <2>3. CASE Access!Finish(i) \/ Access!Break(i) \/ Access!Throw(i)
      BY <2>3, EndsFits DEF Access!Finish, Access!Break, Access!Throw
    <2> QED
      BY <1>3, <2>1, <2>2, <2>3 DEF Access!Iterates
  <1>4. ASSUME NEW r \in Readers, Access!AskRead(r) \/ Access!Reads(r) PROVE IterationInv'
    BY <1>4, AskReadFits, BeginReadFits, EndReadFits DEF Access!Reads
  <1>5. ASSUME NEW w \in Writers, Access!AskWrite(w) \/ Access!Writes(w) PROVE IterationInv'
    BY <1>5, AskWriteFits, SetFits, BeginSetFits, EndSetFits, FailSetFits, CommitFits
       DEF Access!Writes
  <1> QED
    BY <1>1, <1>2, <1>3, <1>4, <1>5 DEF Access!Next

\* Who reads the log while it is written reads all there is, of one moment
\* (gossiplog/src/node, memory and browser, index.ts), for any iterators, readers and
\* writers.
THEOREM IterationReadsSound == ASSUME Access!Apart PROVE Access!Spec => []ReadsSound
  <1>1. Access!Init => IterationInv
    BY IterationInit
  <1>2. IterationInv /\ [Access!Next]_(Access!vars) => IterationInv'
    BY IterationKept
  <1>3. IterationInv => ReadsSound
    <2>1. ASSUME IterationInv PROVE Access!YieldsAll
      BY <2>1 DEF IterationInv, IterFits, Rises, Access!YieldsAll
    <2>2. ASSUME IterationInv PROVE Access!ReadsAgree
      BY <2>2 DEF IterationInv, ReadFits, Access!ReadsAgree
    <2> QED
      BY <2>1, <2>2 DEF ReadsSound, Access!ReadsSound
  <1> QED
    BY <1>1, <1>2, <1>3, PTL DEF Access!Spec
=============================================================================
