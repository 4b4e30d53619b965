-------------------------------- MODULE Clock ---------------------------------
(***************************************************************************)
(* The clocks that message keys begin with, packages/gossiplog/src/clock.ts *)
(* and getKey of schema.ts: groups of seven bits, the most significant      *)
(* first, each but the last with a continuation bit.  Clocks are below      *)
(* 2^28, so that there are at most four groups.                            *)
(***************************************************************************)
EXTENDS Integers, Sequences

CONSTANT KeyLength  \* bytes of a key

ASSUME KeyLengthAssumption == KeyLength \in Nat /\ KeyLength > 4

N1 == 128
N2 == N1 * 128
N3 == N2 * 128
N4 == N3 * 128

EncodingLength(clock) ==
  IF clock < N1 THEN 1 ELSE IF clock < N2 THEN 2 ELSE IF clock < N3 THEN 3 ELSE 4

\* The seven bits that have so many groups after them.
Group(clock, after) ==
  (IF after = 0 THEN clock ELSE IF after = 1 THEN clock \div N1
   ELSE IF after = 2 THEN clock \div N2 ELSE clock \div N3) % 128

EncodeClock(clock) ==
  LET length == EncodingLength(clock)
  IN [i \in 1..length |-> Group(clock, length - i) + IF i < length THEN 128 ELSE 0]

\* The bytes up to the first without a continuation bit.
ClockLength(key) ==
  CHOOSE n \in 1..4 : key[n] < 128 /\ \A i \in 1..(n - 1) : key[i] >= 128

DecodeClock(key) ==
  LET n == ClockLength(key)
      bits(i) == key[i] % 128
  IN CASE n = 1 -> bits(1)
       [] n = 2 -> bits(1) * N1 + bits(2)
       [] n = 3 -> bits(1) * N2 + bits(2) * N1 + bits(3)
       [] n = 4 -> bits(1) * N3 + bits(2) * N2 + bits(3) * N1 + bits(4)

\* getKey: the clock and then the hash, which is one byte over and over here.
Key(clock, hash) ==
  LET encoded == EncodeClock(clock)
  IN [i \in 1..KeyLength |-> IF i <= Len(encoded) THEN encoded[i] ELSE hash]

\* The order of the tree, and of message ids as strings.
KeyBefore(a, b) ==
  \E i \in 1..KeyLength : a[i] < b[i] /\ \A j \in 1..(i - 1) : a[j] = b[j]

=============================================================================
