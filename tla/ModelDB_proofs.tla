---------------------------- MODULE ModelDB_proofs ----------------------------
(***************************************************************************)
(* Proofs about ModelDB: that it implements Table, and that its live        *)
(* queries stay complete; and about LiveQuery: that the hook shows its      *)
(* query.                                                                  *)
(***************************************************************************)
EXTENDS ModelDB, LiveHook, SequenceTheorems, WellFoundedInduction, TLAPS

-----------------------------------------------------------------------------
(* Rows: what a store holds *)

Held(rows) == {rows[i] : i \in DOMAIN rows}
Ids(rows) == {rows[i].id : i \in DOMAIN rows}

\* Rows of S, one for each id.
RowsFit(rows, S) ==
  /\ rows \in Seq(S)
  /\ \A i, j \in DOMAIN rows : rows[i].id = rows[j].id => i = j

LEMMA Smallest ==
  ASSUME NEW T \in SUBSET Nat, T # {}
  PROVE  \E n \in T : \A m \in T : n <= m
<1>1. PICK n \in T : \A m \in T : <<m, n>> \notin OpToRel(<, Nat)
  BY NatLessThanWellFounded, WFMin
<1>2. ASSUME NEW m \in T, m < n PROVE FALSE
  <2>1. <<m, n>> \in OpToRel(<, Nat)
    BY <1>2 DEF OpToRel
  <2> QED
    BY <1>1, <2>1
<1> QED
  BY <1>2

LEMMA MinIs ==
  ASSUME NEW T \in SUBSET Nat, T # {}
  PROVE  Min(T) \in T
<1>1. \E n \in T : \A m \in T : n <= m
  BY Smallest
<1> QED
  BY <1>1 DEF Min

\* Where a row is: 0 if there is none.
LEMMA AtFinds ==
  ASSUME NEW S, NEW rows \in Seq(S), NEW key
  PROVE  /\ At(rows, key) # 0 => At(rows, key) \in DOMAIN rows /\ rows[At(rows, key)].id = key
         /\ At(rows, key) = 0 => \A i \in DOMAIN rows : rows[i].id # key
<1> DEFINE I == {i \in 1..Len(rows) : rows[i].id = key}
<1>1. DOMAIN rows = 1..Len(rows) /\ Len(rows) \in Nat
  OBVIOUS
<1>2. At(rows, key) = IF I # {} THEN Min(I) ELSE 0
  BY DEF At, SelectInSeq
<1>3. I # {} => Min(I) \in I
  <2>1. I \in SUBSET Nat
    BY <1>1
  <2> HIDE DEF I
  <2> QED
    BY <2>1, MinIs
<1>4. \A i \in I : i \in DOMAIN rows /\ rows[i].id = key /\ i # 0
  BY <1>1
<1>5. I = {} => \A i \in DOMAIN rows : rows[i].id # key
  BY <1>1
<1> HIDE DEF I
<1> QED
  BY <1>2, <1>3, <1>4, <1>5

LEMMA InsertAtIs ==
  ASSUME NEW S, NEW rows \in Seq(S), NEW row \in S, NEW n \in DOMAIN rows
  PROVE  /\ InsertAt(rows, n, row) \in Seq(S)
         /\ InsertAt(rows, n, row) =
              [i \in 1..(Len(rows) + 1) |->
                 IF i < n THEN rows[i] ELSE IF i = n THEN row ELSE rows[i - 1]]
<1> DEFINE low == SubSeq(rows, 1, n - 1)
           high == SubSeq(rows, n, Len(rows))
<1>1. DOMAIN rows = 1..Len(rows) /\ Len(rows) \in Nat /\ n \in 1..Len(rows)
  OBVIOUS
<1>2. low \in Seq(S) /\ Len(low) = n - 1 /\ \A i \in 1..(n - 1) : low[i] = rows[i]
  BY <1>1, SubSeqProperties
<1>3. high \in Seq(S) /\ Len(high) = Len(rows) - n + 1
      /\ \A i \in 1..(Len(rows) - n + 1) : high[i] = rows[n + i - 1]
  BY <1>1, SubSeqProperties
<1>4. InsertAt(rows, n, row) = (low \o <<row>>) \o high
  BY DEF InsertAt
<1> HIDE DEF low, high
<1>5. low \o <<row>> \in Seq(S) /\ Len(low \o <<row>>) = n
      /\ \A i \in 1..n : (low \o <<row>>)[i] = IF i < n THEN rows[i] ELSE row
  BY <1>1, <1>2
<1> DEFINE front == low \o <<row>>
<1> HIDE DEF front
<1>6. front \in Seq(S) /\ Len(front) = n
      /\ \A i \in 1..n : front[i] = IF i < n THEN rows[i] ELSE row
  BY <1>5 DEF front
<1>7. front \o high \in Seq(S) /\ Len(front \o high) = Len(rows) + 1
      /\ \A i \in 1..(Len(rows) + 1) : (front \o high)[i] = IF i <= n THEN front[i] ELSE high[i - n]
  <2>1. \A i \in 1..(Len(front) + Len(high)) :
          (front \o high)[i] = IF i <= Len(front) THEN front[i] ELSE high[i - Len(front)]
    BY <1>3, <1>6, ConcatProperties
  <2>2. front \o high \in Seq(S) /\ Len(front \o high) = Len(front) + Len(high)
    BY <1>3, <1>6, ConcatProperties
  <2>3. Len(front) + Len(high) = Len(rows) + 1
    BY <1>1, <1>3, <1>6
  <2> QED
    BY <1>6, <2>1, <2>2, <2>3
<1>8. \A i \in 1..(Len(rows) + 1) :
        (front \o high)[i] = IF i < n THEN rows[i] ELSE IF i = n THEN row ELSE rows[i - 1]
  <2> TAKE i \in 1..(Len(rows) + 1)
  <2>1. CASE i <= n
    BY <1>1, <1>6, <1>7, <2>1
  <2>2. CASE i > n
    <3>1. i - n \in 1..(Len(rows) - n + 1) /\ n + (i - n) - 1 = i - 1
      BY <1>1, <2>2
    <3>2. high[i - n] = rows[i - 1]
      BY <1>3, <3>1
    <3>3. ~(i <= n) /\ ~(i < n) /\ i # n
      BY <1>1, <2>2
    <3>4. (front \o high)[i] = high[i - n]
      BY <1>7, <3>3
    <3> QED
      BY <3>2, <3>3, <3>4
  <2>3. i <= n \/ i > n
    BY <1>1
  <2> QED
    BY <2>1, <2>2, <2>3
<1> DEFINE new == front \o high
<1>9. InsertAt(rows, n, row) = new
  BY <1>4 DEF front
<1> HIDE DEF new
<1>10. new \in Seq(S) /\ DOMAIN new = 1..(Len(rows) + 1)
  BY <1>7 DEF new
<1>11. new = [i \in DOMAIN new |-> new[i]]
  BY <1>10
<1>12. new = [i \in 1..(Len(rows) + 1) |->
                IF i < n THEN rows[i] ELSE IF i = n THEN row ELSE rows[i - 1]]
  BY <1>8, <1>10, <1>11 DEF new
<1> QED
  BY <1>9, <1>10, <1>12

LEMMA RemoveAtIs ==
  ASSUME NEW S, NEW rows \in Seq(S), NEW n \in DOMAIN rows
  PROVE  LET new == RemoveAt(rows, n)
         IN /\ new \in Seq(S) /\ DOMAIN new = 1..(Len(rows) - 1)
            /\ \A i \in DOMAIN new : new[i] = IF i < n THEN rows[i] ELSE rows[i + 1]
<1> DEFINE low == SubSeq(rows, 1, n - 1)
           high == SubSeq(rows, n + 1, Len(rows))
<1>1. DOMAIN rows = 1..Len(rows) /\ Len(rows) \in Nat /\ n \in 1..Len(rows)
  OBVIOUS
<1>2. low \in Seq(S) /\ Len(low) = n - 1 /\ \A i \in 1..(n - 1) : low[i] = rows[i]
  BY <1>1, SubSeqProperties
<1>3. high \in Seq(S) /\ Len(high) = Len(rows) - n
      /\ \A i \in 1..(Len(rows) - n) : high[i] = rows[n + i]
  BY <1>1, SubSeqProperties
<1>4. RemoveAt(rows, n) = low \o high
  BY DEF RemoveAt
<1> HIDE DEF low, high
<1>5. low \o high \in Seq(S) /\ Len(low \o high) = Len(rows) - 1
      /\ \A i \in 1..(Len(rows) - 1) : (low \o high)[i] = IF i < n THEN low[i] ELSE high[i - n + 1]
  <2>1. \A i \in 1..(Len(low) + Len(high)) :
          (low \o high)[i] = IF i <= Len(low) THEN low[i] ELSE high[i - Len(low)]
    BY <1>2, <1>3, ConcatProperties
  <2>2. low \o high \in Seq(S) /\ Len(low \o high) = Len(low) + Len(high)
    BY <1>2, <1>3, ConcatProperties
  <2>3. Len(low) + Len(high) = Len(rows) - 1
    BY <1>1, <1>2, <1>3
  <2>4. \A i \in 1..(Len(rows) - 1) : (i <= Len(low) <=> i < n) /\ i - Len(low) = i - n + 1
    BY <1>1, <1>2
  <2> QED
    BY <2>1, <2>2, <2>3, <2>4
<1>6. \A i \in 1..(Len(rows) - 1) : (low \o high)[i] = IF i < n THEN rows[i] ELSE rows[i + 1]
  <2> TAKE i \in 1..(Len(rows) - 1)
  <2>1. CASE i < n
    BY <1>1, <1>2, <1>5, <2>1
  <2>2. CASE ~(i < n)
    <3>1. i - n + 1 \in 1..(Len(rows) - n) /\ n + (i - n + 1) = i + 1
      BY <1>1, <2>2
    <3> QED
      BY <1>3, <1>5, <2>2, <3>1
  <2> QED
    BY <2>1, <2>2
<1>7. low \o high \in Seq(S) /\ DOMAIN (low \o high) = 1..(Len(rows) - 1)
  <2> DEFINE new == low \o high
  <2>1. new \in Seq(S) /\ Len(new) = Len(rows) - 1
    BY <1>5
  <2> HIDE DEF new
  <2>2. DOMAIN new = 1..(Len(rows) - 1)
    BY <2>1
  <2> QED
    BY <2>1, <2>2 DEF new
<1> QED
  BY <1>4, <1>6, <1>7

LEMMA InsertHolds ==
  ASSUME NEW S, NEW rows, RowsFit(rows, S), NEW row \in S, NEW n \in DOMAIN rows,
         \A i \in DOMAIN rows : rows[i].id # row.id
  PROVE  /\ RowsFit(InsertAt(rows, n, row), S)
         /\ Held(InsertAt(rows, n, row)) = {r \in Held(rows) : r.id # row.id} \cup {row}
<1> DEFINE new == InsertAt(rows, n, row)
<1>1. rows \in Seq(S) /\ DOMAIN rows = 1..Len(rows) /\ Len(rows) \in Nat /\ n \in Nat
  BY DEF RowsFit
<1>2. \A i, j \in DOMAIN rows : rows[i].id = rows[j].id => i = j
  BY DEF RowsFit
<1>3. new \in Seq(S) /\ DOMAIN new = 1..(Len(rows) + 1)
      /\ \A i \in 1..(Len(rows) + 1) :
           new[i] = IF i < n THEN rows[i] ELSE IF i = n THEN row ELSE rows[i - 1]
  <2> HIDE DEF new
  <2>1. rows \in Seq(S)
    BY <1>1
  <2>2. /\ InsertAt(rows, n, row) \in Seq(S)
        /\ InsertAt(rows, n, row) =
             [i \in 1..(Len(rows) + 1) |->
                IF i < n THEN rows[i] ELSE IF i = n THEN row ELSE rows[i - 1]]
    BY <2>1, InsertAtIs
  <2> QED
    BY <1>1, <2>2 DEF new
<1> HIDE DEF new
<1>4. \A i \in DOMAIN new :
        \/ i < n /\ i \in DOMAIN rows /\ new[i] = rows[i]
        \/ i = n /\ new[i] = row
        \/ i > n /\ i - 1 \in DOMAIN rows /\ new[i] = rows[i - 1]
  BY <1>1, <1>3
<1>5. ASSUME NEW i \in DOMAIN new, NEW j \in DOMAIN new, new[i].id = new[j].id
      PROVE  i = j
  <2>0. i \in Nat /\ j \in Nat
    BY <1>1, <1>3
  <2>1. /\ i # n => new[i].id # row.id
        /\ j # n => new[j].id # row.id
    BY <1>1, <1>4, <2>0
  <2>2. CASE i = n \/ j = n
    BY <1>1, <1>3, <1>5, <2>1, <2>2
  <2>3. CASE i < n /\ j < n
    BY <1>1, <1>2, <1>4, <1>5, <2>0, <2>3
  <2>4. CASE i > n /\ j > n
    <3>1. i - 1 = j - 1
      BY <1>1, <1>2, <1>4, <1>5, <2>0, <2>4
    <3> QED
      BY <2>0, <3>1
  <2>5. CASE i < n /\ j > n
    <3>1. i = j - 1
      BY <1>1, <1>2, <1>4, <1>5, <2>0, <2>5
    <3> QED
      BY <1>1, <2>0, <2>5, <3>1
  <2>6. CASE j < n /\ i > n
    <3>1. j = i - 1
      BY <1>1, <1>2, <1>4, <1>5, <2>0, <2>6
    <3> QED
      BY <1>1, <2>0, <2>6, <3>1
  <2> QED
    BY <1>1, <2>0, <2>2, <2>3, <2>4, <2>5, <2>6
<1>6. RowsFit(new, S)
  BY <1>3, <1>5 DEF RowsFit
<1>7. \A i \in DOMAIN rows : \E k \in DOMAIN new : new[k] = rows[i]
  <2> TAKE i \in DOMAIN rows
  <2>1. CASE i < n
    <3>1. i \in DOMAIN new
      BY <1>1, <1>3
    <3> QED
      BY <1>3, <2>1, <3>1
  <2>2. CASE ~(i < n)
    <3>1. i + 1 \in DOMAIN new /\ ~(i + 1 < n) /\ i + 1 # n /\ (i + 1) - 1 = i
      BY <1>1, <1>3, <2>2
    <3> QED
      BY <1>3, <3>1
  <2> QED
    BY <2>1, <2>2
<1>8. n \in DOMAIN new /\ new[n] = row
  BY <1>1, <1>3
<1>9. Held(new) = {r \in Held(rows) : r.id # row.id} \cup {row}
  BY <1>4, <1>7, <1>8 DEF Held
<1> QED
  BY <1>6, <1>9 DEF new

\* The row is there, in the place of the one that had its id.
LEMMA PutHolds ==
  ASSUME NEW S, NEW rows, RowsFit(rows, S), NEW row \in S
  PROVE  /\ RowsFit(Put(rows, row), S)
         /\ Held(Put(rows, row)) = {r \in Held(rows) : r.id # row.id} \cup {row}
<1> DEFINE at == At(rows, row.id)
           next == SelectInSeq(rows, LAMBDA other : row.id < other.id)
<1>1. rows \in Seq(S) /\ DOMAIN rows = 1..Len(rows) /\ Len(rows) \in Nat
  BY DEF RowsFit
<1>2. \A i, j \in DOMAIN rows : rows[i].id = rows[j].id => i = j
  BY DEF RowsFit
<1>3. /\ at # 0 => at \in DOMAIN rows /\ rows[at].id = row.id
      /\ at = 0 => \A i \in DOMAIN rows : rows[i].id # row.id
  BY <1>1, AtFinds
<1>4. next # 0 => next \in DOMAIN rows
  <2> DEFINE I == {i \in 1..Len(rows) : row.id < rows[i].id}
  <2>1. next = IF I # {} THEN Min(I) ELSE 0
    BY DEF SelectInSeq
  <2>2. I \in SUBSET Nat /\ I \subseteq DOMAIN rows
    BY <1>1
  <2> HIDE DEF I
  <2> QED
    BY <2>1, <2>2, MinIs
<1>5. Put(rows, row) = IF at # 0 THEN [rows EXCEPT ![at] = row]
                       ELSE IF Sqlite \/ next = 0 THEN Append(rows, row)
                       ELSE InsertAt(rows, next, row)
  BY DEF Put, ReplaceAt
<1> HIDE DEF at, next
<1>6. CASE at # 0
  <2> DEFINE new == [rows EXCEPT ![at] = row]
  <2>1. new \in Seq(S) /\ DOMAIN new = DOMAIN rows /\ new[at] = row
        /\ \A i \in DOMAIN rows : i # at => new[i] = rows[i]
    BY <1>1, <1>3, <1>6
  <2> HIDE DEF new
  <2>2. RowsFit(new, S)
    BY <1>2, <1>3, <1>6, <2>1 DEF RowsFit
  <2>3. Held(new) = {r \in Held(rows) : r.id # row.id} \cup {row}
    BY <1>2, <1>3, <1>6, <2>1 DEF Held
  <2> QED
    BY <1>5, <1>6, <2>2, <2>3 DEF new
<1>7. CASE at = 0 /\ (Sqlite \/ next = 0)
  <2> DEFINE new == Append(rows, row)
  <2>1. new \in Seq(S) /\ DOMAIN new = 1..(Len(rows) + 1) /\ new[Len(rows) + 1] = row
        /\ \A i \in DOMAIN rows : new[i] = rows[i]
    BY <1>1
  <2> HIDE DEF new
  <2>2. \A i \in DOMAIN new : i \in DOMAIN rows \/ i = Len(rows) + 1
    BY <1>1, <2>1
  <2>3. RowsFit(new, S)
    BY <1>2, <1>3, <1>7, <2>1, <2>2 DEF RowsFit
  <2>4. DOMAIN rows \subseteq DOMAIN new /\ Len(rows) + 1 \in DOMAIN new
    BY <1>1, <2>1
  <2>5. Held(new) = {r \in Held(rows) : r.id # row.id} \cup {row}
    BY <1>3, <1>7, <2>1, <2>2, <2>4 DEF Held
  <2> QED
    BY <1>5, <1>7, <2>3, <2>5 DEF new
<1>8. CASE at = 0 /\ ~(Sqlite \/ next = 0)
  BY <1>3, <1>4, <1>5, <1>8, InsertHolds
<1> QED
  BY <1>6, <1>7, <1>8

LEMMA DropHolds ==
  ASSUME NEW S, NEW rows, RowsFit(rows, S), NEW key
  PROVE  /\ RowsFit(Drop(rows, key), S)
         /\ Held(Drop(rows, key)) = {r \in Held(rows) : r.id # key}
<1> DEFINE at == At(rows, key)
           new == RemoveAt(rows, at)
<1>1. rows \in Seq(S) /\ DOMAIN rows = 1..Len(rows) /\ Len(rows) \in Nat
  BY DEF RowsFit
<1>2. \A i, j \in DOMAIN rows : rows[i].id = rows[j].id => i = j
  BY DEF RowsFit
<1>3. /\ at # 0 => at \in DOMAIN rows /\ rows[at].id = key
      /\ at = 0 => \A i \in DOMAIN rows : rows[i].id # key
  BY <1>1, AtFinds
<1>4. Drop(rows, key) = IF at = 0 THEN rows ELSE new
  BY DEF Drop
<1> HIDE DEF at
<1>5. CASE at = 0
  BY <1>3, <1>4, <1>5 DEF Held
<1>6. CASE at # 0
  <2>1. new \in Seq(S) /\ DOMAIN new = 1..(Len(rows) - 1)
        /\ \A i \in DOMAIN new : new[i] = IF i < at THEN rows[i] ELSE rows[i + 1]
    BY <1>1, <1>3, <1>6, RemoveAtIs
  <2> HIDE DEF new
  <2>2. \A i \in DOMAIN new :
          \/ i < at /\ i \in DOMAIN rows /\ new[i] = rows[i]
          \/ i >= at /\ i + 1 \in DOMAIN rows /\ new[i] = rows[i + 1]
    BY <1>1, <1>3, <1>6, <2>1
  <2>3. ASSUME NEW i \in DOMAIN new, NEW j \in DOMAIN new, new[i].id = new[j].id
        PROVE  i = j
    <3>1. i \in Nat /\ j \in Nat /\ at \in Nat
      BY <1>1, <1>3, <1>6, <2>1
    <3>2. CASE i < at /\ j < at
      BY <1>2, <2>2, <2>3, <3>1, <3>2
    <3>3. CASE i >= at /\ j >= at
      <4>1. i + 1 = j + 1
        BY <1>2, <2>2, <2>3, <3>1, <3>3
      <4> QED
        BY <3>1, <4>1
    <3>4. CASE i < at /\ j >= at
      <4>1. i = j + 1
        BY <1>2, <2>2, <2>3, <3>1, <3>4
      <4> QED
        BY <3>1, <3>4, <4>1
    <3>5. CASE j < at /\ i >= at
      <4>1. j = i + 1
        BY <1>2, <2>2, <2>3, <3>1, <3>5
      <4> QED
        BY <3>1, <3>5, <4>1
    <3> QED
      BY <3>1, <3>2, <3>3, <3>4, <3>5
  <2>4. RowsFit(new, S)
    BY <2>1, <2>3 DEF RowsFit
  <2>5. \A i \in DOMAIN rows : i # at => \E k \in DOMAIN new : new[k] = rows[i]
    <3> SUFFICES ASSUME NEW i \in DOMAIN rows, i # at PROVE \E k \in DOMAIN new : new[k] = rows[i]
      OBVIOUS
    <3>1. CASE i < at
      <4>1. i \in DOMAIN new
        BY <1>1, <1>3, <1>6, <2>1, <3>1
      <4> QED
        BY <2>1, <3>1, <4>1
    <3>2. CASE i > at
      <4>1. i - 1 \in DOMAIN new /\ ~(i - 1 < at) /\ (i - 1) + 1 = i
        BY <1>1, <1>3, <1>6, <2>1, <3>2
      <4> QED
        BY <2>1, <4>1
    <3> QED
      BY <1>1, <1>3, <1>6, <3>1, <3>2
  <2>6. \A i \in DOMAIN new : \E k \in DOMAIN rows : k # at /\ new[i] = rows[k]
    BY <1>1, <1>3, <1>6, <2>1, <2>2
  <2>7. \A k \in DOMAIN rows : rows[k].id = key <=> k = at
    BY <1>2, <1>3, <1>6
  <2>8. Held(new) = {r \in Held(rows) : r.id # key}
    BY <2>5, <2>6, <2>7 DEF Held
  <2> QED
    BY <1>4, <1>6, <2>4, <2>8
<1> QED
  BY <1>5, <1>6

-----------------------------------------------------------------------------
(* Stores: the records of their rows *)

StoreFits(s) ==
  /\ s = [rows |-> s.rows, relation |-> s.relation]
  /\ RowsFit(s.rows, IF Sqlite THEN [id : Nat, n : Nat, ref : Nat] ELSE Rows)
  \* No targets are left of a record that is gone.
  /\ Sqlite => DOMAIN s.relation = Ids(s.rows) /\ \A k \in Ids(s.rows) : s.relation[k] \in Seq(Nat)

LEMMA RecordIs ==
  ASSUME NEW s, StoreFits(s), NEW r \in Held(s.rows)
  PROVE  Record(s, r) \in Rows /\ Record(s, r).id = r.id
<1> DEFINE S == IF Sqlite THEN [id : Nat, n : Nat, ref : Nat] ELSE Rows
<1>1. r \in S
  <2>1. s.rows \in Seq(S)
    BY DEF StoreFits, RowsFit
  <2> HIDE DEF S
  <2>2. \A i \in DOMAIN s.rows : s.rows[i] \in S
    BY <2>1
  <2> QED
    BY <2>2 DEF Held
<1>2. CASE Sqlite
  <2>1. RelationGet(s.relation, r.id) \in Seq(Nat)
    BY <1>2 DEF StoreFits, RelationGet, Held, Ids
  <2> QED
    BY <1>1, <1>2, <2>1 DEF Record, Rows
<1>3. CASE ~Sqlite
  BY <1>1, <1>3 DEF Record
<1> QED
  BY <1>2, <1>3

LEMMA DecodedIs ==
  ASSUME NEW s, StoreFits(s)
  PROVE  /\ DOMAIN Decoded(s) = {r.id : r \in Held(s.rows)}
         /\ \A r \in Held(s.rows) : Decoded(s)[r.id] = Record(s, r)
         /\ Decoded(s) = [k \in DOMAIN Decoded(s) |-> Decoded(s)[k]]
         /\ Records(s) = {Decoded(s)[k] : k \in DOMAIN Decoded(s)}
<1>1. Records(s) = {Record(s, r) : r \in Held(s.rows)}
  BY DEF Records, Held
<1>2. \A r \in Held(s.rows) : Record(s, r).id = r.id
  BY RecordIs
<1>3. \A r, q \in Held(s.rows) : r.id = q.id => r = q
  <2>1. \A i, j \in DOMAIN s.rows : s.rows[i].id = s.rows[j].id => i = j
    BY DEF StoreFits, RowsFit
  <2> QED
    BY <2>1 DEF Held
<1>4. DOMAIN Decoded(s) = {record.id : record \in Records(s)}
  BY DEF Decoded
<1>5. DOMAIN Decoded(s) = {r.id : r \in Held(s.rows)}
  BY <1>1, <1>2, <1>4
<1>6. ASSUME NEW r \in Held(s.rows) PROVE Decoded(s)[r.id] = Record(s, r)
  <2>1. r.id \in {record.id : record \in Records(s)}
    BY <1>4, <1>5
  <2>2. Decoded(s)[r.id] = CHOOSE record \in Records(s) : record.id = r.id
    BY <2>1 DEF Decoded
  <2>3. Record(s, r) \in Records(s) /\ \A record \in Records(s) : record.id = r.id <=> record = Record(s, r)
    BY <1>1, <1>2, <1>3
  <2> QED
    BY <2>2, <2>3
<1>7. Decoded(s) = [k \in DOMAIN Decoded(s) |-> Decoded(s)[k]]
  BY DEF Decoded
<1>8. Records(s) = {Decoded(s)[k] : k \in DOMAIN Decoded(s)}
  BY <1>1, <1>5, <1>6
<1> QED
  BY <1>5, <1>6, <1>7, <1>8

LEMMA IdsHeld == ASSUME NEW rows PROVE Ids(rows) = {r.id : r \in Held(rows)}
  BY DEF Ids, Held

\* What an effect does to the records.
Updated(records, effect) ==
  LET key == Reference!Key(effect)
  IN [k \in IF effect.operation = "set" THEN DOMAIN records \cup {key} ELSE DOMAIN records \ {key} |->
        IF k = key THEN effect.value ELSE records[k]]

Valid(effect) == effect \in Effects /\ effect.operation # "invalid"

LEMMA ValidIs ==
  ASSUME NEW e, Valid(e)
  PROVE  \/ e.operation = "set" /\ e.value \in Rows /\ Reference!Key(e) = e.value.id
         \/ e.operation = "delete" /\ e.key \in Nat /\ Reference!Key(e) = e.key
  BY DEF Valid, Effects, Reference!Key

\* The rows tell the records.
LEMMA DecodedFrom ==
  ASSUME NEW s, NEW new, StoreFits(s), StoreFits(new), NEW e, Valid(e),
         e.operation = "set" =>
           \E row : /\ row.id = e.value.id /\ Record(new, row) = e.value
                   /\ Held(new.rows) = {r \in Held(s.rows) : r.id # row.id} \cup {row},
         e.operation = "delete" => Held(new.rows) = {r \in Held(s.rows) : r.id # e.key},
         \A r \in Held(s.rows) : r.id # Reference!Key(e) => Record(new, r) = Record(s, r)
  PROVE  Decoded(new) = Updated(Decoded(s), e)
<1> DEFINE key == Reference!Key(e)
           old == Decoded(s)
           now == Decoded(new)
<1>1. /\ DOMAIN old = {r.id : r \in Held(s.rows)}
      /\ \A r \in Held(s.rows) : old[r.id] = Record(s, r)
  BY DecodedIs
<1>2. /\ DOMAIN now = {r.id : r \in Held(new.rows)}
      /\ \A r \in Held(new.rows) : now[r.id] = Record(new, r)
      /\ now = [k \in DOMAIN now |-> now[k]]
  BY DecodedIs
<1> HIDE DEF old, now
<1>3. CASE e.operation = "set"
  <2>1. key = e.value.id
    BY <1>3, ValidIs
  <2>2. PICK row : /\ row.id = e.value.id /\ Record(new, row) = e.value
                   /\ Held(new.rows) = {r \in Held(s.rows) : r.id # row.id} \cup {row}
    BY <1>3
  <2> HIDE DEF key
  <2>3. DOMAIN now = DOMAIN old \cup {key}
    BY <1>1, <1>2, <2>1, <2>2
  <2>4. ASSUME NEW k \in DOMAIN now PROVE now[k] = IF k = key THEN e.value ELSE old[k]
    <3>1. CASE k = key
      BY <1>2, <2>1, <2>2, <3>1
    <3>2. CASE k # key
      <4>1. PICK r \in Held(new.rows) : r.id = k
        BY <1>2
      <4>2. r \in Held(s.rows) /\ r.id # key
        BY <2>1, <2>2, <3>2, <4>1
      <4>3. Record(new, r) = Record(s, r)
        BY <4>2 DEF key
      <4> QED
        BY <1>1, <1>2, <3>2, <4>1, <4>2, <4>3
    <3> QED
      BY <3>1, <3>2
  <2>5. now = [k \in DOMAIN old \cup {key} |-> IF k = key THEN e.value ELSE old[k]]
    BY <1>2, <2>3, <2>4
  <2>6. Updated(old, e) = [k \in DOMAIN old \cup {key} |-> IF k = key THEN e.value ELSE old[k]]
    BY <1>3 DEF Updated, key
  <2> QED
    BY <2>5, <2>6 DEF old, now
<1>4. CASE e.operation = "delete"
  <2>1. key = e.key
    BY <1>4, ValidIs
  <2>2. Held(new.rows) = {r \in Held(s.rows) : r.id # key}
    BY <1>4, <2>1
  <2> HIDE DEF key
  <2>3. DOMAIN now = DOMAIN old \ {key}
    BY <1>1, <1>2, <2>2
  <2>4. ASSUME NEW k \in DOMAIN now PROVE now[k] = old[k] /\ k # key
    <3>1. PICK r \in Held(new.rows) : r.id = k
      BY <1>2
    <3>2. r \in Held(s.rows) /\ r.id # key
      BY <2>2
    <3>3. Record(new, r) = Record(s, r)
      BY <3>2 DEF key
    <3> QED
      BY <1>1, <1>2, <3>1, <3>2, <3>3
  <2>5. now = [k \in DOMAIN old \ {key} |-> old[k]]
    BY <1>2, <2>3, <2>4
  <2>6. Updated(old, e) = [k \in DOMAIN old \ {key} |-> IF k = key THEN e.value ELSE old[k]]
    BY <1>4 DEF Updated, key
  <2>7. Updated(old, e) = [k \in DOMAIN old \ {key} |-> old[k]]
    BY <2>6
  <2> QED
    BY <2>5, <2>7 DEF old, now
<1> QED
  BY <1>3, <1>4, ValidIs

LEMMA SetApplies ==
  ASSUME NEW s, StoreFits(s), NEW e, Valid(e), e.operation = "set"
  PROVE  /\ StoreFits(ApplyEffect(s, e))
         /\ Decoded(ApplyEffect(s, e)) = Updated(Decoded(s), e)
<1> DEFINE new == ApplyEffect(s, e)
           v == e.value
<1>1. v \in Rows /\ Reference!Key(e) = v.id
  BY ValidIs
<1>2. CASE Sqlite
  <2> DEFINE row == [id |-> v.id, n |-> v.n, ref |-> v.ref]
             kept == IF At(s.rows, v.id) # 0 THEN RelationDelete(s.relation, v.id) ELSE s.relation
  <2>1. row \in [id : Nat, n : Nat, ref : Nat] /\ row.id = v.id
    BY <1>1 DEF Rows
  <2>2. /\ new = [rows |-> new.rows, relation |-> new.relation]
        /\ new.rows = Put(s.rows, row) /\ new.relation = RelationAdd(kept, v.id, v.members)
    BY <1>2 DEF ApplyEffect, SqliteSet
  <2> HIDE DEF new
  <2>3. RowsFit(s.rows, [id : Nat, n : Nat, ref : Nat])
    BY <1>2 DEF StoreFits
  <2>4. /\ RowsFit(new.rows, [id : Nat, n : Nat, ref : Nat])
        /\ Held(new.rows) = {r \in Held(s.rows) : r.id # row.id} \cup {row}
    <3> DEFINE S == [id : Nat, n : Nat, ref : Nat]
    <3>1. row \in S /\ RowsFit(s.rows, S)
      BY <2>1, <2>3
    <3> HIDE DEF row, S
    <3>2. RowsFit(Put(s.rows, row), S)
          /\ Held(Put(s.rows, row)) = {r \in Held(s.rows) : r.id # row.id} \cup {row}
      BY <3>1, PutHolds
    <3> QED
      BY <2>2, <3>2 DEF S
  <2>5. DOMAIN s.relation = Ids(s.rows) /\ \A k \in Ids(s.rows) : s.relation[k] \in Seq(Nat)
    BY <1>2 DEF StoreFits
  <2>6. /\ v.id \notin DOMAIN kept /\ DOMAIN kept = Ids(s.rows) \ {v.id}
        /\ \A k \in DOMAIN kept : kept[k] = s.relation[k]
    <3>1. CASE At(s.rows, v.id) # 0
      BY <2>5, <3>1 DEF RelationDelete
    <3>2. CASE At(s.rows, v.id) = 0
      <4>1. s.rows \in Seq([id : Nat, n : Nat, ref : Nat])
        BY <2>3 DEF RowsFit
      <4>2. \A i \in DOMAIN s.rows : s.rows[i].id # v.id
        BY <3>2, <4>1, AtFinds
      <4> QED
        BY <2>5, <3>2, <4>2 DEF Ids
    <3> QED
      BY <3>1, <3>2
  <2> HIDE DEF row, kept
  <2>7. v.members \in Seq(Nat) /\ <<>> \o v.members = v.members
    <3>1. v.members \in Seq(Nat)
      BY <1>1 DEF Rows
    <3> QED
      BY <3>1, ConcatEmptySeq
  <2>8. /\ DOMAIN new.relation = Ids(s.rows) \cup {v.id} /\ new.relation[v.id] = v.members
        /\ \A k \in Ids(s.rows) : k # v.id => new.relation[k] = s.relation[k]
    BY <2>2, <2>6, <2>7 DEF RelationAdd, RelationGet
  <2>9. Ids(new.rows) = Ids(s.rows) \cup {v.id}
    <3>1. Ids(new.rows) = {r.id : r \in Held(new.rows)} /\ Ids(s.rows) = {r.id : r \in Held(s.rows)}
      BY IdsHeld
    <3> QED
      BY <2>1, <2>4, <3>1
  <2>10. StoreFits(new)
    BY <1>2, <2>2, <2>4, <2>5, <2>7, <2>8, <2>9 DEF StoreFits
  <2>11. Record(new, row) = v
    BY <1>1, <1>2, <2>8 DEF Record, RelationGet, row, Rows
  <2>12. ASSUME NEW r \in Held(s.rows), r.id # v.id PROVE Record(new, r) = Record(s, r)
    <3>1. r.id \in Ids(s.rows)
      BY DEF Ids, Held
    <3> QED
      BY <1>2, <2>5, <2>8, <2>12, <3>1 DEF Record, RelationGet
  <2>13. Decoded(new) = Updated(Decoded(s), e)
    BY <1>1, <2>1, <2>4, <2>10, <2>11, <2>12, DecodedFrom
  <2> QED
    BY <2>10, <2>13 DEF new
<1>3. CASE ~Sqlite
  <2>1. s = [rows |-> s.rows, relation |-> s.relation] /\ RowsFit(s.rows, Rows)
    BY <1>3 DEF StoreFits
  <2>2. new.rows = Put(s.rows, v) /\ new = [rows |-> new.rows, relation |-> new.relation]
    BY <1>3, <2>1 DEF ApplyEffect
  <2> HIDE DEF new
  <2>3. RowsFit(new.rows, Rows) /\ Held(new.rows) = {r \in Held(s.rows) : r.id # v.id} \cup {v}
    BY <1>1, <2>1, <2>2, PutHolds
  <2>4. StoreFits(new)
    BY <1>3, <2>2, <2>3 DEF StoreFits
  <2>5. Record(new, v) = v /\ \A r \in Held(s.rows) : Record(new, r) = Record(s, r)
    BY <1>3 DEF Record
  <2>6. Decoded(new) = Updated(Decoded(s), e)
    BY <2>3, <2>4, <2>5, DecodedFrom
  <2> QED
    BY <2>4, <2>6 DEF new
<1> QED
  BY <1>2, <1>3

LEMMA DeleteApplies ==
  ASSUME NEW s, StoreFits(s), NEW e, Valid(e), e.operation = "delete"
  PROVE  /\ StoreFits(ApplyEffect(s, e))
         /\ Decoded(ApplyEffect(s, e)) = Updated(Decoded(s), e)
<1> DEFINE new == ApplyEffect(s, e)
<1>1. Reference!Key(e) = e.key
  BY ValidIs
<1>2. CASE Sqlite
  <2>1. /\ s = [rows |-> s.rows, relation |-> s.relation]
        /\ RowsFit(s.rows, [id : Nat, n : Nat, ref : Nat])
        /\ DOMAIN s.relation = Ids(s.rows) /\ \A k \in Ids(s.rows) : s.relation[k] \in Seq(Nat)
    BY <1>2 DEF StoreFits
  <2>2. CASE At(s.rows, e.key) = 0
    <3>1. new = s
      BY <1>2, <2>2 DEF ApplyEffect, SqliteDelete
    <3>2. s.rows \in Seq([id : Nat, n : Nat, ref : Nat])
      BY <2>1 DEF RowsFit
    <3>3. \A r \in Held(s.rows) : r.id # e.key
      BY <2>2, <3>2, AtFinds DEF Held
    <3>4. Held(s.rows) = {r \in Held(s.rows) : r.id # e.key}
      BY <3>3
    <3>5. Decoded(s) = Updated(Decoded(s), e)
      BY <3>4, DecodedFrom
    <3> QED
      BY <3>1, <3>5
  <2>3. CASE At(s.rows, e.key) # 0
    <3>1. /\ new = [rows |-> new.rows, relation |-> new.relation]
          /\ new.rows = Drop(s.rows, e.key) /\ new.relation = RelationDelete(s.relation, e.key)
      BY <1>2, <2>3 DEF ApplyEffect, SqliteDelete
    <3> HIDE DEF new
    <3>2. /\ RowsFit(new.rows, [id : Nat, n : Nat, ref : Nat])
          /\ Held(new.rows) = {r \in Held(s.rows) : r.id # e.key}
      BY <2>1, <3>1, DropHolds
    <3>3. /\ DOMAIN new.relation = Ids(s.rows) \ {e.key}
          /\ \A k \in DOMAIN new.relation : new.relation[k] = s.relation[k]
      BY <2>1, <3>1 DEF RelationDelete
    <3>4. Ids(new.rows) = Ids(s.rows) \ {e.key}
      <4>1. Ids(new.rows) = {r.id : r \in Held(new.rows)} /\ Ids(s.rows) = {r.id : r \in Held(s.rows)}
        BY IdsHeld
      <4> QED
        BY <3>2, <4>1
    <3>5. StoreFits(new)
      BY <1>2, <2>1, <3>1, <3>2, <3>3, <3>4 DEF StoreFits
    <3>6. ASSUME NEW r \in Held(s.rows), r.id # e.key PROVE Record(new, r) = Record(s, r)
      <4>1. r.id \in Ids(s.rows)
        BY DEF Ids, Held
      <4> QED
        BY <1>2, <2>1, <3>3, <3>6, <4>1 DEF Record, RelationGet
    <3>7. Decoded(new) = Updated(Decoded(s), e)
      BY <1>1, <3>2, <3>5, <3>6, DecodedFrom
    <3> QED
      BY <3>5, <3>7 DEF new
  <2> QED
    BY <2>2, <2>3
<1>3. CASE ~Sqlite
  <2>1. s = [rows |-> s.rows, relation |-> s.relation] /\ RowsFit(s.rows, Rows)
    BY <1>3 DEF StoreFits
  <2>2. new.rows = Drop(s.rows, e.key) /\ new = [rows |-> new.rows, relation |-> new.relation]
    BY <1>3, <2>1 DEF ApplyEffect
  <2> HIDE DEF new
  <2>3. RowsFit(new.rows, Rows) /\ Held(new.rows) = {r \in Held(s.rows) : r.id # e.key}
    BY <2>1, <2>2, DropHolds
  <2>4. StoreFits(new)
    BY <1>3, <2>2, <2>3 DEF StoreFits
  <2>5. \A r \in Held(s.rows) : Record(new, r) = Record(s, r)
    BY <1>3 DEF Record
  <2>6. Decoded(new) = Updated(Decoded(s), e)
    BY <2>3, <2>4, <2>5, DecodedFrom
  <2> QED
    BY <2>4, <2>6 DEF new
<1> QED
  BY <1>2, <1>3

\* An effect on the rows is the effect on the records.
LEMMA EffectApplies ==
  ASSUME NEW s, StoreFits(s), NEW e, Valid(e)
  PROVE  /\ StoreFits(ApplyEffect(s, e))
         /\ Decoded(ApplyEffect(s, e)) = Updated(Decoded(s), e)
  BY ValidIs, SetApplies, DeleteApplies

-----------------------------------------------------------------------------
(* Batches: their effects one after the other *)

\* The stores after the first m effects.
Chain(f, m, s, effects) ==
  /\ f = [n \in 0..m |-> f[n]] /\ f[0] = s
  /\ \A n \in 1..m : f[n] = ApplyEffect(f[n - 1], effects[n])

LEMMA StatesChain ==
  ASSUME NEW s, NEW effects, Len(effects) \in Nat
  PROVE  Chain(States(s, effects), Len(effects), s, effects)
<1> DEFINE N == Len(effects)
           Bad == {m \in 0..N : \A f : ~Chain(f, m, s, effects)}
<1>1. Bad = {}
  <2> SUFFICES ASSUME Bad # {} PROVE FALSE
    OBVIOUS
  <2>1. PICK m \in Bad : \A k \in Bad : m <= k
    <3>1. Bad \in SUBSET Nat
      OBVIOUS
    <3> HIDE DEF Bad
    <3> QED
      BY <3>1, Smallest
  <2>2. m \in 0..N /\ \A f : ~Chain(f, m, s, effects)
    BY <2>1
  <2>3. CASE m = 0
    <3>1. Chain([n \in 0..0 |-> s], 0, s, effects)
      BY DEF Chain
    <3> QED
      BY <2>2, <2>3, <3>1
  <2>4. CASE m > 0
    <3>1. m - 1 \in 0..N /\ m - 1 \notin Bad
      BY <2>1, <2>2, <2>4
    <3>2. PICK f : Chain(f, m - 1, s, effects)
      BY <3>1
    <3> DEFINE g == [n \in 0..m |-> IF n = m THEN ApplyEffect(f[m - 1], effects[m]) ELSE f[n]]
    <3>3. Chain(g, m, s, effects)
      <4>1. m \in Nat /\ m - 1 \in 0..m /\ 0 \in 0..m /\ \A n \in 1..(m - 1) : n # m /\ n \in 1..m
        BY <2>2, <2>4
      <4>2. g[0] = s
        BY <2>4, <3>2, <4>1 DEF Chain
      <4>3. ASSUME NEW n \in 1..m PROVE g[n] = ApplyEffect(g[n - 1], effects[n])
        <5>1. g[n - 1] = f[n - 1] /\ n \in 0..m
          BY <4>1
        <5>2. CASE n = m
          BY <5>1, <5>2
        <5>3. CASE n # m
          <6>1. n \in 1..(m - 1)
            BY <4>1, <5>3
          <6> QED
            BY <3>2, <5>1, <5>3, <6>1 DEF Chain
        <5> QED
          BY <5>2, <5>3
      <4>4. g = [n \in 0..m |-> g[n]]
        OBVIOUS
      <4> HIDE DEF g
      <4> QED
        BY <4>2, <4>3, <4>4 DEF Chain
    <3> HIDE DEF g
    <3> QED
      BY <2>2, <3>3
  <2> QED
    BY <2>2, <2>3, <2>4
<1>2. PICK f : Chain(f, N, s, effects)
  BY <1>1
<1> DEFINE Is(states) ==
             states = [n \in 0..N |-> IF n = 0 THEN s ELSE ApplyEffect(states[n - 1], effects[n])]
<1>3. Is(f)
  BY <1>2 DEF Chain
<1>4. States(s, effects) = CHOOSE states : Is(states)
  BY DEF States
<1>5. Is(States(s, effects))
  <2> HIDE DEF Is
  <2> QED
    BY <1>3, <1>4
<1>6. ASSUME NEW g, Is(g) PROVE Chain(g, N, s, effects)
  BY <1>6 DEF Chain
<1> QED
  BY <1>5, <1>6

LEMMA MaxIs ==
  ASSUME NEW T, NEW n \in T, T \subseteq Nat, \A m \in T : m <= n
  PROVE  Reference!Max(T) = n
<1>1. \A x \in T : (\A y \in T : x >= y) <=> x = n
  OBVIOUS
<1> QED
  BY <1>1 DEF Reference!Max

\* One effect more.
LEMMA AfterNext ==
  ASSUME NEW records, NEW effects, NEW n \in Nat, Valid(effects[n + 1])
  PROVE  Reference!After(records, effects, n + 1)
           = Updated(Reference!After(records, effects, n), effects[n + 1])
<1> DEFINE e == effects[n + 1]
           key == Reference!Key(e)
           On(m, k) == Reference!On(effects, m, k)
           Keys(m) == DOMAIN records \cup {Reference!Key(effects[i]) : i \in 1..m}
           Remains(m, k) == Reference!Remains(records, effects, m, k)
           Value(m, k) == IF On(m, k) = {} THEN records[k] ELSE effects[Reference!Max(On(m, k))].value
           After(m) == Reference!After(records, effects, m)
<1>1. \A m, k : On(m, k) = {i \in 1..m : Reference!Key(effects[i]) = k}
  BY DEF Reference!On
<1>2. \A m : After(m) = [k \in {j \in Keys(m) : Remains(m, j)} |-> Value(m, k)]
  BY DEF Reference!After
<1>3. \A m, k : Remains(m, k) <=> IF On(m, k) = {} THEN k \in DOMAIN records
                                  ELSE effects[Reference!Max(On(m, k))].operation = "set"
  BY DEF Reference!Remains
<1>4. n + 1 \in Nat /\ 1..(n + 1) = 1..n \cup {n + 1} /\ \A i \in 1..n : i <= n + 1 /\ i \in Nat
  OBVIOUS
<1>5. \/ e.operation = "set"
      \/ e.operation = "delete"
  BY ValidIs
<1> HIDE DEF e, On, Remains, After, Value
<1>6. \A k : k # key => On(n + 1, k) = On(n, k)
  BY <1>1, <1>4 DEF e
<1>7. On(n + 1, key) # {} /\ Reference!Max(On(n + 1, key)) = n + 1
  <2>1. n + 1 \in On(n + 1, key) /\ On(n + 1, key) \subseteq 1..(n + 1)
    BY <1>1, <1>4 DEF e
  <2>2. Reference!Max(On(n + 1, key)) = n + 1
    BY <1>4, <2>1, MaxIs
  <2> QED
    BY <2>1, <2>2
<1>8. Keys(n + 1) = Keys(n) \cup {key}
  BY <1>4 DEF e
<1>9. Remains(n + 1, key) <=> e.operation = "set"
  BY <1>3, <1>7 DEF e
<1>10. \A k : k # key => (Remains(n + 1, k) <=> Remains(n, k)) /\ Value(n + 1, k) = Value(n, k)
  BY <1>3, <1>6 DEF Value
<1>11. Value(n + 1, key) = e.value
  BY <1>7 DEF Value, e
<1> DEFINE now == {k \in Keys(n + 1) : Remains(n + 1, k)}
           old == {k \in Keys(n) : Remains(n, k)}
<1>12. /\ DOMAIN After(n) = old /\ DOMAIN After(n + 1) = now
       /\ \A k \in old : After(n)[k] = Value(n, k)
       /\ \A k \in now : After(n + 1)[k] = Value(n + 1, k)
       /\ After(n + 1) = [k \in DOMAIN After(n + 1) |-> After(n + 1)[k]]
  BY <1>2
<1> HIDE DEF Keys
<1>13. now = IF e.operation = "set" THEN old \cup {key} ELSE old \ {key}
  BY <1>8, <1>9, <1>10
<1> HIDE DEF key, now, old
<1>14. \A k \in now : Value(n + 1, k) = IF k = key THEN e.value ELSE After(n)[k]
  BY <1>10, <1>11, <1>12, <1>13
<1>15. After(n + 1) = [k \in now |-> IF k = key THEN e.value ELSE After(n)[k]]
  <2>1. \A k \in now : After(n + 1)[k] = IF k = key THEN e.value ELSE After(n)[k]
    BY <1>12, <1>14
  <2> QED
    BY <1>12, <2>1
<1>16. Updated(After(n), e) = [k \in now |-> IF k = key THEN e.value ELSE After(n)[k]]
  BY <1>12, <1>13 DEF Updated, key
<1> QED
  BY <1>15, <1>16 DEF After, e

LEMMA AfterNone ==
  ASSUME NEW records, records = [k \in DOMAIN records |-> records[k]], NEW effects
  PROVE  Reference!After(records, effects, 0) = records
<1>1. \A k : Reference!On(effects, 0, k) = {}
  BY DEF Reference!On
<1>2. \A k : Reference!Remains(records, effects, 0, k) <=> k \in DOMAIN records
  BY <1>1 DEF Reference!Remains
<1>3. {Reference!Key(effects[i]) : i \in 1..0} = {}
  OBVIOUS
<1>4. {k \in DOMAIN records \cup {Reference!Key(effects[i]) : i \in 1..0} :
          Reference!Remains(records, effects, 0, k)} = DOMAIN records
  BY <1>2, <1>3
<1>5. Reference!After(records, effects, 0) = [k \in DOMAIN records |-> records[k]]
  BY <1>1, <1>4 DEF Reference!After
<1> QED
  BY <1>5

LEMMA BatchFits ==
  ASSUME NEW effects \in Batches
  PROVE  /\ effects \in Seq(Effects) /\ Len(effects) \in Nat /\ DOMAIN effects = 1..Len(effects)
         /\ \A i \in 1..Len(effects) : effects[i].operation # "invalid" => Valid(effects[i])
<1>1. effects \in Seq(Effects)
  BY BatchesAssumption
<1> QED
  BY <1>1 DEF Valid

\* A batch on the rows is the batch on the records.
LEMMA BatchApplies ==
  ASSUME NEW s, StoreFits(s), NEW effects \in Batches, ~Invalid(effects)
  PROVE  LET new == States(s, effects)[Len(effects)]
         IN StoreFits(new) /\ Decoded(new) = Reference!After(Decoded(s), effects, Len(effects))
<1> DEFINE N == Len(effects)
           at == States(s, effects)
           Agrees(n) == StoreFits(at[n]) /\ Decoded(at[n]) = Reference!After(Decoded(s), effects, n)
           Bad == {n \in 0..N : ~Agrees(n)}
<1>1. N \in Nat /\ \A i \in 1..N : Valid(effects[i])
  BY BatchFits DEF Invalid
<1>2. at[0] = s /\ \A n \in 1..N : at[n] = ApplyEffect(at[n - 1], effects[n])
  BY <1>1, StatesChain DEF Chain
<1> HIDE DEF at
<1>3. Bad = {}
  <2> SUFFICES ASSUME Bad # {} PROVE FALSE
    OBVIOUS
  <2>1. PICK n \in Bad : \A k \in Bad : n <= k
    <3>1. Bad \in SUBSET Nat
      BY <1>1
    <3> HIDE DEF Bad
    <3> QED
      BY <3>1, Smallest
  <2>2. n \in 0..N /\ ~Agrees(n)
    BY <2>1
  <2>3. CASE n = 0
    <3>1. Reference!After(Decoded(s), effects, 0) = Decoded(s)
      BY DecodedIs, AfterNone
    <3> QED
      BY <1>2, <2>2, <2>3, <3>1
  <2>4. CASE n > 0
    <3>1. n - 1 \in 0..N /\ n - 1 \notin Bad /\ n - 1 \in Nat /\ (n - 1) + 1 = n /\ n \in 1..N
      BY <1>1, <2>1, <2>2, <2>4
    <3>2. Agrees(n - 1)
      BY <3>1
    <3>3. at[n] = ApplyEffect(at[n - 1], effects[n]) /\ Valid(effects[n])
      BY <1>1, <1>2, <3>1
    <3>4. StoreFits(at[n]) /\ Decoded(at[n]) = Updated(Decoded(at[n - 1]), effects[n])
      BY <3>2, <3>3, EffectApplies
    <3>5. Reference!After(Decoded(s), effects, n)
            = Updated(Reference!After(Decoded(s), effects, n - 1), effects[n])
      <4> DEFINE m == n - 1
      <4>1. m \in Nat /\ m + 1 = n
        BY <3>1
      <4> HIDE DEF m
      <4>2. Reference!After(Decoded(s), effects, m + 1)
              = Updated(Reference!After(Decoded(s), effects, m), effects[m + 1])
        BY <3>3, <4>1, AfterNext
      <4> QED
        BY <4>1, <4>2 DEF m
    <3> QED
      BY <2>2, <3>2, <3>4, <3>5
  <2> QED
    BY <1>1, <2>2, <2>3, <2>4
<1>4. Agrees(N)
  BY <1>1, <1>3
<1> QED
  BY <1>4 DEF at

-----------------------------------------------------------------------------
(* The inductive invariant of the table *)

TxnFits ==
  /\ txn = [effects |-> txn.effects, store |-> txn.store, done |-> txn.done, notify |-> txn.notify]
  /\ txn.effects \in Batches /\ txn.done \in 0..Len(txn.effects)
  /\ StoreFits(txn.store)
  /\ \A i \in 1..txn.done : txn.effects[i].operation # "invalid"
  /\ Decoded(txn.store) = Reference!After(Decoded(store), txn.effects, txn.done)

TableInv ==
  /\ StoreFits(store)
  /\ txn # None => ~Sqlite /\ TxnFits

LEMMA FitsPrimed ==
  ASSUME setup' = setup
  PROVE  /\ \A s : StoreFits(s)' <=> StoreFits(s)
         /\ \A s : Decoded(s)' = Decoded(s)
         /\ Sqlite' <=> Sqlite
  BY DEF StoreFits, Decoded, Records, Record, Sqlite

LEMMA TableInit == Init => TableInv /\ Reference!Init
<1> SUFFICES ASSUME Init PROVE TableInv /\ Reference!Init
  OBVIOUS
<1>1. store = [rows |-> <<>>, relation |-> <<>>] /\ txn = None
  BY DEF Init
<1>2. Held(store.rows) = {} /\ Ids(store.rows) = {} /\ DOMAIN store.relation = {}
  BY <1>1 DEF Held, Ids
<1>3. StoreFits(store)
  BY <1>1, <1>2 DEF StoreFits, RowsFit
<1>4. DOMAIN Decoded(store) = {}
  BY <1>2, <1>3, DecodedIs
<1> QED
  BY <1>1, <1>3, <1>4 DEF TableInv, Reference!Init

\* Neither the store nor the transaction moves.
LEMMA TableStays ==
  ASSUME TableInv, UNCHANGED <<setup, store, txn>>
  PROVE  TableInv' /\ UNCHANGED Decoded(store)
<1>1. /\ StoreFits(store)' <=> StoreFits(store)
      /\ StoreFits(txn.store)' <=> StoreFits(txn.store)
      /\ Decoded(store)' = Decoded(store) /\ Decoded(txn.store)' = Decoded(txn.store)
      /\ Sqlite' <=> Sqlite
  BY FitsPrimed DEF StoreFits, Decoded, Records, Record, Sqlite
<1> QED
  BY <1>1 DEF TableInv, TxnFits

LEMMA SqliteApplyKeeps ==
  ASSUME TableInv, NEW effects \in Batches, SqliteApply(effects)
  PROVE  TableInv' /\ [Reference!Next]_(Decoded(store))
<1>1. Sqlite /\ txn = None /\ txn' = txn /\ setup' = setup
  BY DEF SqliteApply, TableInv
<1>2. CASE Invalid(effects)
  BY <1>1, <1>2, TableStays DEF SqliteApply
<1>3. CASE ~Invalid(effects)
  <2> DEFINE new == States(store, effects)[Len(effects)]
  <2>1. store' = new
    BY <1>3 DEF SqliteApply
  <2>2. StoreFits(new) /\ Decoded(new) = Reference!After(Decoded(store), effects, Len(effects))
    BY <1>3, BatchApplies DEF TableInv
  <2> HIDE DEF new
  <2>3. StoreFits(store)' <=> StoreFits(new)
    BY <1>1, <2>1 DEF StoreFits, Sqlite
  <2>4. Decoded(store)' = Decoded(new)
    BY <1>1, <2>1 DEF Decoded, Records, Record, Sqlite
  <2>5. TableInv'
    BY <1>1, <2>2, <2>3 DEF TableInv
  <2>6. Reference!Next
    BY <1>3, <2>2, <2>4 DEF Reference!Next, Invalid
  <2> QED
    BY <2>5, <2>6
<1> QED
  BY <1>2, <1>3

LEMMA IdbApplyKeeps ==
  ASSUME TableInv, NEW effects \in Batches, IdbApply(effects)
  PROVE  TableInv' /\ UNCHANGED Decoded(store)
<1>1. /\ ~Sqlite /\ setup' = setup /\ store' = store
      /\ txn' = [effects |-> effects, store |-> store, done |-> 0, notify |-> {}]
  BY DEF IdbApply
<1>2. /\ StoreFits(store)' <=> StoreFits(store)
      /\ StoreFits(txn.store)' <=> StoreFits(store)
      /\ Decoded(store)' = Decoded(store) /\ Decoded(txn.store)' = Decoded(store)
      /\ Sqlite' <=> Sqlite
  BY <1>1 DEF StoreFits, Decoded, Records, Record, Sqlite
<1>3. Reference!After(Decoded(store), effects, 0) = Decoded(store)
  BY DecodedIs, AfterNone DEF TableInv
<1>4. txn'.effects = effects /\ txn'.done = 0 /\ txn'.store = store /\ txn'.notify = {}
  BY <1>1
<1>5. Len(effects) \in Nat
  BY BatchFits
<1>6. TxnFits'
  BY <1>1, <1>2, <1>3, <1>4, <1>5 DEF TxnFits, TableInv
<1> QED
  BY <1>1, <1>2, <1>6 DEF TableInv

LEMMA IdbEffectKeeps ==
  ASSUME TableInv, IdbEffect
  PROVE  TableInv' /\ UNCHANGED Decoded(store)
<1>1. txn # None /\ txn.done < Len(txn.effects) /\ setup' = setup /\ store' = store
  BY DEF IdbEffect
<1>2. ~Sqlite /\ TxnFits /\ StoreFits(store)
  BY <1>1 DEF TableInv
<1> DEFINE effect == txn.effects[txn.done + 1]
           after == ApplyEffect(txn.store, effect)
<1>3. /\ txn.effects \in Batches /\ Len(txn.effects) \in Nat /\ txn.done \in Nat
      /\ txn.done + 1 \in 1..Len(txn.effects)
  BY <1>1, <1>2, BatchFits DEF TxnFits
<1>4. StoreFits(store)' /\ Decoded(store)' = Decoded(store) /\ ~Sqlite'
  BY <1>1, <1>2 DEF StoreFits, Decoded, Records, Record, Sqlite
<1>5. CASE effect.operation = "invalid"
  <2>1. txn' = None
    BY <1>5 DEF IdbEffect
  <2> QED
    BY <1>4, <2>1 DEF TableInv
<1>6. CASE effect.operation # "invalid"
  <2>1. /\ txn'.effects = txn.effects /\ txn'.store = after /\ txn'.done = txn.done + 1
        /\ txn' = [effects |-> txn'.effects, store |-> txn'.store, done |-> txn'.done,
                   notify |-> txn'.notify]
    BY <1>2, <1>6 DEF IdbEffect, TxnFits
  <2>2. Valid(effect)
    BY <1>3, <1>6, BatchFits
  <2>3. StoreFits(after) /\ Decoded(after) = Updated(Decoded(txn.store), effect)
    BY <1>2, <2>2, EffectApplies DEF TxnFits
  <2>4. Reference!After(Decoded(store), txn.effects, txn.done + 1) = Decoded(after)
    BY <1>2, <1>3, <2>2, <2>3, AfterNext DEF TxnFits
  <2>5. \A i \in 1..(txn.done + 1) : txn.effects[i].operation # "invalid"
    BY <1>2, <1>3, <1>6 DEF TxnFits
  <2> HIDE DEF after, effect
  <2>6. StoreFits(txn.store)' /\ Decoded(txn.store)' = Decoded(after)
    <3>1. txn.store' = after /\ (Sqlite' <=> Sqlite)
      BY <1>1, <2>1 DEF Sqlite
    <3>2. StoreFits(txn.store)' <=> StoreFits(after)
      BY <3>1 DEF StoreFits
    <3>3. Records(txn.store)' = Records(after)
      BY <3>1 DEF Records, Record
    <3>4. Decoded(txn.store)' = Decoded(after)
      BY <3>3 DEF Decoded
    <3> QED
      BY <2>3, <3>2, <3>4
  <2>7. TxnFits'
    BY <1>3, <1>4, <2>1, <2>4, <2>5, <2>6 DEF TxnFits
  <2> QED
    BY <1>4, <2>7 DEF TableInv
<1> QED
  BY <1>4, <1>5, <1>6

LEMMA IdbNotifyKeeps ==
  ASSUME TableInv, NEW sub \in subscriptions, IdbNotify(sub)
  PROVE  TableInv' /\ UNCHANGED Decoded(store)
<1>1. /\ txn # None /\ setup' = setup /\ store' = store
      /\ txn' = [txn EXCEPT !.notify = @ \ {sub.id}]
  BY DEF IdbNotify
<1>2. ~Sqlite /\ TxnFits /\ StoreFits(store)
  BY <1>1 DEF TableInv
<1>3. /\ txn'.effects = txn.effects /\ txn'.store = txn.store /\ txn'.done = txn.done
      /\ txn' = [effects |-> txn'.effects, store |-> txn'.store, done |-> txn'.done,
                 notify |-> txn'.notify]
  BY <1>1, <1>2 DEF TxnFits
<1>4. /\ StoreFits(store)' /\ Decoded(store)' = Decoded(store) /\ ~Sqlite'
      /\ StoreFits(txn.store)' <=> StoreFits(txn.store)
      /\ Decoded(txn.store)' = Decoded(txn.store)
  BY <1>1, <1>2, <1>3 DEF StoreFits, Decoded, Records, Record, Sqlite
<1>5. TxnFits'
  BY <1>2, <1>3, <1>4 DEF TxnFits
<1> QED
  BY <1>4, <1>5 DEF TableInv

LEMMA IdbCommitKeeps ==
  ASSUME TableInv, IdbCommit
  PROVE  TableInv' /\ Reference!Next
<1>1. /\ txn # None /\ txn.done = Len(txn.effects) /\ setup' = setup
      /\ store' = txn.store /\ txn' = None
  BY DEF IdbCommit, Notified
<1>2. ~Sqlite /\ TxnFits
  BY <1>1 DEF TableInv
<1>3. (StoreFits(store)' <=> StoreFits(txn.store)) /\ Decoded(store)' = Decoded(txn.store)
  BY <1>1 DEF StoreFits, Decoded, Records, Record, Sqlite
<1>4. TableInv'
  BY <1>1, <1>2, <1>3 DEF TableInv, TxnFits
<1>5. /\ \A i \in DOMAIN txn.effects : txn.effects[i].operation # "invalid"
      /\ Decoded(store)' = Reference!After(Decoded(store), txn.effects, Len(txn.effects))
      /\ txn.effects \in Batches
  BY <1>1, <1>2, <1>3, BatchFits DEF TxnFits
<1> QED
  BY <1>4, <1>5 DEF Reference!Next

LEMMA TableStep ==
  ASSUME TableInv, [Next]_vars
  PROVE  TableInv' /\ [Reference!Next]_(Decoded(store))
<1>1. CASE \E effects \in Batches : SqliteApply(effects)
  BY <1>1, SqliteApplyKeeps
<1>2. CASE \E effects \in Batches : IdbApply(effects)
  BY <1>2, IdbApplyKeeps
<1>3. CASE IdbEffect
  BY <1>3, IdbEffectKeeps
<1>4. CASE IdbCommit
  BY <1>4, IdbCommitKeeps
<1>5. CASE \E sub \in subscriptions : IdbNotify(sub)
  BY <1>5, IdbNotifyKeeps
<1>6. CASE IdbAbort
  <2>1. txn' = None /\ setup' = setup /\ store' = store
    BY <1>6 DEF IdbAbort
  <2>2. (StoreFits(store)' <=> StoreFits(store)) /\ Decoded(store)' = Decoded(store)
    BY <2>1 DEF StoreFits, Decoded, Records, Record, Sqlite
  <2> QED
    BY <2>1, <2>2 DEF TableInv
<1>7. CASE UNCHANGED <<setup, store, txn>>
  BY <1>7, TableStays
<1>8. ASSUME NEW q \in LiveQueries, Subscribe(q) PROVE UNCHANGED <<setup, store, txn>>
  BY <1>8 DEF Subscribe
<1>9. ASSUME NEW sub \in subscriptions, Deliver(sub) \/ Unsubscribe(sub)
      PROVE  UNCHANGED <<setup, store, txn>>
  BY <1>9 DEF Deliver, Unsubscribe
<1>10. CASE UNCHANGED vars
  BY <1>7, <1>10 DEF vars
<1> QED
  BY <1>1, <1>2, <1>3, <1>4, <1>5, <1>6, <1>7, <1>8, <1>9, <1>10 DEF Next

\* ImplementsTable: in both backends, whatever rows a record is split into and
\* however the effects of a transaction are interleaved with subscriptions, a
\* batch changes the records as one, the last effect on each key standing, or
\* not at all (apply of sqlite/ModelDB.ts and idb/ModelDB.ts).
THEOREM TableImplemented == Spec => ImplementsTable
<1>1. TableInv /\ [Next]_vars => TableInv' /\ [Reference!Next]_(Decoded(store))
  BY TableStep
<1> QED
  BY <1>1, TableInit, PTL DEF Spec, ImplementsTable, Reference!Spec

-----------------------------------------------------------------------------
(* Live queries: the inductive invariant *)

Complete(list, q, s) ==
  \A record \in Records(s) : Filter(q.where, record) => Contains(list, record)

Written == txn # None /\ txn.done = Len(txn.effects)

\* The answers to live queries leave nothing out.
AnswersFull ==
  \A q \in LiveQueries :
    /\ Complete(Query(store, q), q, store)
    /\ Written => Complete(Query(txn.store, q), q, txn.store)

SubFits(sub) ==
  /\ sub = [id |-> sub.id, query |-> sub.query, read |-> sub.read, shown |-> sub.shown,
            misled |-> sub.misled, initial |-> sub.initial]
  /\ sub.id \in Nat /\ sub.id < subscribed /\ sub.query \in LiveQueries
  /\ sub.read \in BOOLEAN /\ sub.misled \in BOOLEAN

\* Once called back, it shows what the transaction wrote; before, what was there.
Called(sub) == Written /\ Concerns(sub.query, txn.effects) /\ sub.id \notin txn.notify

ShowsAll(sub) ==
  /\ Sqlite /\ sub.read => Complete(sub.shown, sub.query, store)
  /\ Sqlite /\ ~sub.read => Complete(sub.initial, sub.query, store)
  /\ ~Sqlite /\ sub.read /\ Called(sub) => Complete(sub.shown, sub.query, txn.store)
  /\ ~Sqlite /\ sub.read /\ ~Called(sub) => Complete(sub.shown, sub.query, store)

Calls ==
  /\ \A id \in txn.notify : id \in Nat /\ id < subscribed
  /\ \A sub \in subscriptions :
       sub.id \in txn.notify => Written /\ Concerns(sub.query, txn.effects)

LiveInv ==
  /\ subscribed \in Nat
  /\ \A sub \in subscriptions : SubFits(sub) /\ (~sub.misled => ShowsAll(sub))
  /\ \A sub, other \in subscriptions : sub.id = other.id => sub = other
  /\ txn # None => Calls

LEMMA Greatest ==
  ASSUME NEW n \in Nat, NEW T \in SUBSET (1..n), T # {}
  PROVE  Reference!Max(T) \in T
<1> DEFINE Short == {k \in Nat : \E x \in T : k = n - x}
<1>1. \A x \in T : x \in Nat /\ n - x \in Short
  OBVIOUS
<1>2. PICK m \in Short : \A k \in Short : m <= k
  <2>1. Short \in SUBSET Nat /\ Short # {}
    BY <1>1
  <2> HIDE DEF Short
  <2> QED
    BY <2>1, Smallest
<1>3. PICK x \in T : m = n - x
  BY <1>2
<1>4. \A y \in T : y <= x
  <2> TAKE y \in T
  <2>1. m <= n - y
    BY <1>1, <1>2
  <2> QED
    BY <1>1, <1>3, <2>1
<1>5. Reference!Max(T) = x
  <2>1. T \subseteq Nat
    BY <1>1
  <2> QED
    BY <1>4, <2>1, MaxIs
<1> QED
  BY <1>5

\* A batch that does not concern a query adds nothing to its results.
LEMMA NothingNew ==
  ASSUME NEW s, StoreFits(s), NEW new, StoreFits(new), NEW effects \in Batches,
         Decoded(new) = Reference!After(Decoded(s), effects, Len(effects)),
         \A i \in 1..Len(effects) : effects[i].operation # "invalid",
         NEW q, ~Concerns(q, effects), NEW list, Complete(list, q, s)
  PROVE  Complete(list, q, new)
<1> SUFFICES ASSUME NEW record \in Records(new), Filter(q.where, record)
             PROVE  record \in Records(s)
  BY DEF Complete
<1> DEFINE n == Len(effects)
           old == Decoded(s)
<1>1. n \in Nat /\ DOMAIN effects = 1..n
  BY BatchFits
<1>2. \A i \in 1..n : effects[i].operation = "set" /\ ~Filter(q.where, effects[i].value)
  BY <1>1 DEF Concerns
<1>3. PICK k \in DOMAIN Decoded(new) : record = Decoded(new)[k]
  <2>1. Records(new) = {Decoded(new)[k] : k \in DOMAIN Decoded(new)}
    BY DecodedIs, Zenon
  <2> QED
    BY <2>1
<1> DEFINE on == Reference!On(effects, n, k)
<1>4. on \in SUBSET (1..n)
  BY DEF Reference!On
<1>5. CASE on = {}
  <2>1. k \in DOMAIN old /\ record = old[k]
    BY <1>3, <1>5 DEF Reference!After, Reference!Remains
  <2> QED
    BY <2>1, DecodedIs
<1>6. CASE on # {}
  <2>1. Reference!Max(on) \in 1..n
    BY <1>1, <1>4, <1>6, Greatest
  <2>2. record = effects[Reference!Max(on)].value
    BY <1>3, <1>6 DEF Reference!After
  <2> QED
    BY <1>2, <2>1, <2>2
<1> QED
  BY <1>5, <1>6

LEMMA LivePrimed ==
  ASSUME setup' = setup
  PROVE  /\ \A list, q, s : Complete(list, q, s)' <=> Complete(list, q, s)
         /\ Sqlite' <=> Sqlite
  BY DEF Complete, Records, Record, Sqlite

LEMMA LiveInit == Init => LiveInv
  BY DEF Init, LiveInv

LEMMA SqliteApplyLive ==
  ASSUME TableInv, LiveInv, AnswersFull', NEW effects \in Batches, SqliteApply(effects)
  PROVE  LiveInv'
<1>1. Sqlite /\ txn = None /\ txn' = None /\ setup' = setup /\ subscribed' = subscribed
  BY DEF SqliteApply, TableInv
<1>2. CASE Invalid(effects)
  <2>1. store' = store /\ subscriptions' = subscriptions
    BY <1>2 DEF SqliteApply
  <2>2. ASSUME NEW sub \in subscriptions, ShowsAll(sub) PROVE ShowsAll(sub)'
    BY <1>1, <2>1, <2>2, LivePrimed DEF ShowsAll, Complete, Records, Record, Sqlite
  <2> QED
    BY <1>1, <2>1, <2>2 DEF LiveInv, SubFits
<1>3. CASE ~Invalid(effects)
  <2> DEFINE new == States(store, effects)[Len(effects)]
  <2>1. store' = new
    BY <1>3 DEF SqliteApply
  <2>2. StoreFits(new) /\ Decoded(new) = Reference!After(Decoded(store), effects, Len(effects))
    BY <1>3, BatchApplies DEF TableInv
  <2>3. \A i \in 1..Len(effects) : effects[i].operation # "invalid"
    BY <1>3, BatchFits DEF Invalid
  <2>4. subscriptions' =
          {IF ~Concerns(sub.query, effects) THEN sub
           ELSE [Shows(sub, Query(store, sub.query)') EXCEPT !.misled = @ \/ ~sub.read]
             : sub \in subscriptions}
    BY <1>3 DEF SqliteApply
  <2> HIDE DEF new
  <2>5. ASSUME NEW sub \in subscriptions, NEW now,
               now = IF ~Concerns(sub.query, effects) THEN sub
                     ELSE [Shows(sub, Query(store, sub.query)') EXCEPT !.misled = @ \/ ~sub.read]
        PROVE  SubFits(now)' /\ now.id = sub.id /\ (~now.misled => ShowsAll(now)')
    <3>1. SubFits(sub) /\ (~sub.misled => ShowsAll(sub))
      BY DEF LiveInv
    <3>2. CASE ~Concerns(sub.query, effects)
      <4>1. now = sub
        BY <2>5, <3>2
      <4>2. \A list : Complete(list, sub.query, store) => Complete(list, sub.query, new)
        BY <2>2, <2>3, <3>2, NothingNew DEF TableInv
      <4>3. \A list : Complete(list, sub.query, store) => Complete(list, sub.query, store)'
        BY <1>1, <2>1, <4>2, LivePrimed DEF Complete, Records, Record, Sqlite
      <4>4. ShowsAll(sub) => ShowsAll(sub)'
        BY <1>1, <4>3, LivePrimed DEF ShowsAll
      <4> QED
        BY <1>1, <3>1, <4>1, <4>4 DEF SubFits
    <3>3. CASE Concerns(sub.query, effects)
      <4>0. PICK answer : answer = Query(store, sub.query)'
        OBVIOUS
      <4>1. now = [id |-> sub.id, query |-> sub.query, read |-> sub.read, shown |-> answer,
                   misled |-> sub.misled \/ ~sub.read, initial |-> sub.initial]
        BY <2>5, <3>1, <3>3, <4>0 DEF SubFits, Shows
      <4>2. Complete(Query(store, sub.query), sub.query, store)'
        BY <3>1 DEF AnswersFull, SubFits
      <4>3. Complete(answer, sub.query, store)'
        BY <4>0, <4>2 DEF Complete
      <4>4. SubFits(now)' /\ now.id = sub.id
        BY <1>1, <3>1, <4>1 DEF SubFits
      <4>5. /\ now.shown = answer /\ now.query = sub.query /\ now.read = sub.read
            /\ now.misled = (sub.misled \/ ~sub.read)
        BY <4>1
      <4>6. ~now.misled => now.read
        BY <4>5
      <4>7. now.read => ShowsAll(now)'
        BY <1>1, <4>3, <4>5, LivePrimed DEF ShowsAll
      <4> QED
        BY <4>4, <4>6, <4>7
    <3> QED
      BY <3>2, <3>3
  <2> QED
    BY <1>1, <2>4, <2>5 DEF LiveInv
<1> QED
  BY <1>2, <1>3

\* Nothing moves that a subscription is about.
LEMMA LiveStays ==
  ASSUME setup' = setup, store' = store, txn' = txn, NEW sub, ShowsAll(sub)
  PROVE  ShowsAll(sub)'
<1>1. (Sqlite' <=> Sqlite) /\ (Called(sub)' <=> Called(sub))
  BY LivePrimed DEF Called, Written
<1>2. /\ \A list : Complete(list, sub.query, store)' <=> Complete(list, sub.query, store)
      /\ \A list : Complete(list, sub.query, txn.store)' <=> Complete(list, sub.query, txn.store)
  BY DEF Complete, Records, Record, Sqlite
<1> QED
  BY <1>1, <1>2 DEF ShowsAll

LEMMA SubscribeLive ==
  ASSUME TableInv, LiveInv, AnswersFull, NEW q \in LiveQueries, Subscribe(q)
  PROVE  LiveInv'
<1>1. PICK initial : initial = IF Sqlite THEN Query(store, q) ELSE Error
  OBVIOUS
<1>2. PICK new : new = [id |-> subscribed, query |-> q, read |-> FALSE, shown |-> Error,
                        misled |-> FALSE, initial |-> initial]
  OBVIOUS
<1>3. /\ setup' = setup /\ store' = store /\ txn' = txn /\ subscribed' = subscribed + 1
      /\ subscriptions' = subscriptions \cup {new}
  BY <1>1, <1>2 DEF Subscribe
<1>4. Sqlite => Complete(initial, q, store)
  BY <1>1 DEF AnswersFull
<1>5. subscribed \in Nat
  BY DEF LiveInv
<1>6. /\ new.id = subscribed /\ new.read = FALSE /\ new.query = q /\ new.initial = initial
      /\ SubFits(new)'
  BY <1>3, <1>5, <1>2 DEF SubFits
<1>7. ShowsAll(new)
  BY <1>4, <1>6 DEF ShowsAll
<1>8. ASSUME NEW sub \in subscriptions
      PROVE  SubFits(sub)' /\ sub.id # new.id /\ (~sub.misled => ShowsAll(sub)')
  <2>1. SubFits(sub) /\ (~sub.misled => ShowsAll(sub))
    BY DEF LiveInv
  <2> QED
    BY <1>3, <1>5, <1>6, <2>1, LiveStays DEF SubFits
<1>9. ShowsAll(new)'
  BY <1>3, <1>7, LiveStays
<1>10. txn # None => Calls'
  <2> SUFFICES ASSUME txn # None PROVE Calls'
    OBVIOUS
  <2>1. Calls
    BY DEF LiveInv
  <2>2. subscribed \notin txn.notify
    BY <1>5, <2>1 DEF Calls
  <2> QED
    BY <1>3, <1>5, <1>6, <2>1, <2>2 DEF Calls, Written
<1>11. \A sub, other \in subscriptions : sub.id = other.id => sub = other
  BY DEF LiveInv
<1> QED
  BY <1>3, <1>5, <1>6, <1>8, <1>9, <1>10, <1>11 DEF LiveInv

LEMMA DeliverLive ==
  ASSUME TableInv, LiveInv, AnswersFull, NEW sub \in subscriptions, Deliver(sub)
  PROVE  LiveInv'
<1>1. PICK results : results = IF Sqlite THEN sub.initial ELSE Query(store, sub.query)
  OBVIOUS
<1>2. PICK now : now = [Shows(sub, results) EXCEPT !.read = TRUE, !.initial = Error]
  OBVIOUS
<1>3. /\ setup' = setup /\ store' = store /\ txn' = txn /\ subscribed' = subscribed
      /\ subscriptions' = (subscriptions \ {sub}) \cup {now}
      /\ ~sub.read /\ (Sqlite \/ txn = None)
  BY <1>1, <1>2 DEF Deliver
<1>4. SubFits(sub) /\ (~sub.misled => ShowsAll(sub))
  BY DEF LiveInv
<1>5. ~sub.misled => Complete(results, sub.query, store)
  BY <1>1, <1>3, <1>4 DEF ShowsAll, AnswersFull, SubFits
<1>6. now = [id |-> sub.id, query |-> sub.query, read |-> TRUE, shown |-> results,
             misled |-> sub.misled, initial |-> Error]
  BY <1>4, <1>2 DEF SubFits, Shows
<1>7. /\ now.id = sub.id /\ now.query = sub.query /\ now.read = TRUE /\ now.shown = results
      /\ now.misled = sub.misled
  BY <1>6
<1>8. SubFits(now)'
  BY <1>3, <1>4, <1>6 DEF SubFits
<1>9. ~now.misled => ShowsAll(now)
  <2>1. ~Sqlite => ~Called(now)
    BY <1>3 DEF Called, Written
  <2> QED
    BY <1>5, <1>7, <2>1 DEF ShowsAll
<1>10. ~now.misled => ShowsAll(now)'
  BY <1>3, <1>9, LiveStays
<1>11. ASSUME NEW other \in subscriptions, other # sub
      PROVE  SubFits(other)' /\ other.id # now.id /\ (~other.misled => ShowsAll(other)')
  <2>1. SubFits(other) /\ (~other.misled => ShowsAll(other)) /\ other.id # sub.id
    BY <1>11 DEF LiveInv
  <2> QED
    BY <1>3, <1>7, <2>1, LiveStays DEF SubFits
<1>12. \A one, other \in subscriptions' : one.id = other.id => one = other
  BY <1>3, <1>11 DEF LiveInv
<1>13. \A one \in subscriptions' : SubFits(one)' /\ (~one.misled => ShowsAll(one)')
  BY <1>3, <1>8, <1>10, <1>11
<1>14. txn # None => Calls'
  <2> SUFFICES ASSUME txn # None PROVE Calls'
    OBVIOUS
  <2>1. Calls
    BY DEF LiveInv
  <2> QED
    BY <1>3, <1>7, <2>1 DEF Calls, Written
<1> QED
  BY <1>3, <1>12, <1>13, <1>14 DEF LiveInv

LEMMA IdbApplyLive ==
  ASSUME TableInv, LiveInv, NEW effects \in Batches, IdbApply(effects)
  PROVE  LiveInv'
<1>1. /\ ~Sqlite /\ setup' = setup /\ store' = store /\ subscribed' = subscribed /\ txn = None
      /\ txn' = [effects |-> effects, store |-> store, done |-> 0, notify |-> {}]
      /\ subscriptions' = subscriptions
  BY DEF IdbApply
<1>2. txn'.effects = effects /\ txn'.done = 0 /\ txn'.notify = {}
  BY <1>1
<1>3. ASSUME NEW sub \in subscriptions PROVE ~Called(sub) /\ ~Called(sub)'
  <2>1. ~Called(sub)
    BY <1>1 DEF Called, Written
  <2>2. CASE Len(effects) = 0
    <3>1. DOMAIN effects = {}
      BY <2>2, BatchFits
    <3> QED
      BY <1>2, <2>1, <3>1 DEF Called, Concerns
  <2>3. CASE Len(effects) # 0
    BY <1>2, <2>1, <2>3 DEF Called, Written
  <2> QED
    BY <2>2, <2>3
<1>4. ASSUME NEW sub \in subscriptions, ShowsAll(sub) PROVE ShowsAll(sub)'
  <2>1. \A list : Complete(list, sub.query, store)' <=> Complete(list, sub.query, store)
    BY <1>1 DEF Complete, Records, Record, Sqlite
  <2> QED
    BY <1>1, <1>3, <1>4, <2>1, LivePrimed DEF ShowsAll
<1>5. Calls'
  BY <1>2 DEF Calls
<1> QED
  BY <1>1, <1>4, <1>5 DEF LiveInv, SubFits

LEMMA UnsubscribeLive ==
  ASSUME LiveInv, NEW sub \in subscriptions, Unsubscribe(sub)
  PROVE  LiveInv'
<1>1. /\ setup' = setup /\ store' = store /\ txn' = txn /\ subscribed' = subscribed
      /\ subscriptions' = subscriptions \ {sub}
  BY DEF Unsubscribe
<1>2. \A other \in subscriptions : ShowsAll(other) => ShowsAll(other)'
  BY <1>1, LiveStays
<1>3. txn # None => Calls'
  BY <1>1 DEF LiveInv, Calls, Written
<1> QED
  BY <1>1, <1>2, <1>3 DEF LiveInv, SubFits

LEMMA IdbEffectLive ==
  ASSUME TableInv, LiveInv, IdbEffect
  PROVE  LiveInv'
<1>1. /\ txn # None /\ txn.done < Len(txn.effects) /\ setup' = setup /\ store' = store
      /\ subscriptions' = subscriptions /\ subscribed' = subscribed
  BY DEF IdbEffect
<1>2. ~Sqlite /\ TxnFits /\ ~Written /\ Calls
  BY <1>1 DEF TableInv, Written, TxnFits, LiveInv
<1>3. txn.notify = {} \/ \A sub \in subscriptions : sub.id \notin txn.notify
  BY <1>2 DEF Calls
<1>4. \A sub \in subscriptions : ~Called(sub)
  BY <1>2 DEF Called
<1> DEFINE effect == txn.effects[txn.done + 1]
           concerned == {s \in subscriptions : Concerns(s.query, txn.effects)}
<1>5. CASE txn' = None
  <2>1. \A sub \in subscriptions : ~Called(sub)'
    BY <1>5 DEF Called, Written
  <2>2. ASSUME NEW sub \in subscriptions, ShowsAll(sub) PROVE ShowsAll(sub)'
    <3>1. \A list : Complete(list, sub.query, store)' <=> Complete(list, sub.query, store)
      BY <1>1 DEF Complete, Records, Record, Sqlite
    <3> QED
      BY <1>1, <1>4, <2>1, <2>2, <3>1, LivePrimed DEF ShowsAll
  <2> QED
    BY <1>1, <1>5, <2>2 DEF LiveInv, SubFits
<1>6. CASE txn' # None
  <2>1. /\ txn'.effects = txn.effects /\ txn'.done = txn.done + 1
        /\ txn'.notify = IF txn.done + 1 < Len(txn.effects) THEN txn.notify
                         ELSE {sub.id : sub \in concerned}
    BY <1>2, <1>6 DEF IdbEffect, TxnFits
  <2>2. txn.done \in Nat /\ Len(txn.effects) \in Nat
    BY <1>2, BatchFits DEF TxnFits
  <2>3. Written' <=> ~(txn.done + 1 < Len(txn.effects))
    BY <1>1, <1>6, <2>1, <2>2 DEF Written
  <2>4. \A sub \in subscriptions : ~Called(sub)'
    BY <2>1, <2>3 DEF Called
  <2>5. ASSUME NEW sub \in subscriptions, ShowsAll(sub) PROVE ShowsAll(sub)'
    <3>1. \A list : Complete(list, sub.query, store)' <=> Complete(list, sub.query, store)
      BY <1>1 DEF Complete, Records, Record, Sqlite
    <3> QED
      BY <1>1, <1>4, <2>4, <2>5, <3>1, LivePrimed DEF ShowsAll
  <2>6. Calls'
    <3>1. CASE txn.done + 1 < Len(txn.effects)
      BY <1>1, <1>2, <2>1, <3>1 DEF Calls
    <3>2. CASE ~(txn.done + 1 < Len(txn.effects))
      <4>1. \A id \in {sub.id : sub \in concerned} : id \in Nat /\ id < subscribed
        BY DEF LiveInv, SubFits
      <4>2. \A sub \in subscriptions : sub.id \in {s.id : s \in concerned} => sub \in concerned
        BY DEF LiveInv
      <4> QED
        BY <1>1, <2>1, <2>3, <3>2, <4>1, <4>2 DEF Calls
    <3> QED
      BY <3>1, <3>2
  <2> QED
    BY <1>1, <2>5, <2>6 DEF LiveInv, SubFits
<1> QED
  BY <1>5, <1>6

LEMMA IdbNotifyLive ==
  ASSUME TableInv, LiveInv, AnswersFull, NEW sub \in subscriptions, IdbNotify(sub)
  PROVE  LiveInv'
<1>1. PICK results : results = Query(txn.store, sub.query)
  OBVIOUS
<1>2. PICK now : now = Shows(sub, results)
  OBVIOUS
<1>3. /\ txn # None /\ sub.id \in txn.notify /\ setup' = setup /\ store' = store
      /\ txn' = [txn EXCEPT !.notify = @ \ {sub.id}] /\ subscribed' = subscribed
      /\ subscriptions' = (subscriptions \ {sub}) \cup {now}
  BY <1>1, <1>2 DEF IdbNotify
<1>4. ~Sqlite /\ TxnFits /\ Calls
  BY <1>3 DEF TableInv, LiveInv
<1>5. /\ txn'.effects = txn.effects /\ txn'.store = txn.store /\ txn'.done = txn.done
      /\ txn'.notify = txn.notify \ {sub.id} /\ txn' # None
  BY <1>3, <1>4 DEF TxnFits, None
<1>6. Written /\ Written' /\ Concerns(sub.query, txn.effects)
  BY <1>3, <1>4, <1>5 DEF Calls, Written
<1>7. SubFits(sub)
  BY DEF LiveInv
<1>8. now = [id |-> sub.id, query |-> sub.query, read |-> sub.read, shown |-> results,
             misled |-> sub.misled, initial |-> sub.initial]
  BY <1>2, <1>7 DEF SubFits, Shows
<1>9. now.id = sub.id /\ now.query = sub.query /\ now.shown = results
  BY <1>8
<1>10. SubFits(now)'
  BY <1>3, <1>7, <1>8 DEF SubFits
<1>11. Complete(results, sub.query, txn.store)
  BY <1>1, <1>6, <1>7 DEF AnswersFull, SubFits
<1>12. /\ \A list, q : Complete(list, q, store)' <=> Complete(list, q, store)
       /\ \A list, q : Complete(list, q, txn.store)' <=> Complete(list, q, txn.store)
       /\ Sqlite' <=> Sqlite
  BY <1>3, <1>5 DEF Complete, Records, Record, Sqlite
<1>13. Called(now)'
  BY <1>5, <1>6, <1>9 DEF Called
<1>14. ShowsAll(now)'
  BY <1>4, <1>9, <1>11, <1>12, <1>13 DEF ShowsAll
<1>15. ASSUME NEW other \in subscriptions, other # sub
       PROVE  /\ SubFits(other)' /\ other.id # now.id /\ (~other.misled => ShowsAll(other)')
              /\ other.id \in txn'.notify => Concerns(other.query, txn'.effects)
  <2>1. SubFits(other) /\ (~other.misled => ShowsAll(other)) /\ other.id # sub.id
    BY <1>15 DEF LiveInv
  <2>2. Called(other)' <=> Called(other)
    BY <1>5, <1>6, <2>1 DEF Called
  <2>3. ShowsAll(other) => ShowsAll(other)'
    BY <1>12, <2>2 DEF ShowsAll
  <2>4. other.id \in txn'.notify => Concerns(other.query, txn'.effects)
    BY <1>4, <1>5 DEF Calls
  <2> QED
    BY <1>3, <1>9, <2>1, <2>3, <2>4 DEF SubFits
<1>16. now.id \notin txn'.notify
  BY <1>5, <1>9
<1>17. \A one, other \in subscriptions' : one.id = other.id => one = other
  BY <1>3, <1>15 DEF LiveInv
<1>18. \A one \in subscriptions' : SubFits(one)' /\ (~one.misled => ShowsAll(one)')
  BY <1>3, <1>10, <1>14, <1>15
<1>19. Calls'
  <2>1. \A one \in subscriptions' : one.id \in txn'.notify => Concerns(one.query, txn'.effects)
    BY <1>3, <1>15, <1>16
  <2>2. \A id \in txn'.notify : id \in Nat /\ id < subscribed'
    BY <1>3, <1>4, <1>5 DEF Calls
  <2> QED
    BY <1>6, <2>1, <2>2 DEF Calls
<1>20. subscribed' \in Nat
  BY <1>3 DEF LiveInv
<1> QED
  BY <1>17, <1>18, <1>19, <1>20 DEF LiveInv

LEMMA IdbCommitLive ==
  ASSUME TableInv, LiveInv, IdbCommit
  PROVE  LiveInv'
<1>1. /\ txn # None /\ Written /\ \A sub \in subscriptions : sub.id \notin txn.notify
      /\ setup' = setup /\ store' = txn.store /\ txn' = None
      /\ subscriptions' = subscriptions /\ subscribed' = subscribed
  BY DEF IdbCommit, Notified, Written
<1>2. ~Sqlite /\ TxnFits /\ StoreFits(store) /\ txn.done = Len(txn.effects)
  BY <1>1 DEF TableInv, Written
<1>3. ASSUME NEW sub \in subscriptions, ShowsAll(sub) PROVE ShowsAll(sub)'
  <2>1. \A list : Complete(list, sub.query, store)' <=> Complete(list, sub.query, txn.store)
    BY <1>1 DEF Complete, Records, Record, Sqlite
  <2>2. sub.read => Complete(sub.shown, sub.query, txn.store)
    <3>1. CASE Concerns(sub.query, txn.effects)
      BY <1>1, <1>2, <1>3, <3>1 DEF ShowsAll, Called
    <3>2. CASE ~Concerns(sub.query, txn.effects)
      <4>1. sub.read => Complete(sub.shown, sub.query, store)
        BY <1>2, <1>3, <3>2 DEF ShowsAll, Called
      <4> QED
        BY <1>2, <3>2, <4>1, NothingNew DEF TxnFits
    <3> QED
      BY <3>1, <3>2
  <2>3. ~Called(sub)' /\ ~Sqlite'
    BY <1>1, <1>2, LivePrimed DEF Called, Written
  <2> QED
    BY <2>1, <2>2, <2>3 DEF ShowsAll
<1> QED
  BY <1>1, <1>3 DEF LiveInv, SubFits

LEMMA IdbAbortLive ==
  ASSUME TableInv, LiveInv, IdbAbort
  PROVE  LiveInv'
<1> DEFINE Misled(sub) == [sub EXCEPT !.misled = @ \/ Concerns(sub.query, txn.effects)]
<1>1. /\ txn # None /\ setup' = setup /\ store' = store /\ txn' = None
      /\ subscriptions' = {Misled(sub) : sub \in subscriptions} /\ subscribed' = subscribed
  BY DEF IdbAbort, Notified
<1>2. ~Sqlite
  BY <1>1 DEF TableInv
<1>3. ASSUME NEW sub \in subscriptions, NEW now, now = Misled(sub)
      PROVE  SubFits(now)' /\ now.id = sub.id /\ (~now.misled => ShowsAll(now)')
  <2>1. SubFits(sub) /\ (~sub.misled => ShowsAll(sub))
    BY DEF LiveInv
  <2>2. now = [id |-> sub.id, query |-> sub.query, read |-> sub.read, shown |-> sub.shown,
               misled |-> sub.misled \/ Concerns(sub.query, txn.effects), initial |-> sub.initial]
    BY <1>3, <2>1 DEF SubFits
  <2>3. Concerns(sub.query, txn.effects) \in BOOLEAN
    BY DEF Concerns
  <2>4. SubFits(now)' /\ now.id = sub.id
    BY <1>1, <2>1, <2>2, <2>3 DEF SubFits
  <2>5. ASSUME ~now.misled PROVE ShowsAll(now)'
    <3>1. /\ ~sub.misled /\ ~Concerns(sub.query, txn.effects)
          /\ now.shown = sub.shown /\ now.query = sub.query /\ now.read = sub.read
      BY <2>2, <2>5
    <3>2. sub.read => Complete(sub.shown, sub.query, store)
      BY <1>2, <2>1, <3>1 DEF ShowsAll, Called
    <3>3. Complete(sub.shown, sub.query, store)' <=> Complete(sub.shown, sub.query, store)
      BY <1>1 DEF Complete, Records, Record, Sqlite
    <3>4. ~Called(now)' /\ ~Sqlite'
      BY <1>1, <1>2, LivePrimed DEF Called, Written
    <3> QED
      BY <3>1, <3>2, <3>3, <3>4 DEF ShowsAll, Complete
  <2> QED
    BY <2>4, <2>5
<1> HIDE DEF Misled
<1>4. \A one, other \in subscriptions' : one.id = other.id => one = other
  BY <1>1, <1>3 DEF LiveInv
<1> QED
  BY <1>1, <1>3, <1>4 DEF LiveInv

LEMMA LiveStep ==
  ASSUME TableInv, LiveInv, AnswersFull, AnswersFull', [Next]_vars
  PROVE  LiveInv'
<1>1. CASE \E effects \in Batches : SqliteApply(effects)
  BY <1>1, SqliteApplyLive
<1>2. CASE \E effects \in Batches : IdbApply(effects)
  BY <1>2, IdbApplyLive
<1>3. CASE IdbEffect
  BY <1>3, IdbEffectLive
<1>4. CASE IdbCommit
  BY <1>4, IdbCommitLive
<1>5. CASE IdbAbort
  BY <1>5, IdbAbortLive
<1>6. CASE \E q \in LiveQueries : Subscribe(q)
  BY <1>6, SubscribeLive
<1>7. CASE \E sub \in subscriptions : IdbNotify(sub)
  BY <1>7, IdbNotifyLive
<1>8. CASE \E sub \in subscriptions : Deliver(sub)
  BY <1>8, DeliverLive
<1>9. CASE \E sub \in subscriptions : Unsubscribe(sub)
  BY <1>9, UnsubscribeLive
<1>10. CASE UNCHANGED vars
  <2>1. UNCHANGED <<setup, store, txn, subscriptions, subscribed>>
    BY <1>10 DEF vars
  <2>2. \A sub \in subscriptions : ShowsAll(sub) => ShowsAll(sub)'
    BY <2>1, LiveStays
  <2> QED
    BY <2>1, <2>2 DEF LiveInv, SubFits, Calls, Written
<1> QED
  BY <1>1, <1>2, <1>3, <1>4, <1>5, <1>6, <1>7, <1>8, <1>9, <1>10 DEF Next

LEMMA LiveInvComplete == TableInv /\ LiveInv => LiveComplete
<1> SUFFICES ASSUME TableInv, LiveInv, txn = None, NEW sub \in subscriptions,
                    sub.read, ~sub.misled
             PROVE  Complete(sub.shown, sub.query, store)
  BY DEF LiveComplete, Complete
<1>1. ShowsAll(sub) /\ ~Called(sub)
  BY DEF LiveInv, Called, Written
<1> QED
  BY <1>1 DEF ShowsAll

\* LiveComplete (subscribe and apply of AbstractModelDB.ts and of both backends):
\* if the answers to live queries leave nothing out, then between writes a live
\* query shows every record that matches it, however writes, their effects,
\* callbacks, commits and failures are interleaved with subscriptions and first
\* results: no batch that adds to its results goes by it.
THEOREM LiveQueriesComplete == Spec /\ []AnswersFull => []LiveComplete
<1>1. TableInv /\ LiveInv /\ AnswersFull /\ AnswersFull' /\ [Next]_vars => TableInv' /\ LiveInv'
  BY TableStep, LiveStep
<1> QED
  BY <1>1, TableInit, LiveInit, LiveInvComplete, PTL DEF Spec

-----------------------------------------------------------------------------
(* LiveQuery: what a component shows                                       *)

\* The subscription that a component holds.
SubOf(c) ==
  [id |-> refs[c].sub, by |-> c, db |-> refs[c].db, model |-> refs[c].model,
   query |-> refs[c].query]

Mine(c, d) == {s \in subs[d] : s.by = c}

\* What subscribe answers for: its arguments, and the id it gave.
Asked == [db : Databases, model : Models, query : HookQueries, sub : Nat]

HookTypes ==
  /\ DOMAIN input = Components /\ DOMAIN refs = Components /\ DOMAIN shown = Components
  /\ DOMAIN reads = Components /\ \A c \in Components : reads[c] \in Seq(Asked)
  /\ DOMAIN subs = Databases /\ nextId \in [Databases -> Nat]
  /\ data \in [Databases -> [Models -> Nat]]
  /\ overtaken \in SUBSET Components /\ crossed \in SUBSET Components

Subscriptions ==
  [id : Nat, by : Components \cup {Hook!None}, db : Databases, model : Models, query : HookQueries]

\* A subscription is told by its id.
IdsFit ==
  \A d \in Databases :
    /\ \A s \in subs[d] : s \in Subscriptions /\ s.id < nextId[d]
    /\ \A s, t \in subs[d] : s.id = t.id => s = t

\* The id that a component holds was given to it and to no other.
IdIsOwn(c) ==
  refs[c].sub # Hook!NoSub =>
    /\ refs[c].db \in Databases /\ refs[c].model \in Models
    /\ refs[c].sub \in Nat /\ refs[c].sub < nextId[refs[c].db]
    /\ \A s \in subs[refs[c].db] : s.id = refs[c].sub => s.by = c

\* What is subscribed for a component that nothing crossed.
Own(c, d) == IF refs[c].sub # Hook!NoSub /\ d = refs[c].db THEN {SubOf(c)} ELSE {}

HoldsOne(c) ==
  /\ ~Hook!Mounted(c) => refs[c] = Hook!Gone
  /\ c \notin crossed => \A d \in Databases : Mine(c, d) = Own(c, d)

\* What a component shows once the first result came.
ShowsLast(c) ==
  refs[c].sub # Hook!NoSub /\ c \notin crossed \cup overtaken /\ ~Hook!Awaits(c) =>
    shown[c] = Hook!Answer(refs[c], data)

Fits(c) == IdIsOwn(c) /\ HoldsOne(c) /\ ShowsLast(c)

HookInv == HookTypes /\ IdsFit /\ \A c \in Components : Fits(c)

-----------------------------------------------------------------------------

LEMMA HookInit == Hook!Init => HookInv
  <1> SUFFICES ASSUME Hook!Init PROVE HookInv
    OBVIOUS
  <1>1. HookTypes
    BY DEF Hook!Init, HookTypes
  <1>2. IdsFit
    BY DEF Hook!Init, IdsFit
  <1>3. \A c \in Components : refs[c] = Hook!Gone /\ refs[c].sub = Hook!NoSub /\ ~Hook!Mounted(c)
    BY DEF Hook!Init, Hook!Gone, Hook!Mounted
  <1>4. \A c \in Components : Fits(c)
    BY <1>3 DEF Hook!Init, Fits, IdIsOwn, HoldsOne, ShowsLast, Mine, Own
  <1> QED
    BY <1>1, <1>2, <1>4 DEF HookInv

\* A component that does not move, while others come and go: what is subscribed for
\* it stays, or it is crossed.
LEMMA OtherFits ==
  ASSUME HookInv, HookTypes', NEW e \in Components,
         input'[e] = input[e], refs'[e] = refs[e], reads'[e] = reads[e], shown'[e] = shown[e],
         data' = data, e \in overtaken => e \in overtaken', e \in crossed => e \in crossed',
         \A d \in Databases : nextId[d] <= nextId'[d],
         \A d \in Databases : \A s \in subs'[d] :
           s \in subs[d] \/ (s.by # e /\ s.id >= nextId[d]) \/ (s.by # e /\ \E t \in subs[d] : t.by # e /\ t.id = s.id),
         \A d \in Databases : e \notin crossed' => \A s \in subs[d] : s.by = e => s \in subs'[d]
  PROVE  Fits(e)'
  <1>1. Fits(e) /\ HookTypes
    BY DEF HookInv
  <1>2. IdIsOwn(e)'
    <2> SUFFICES ASSUME refs[e].sub # Hook!NoSub
                 PROVE  /\ refs[e].sub < nextId'[refs[e].db]
                        /\ \A s \in subs'[refs[e].db] : s.id = refs[e].sub => s.by = e
      BY <1>1 DEF Fits, IdIsOwn
    <2> DEFINE d == refs[e].db
    <2>1. /\ d \in Databases /\ refs[e].sub \in Nat /\ refs[e].sub < nextId[d]
          /\ \A s \in subs[d] : s.id = refs[e].sub => s.by = e
      BY <1>1 DEF Fits, IdIsOwn
    <2>2. nextId[d] \in Nat /\ nextId'[d] \in Nat /\ nextId[d] <= nextId'[d]
      BY <1>1, <2>1 DEF HookTypes
    <2>3. ASSUME NEW s \in subs'[d], s.id = refs[e].sub PROVE s.by = e
      BY <2>1, <2>2, <2>3
    <2> QED
      BY <2>1, <2>2, <2>3
  <1>3. HoldsOne(e)'
    <2>1. ~Hook!Mounted(e)' => refs'[e] = Hook!Gone
      BY <1>1 DEF Fits, HoldsOne, Hook!Mounted
    <2>2. ASSUME e \notin crossed', NEW d \in Databases PROVE Mine(e, d)' = Own(e, d)'
      <3>1. Mine(e, d)' = Mine(e, d)
        BY <2>2 DEF Mine
      <3>2. Mine(e, d) = Own(e, d)
        BY <1>1, <2>2 DEF Fits, HoldsOne
      <3>3. Own(e, d)' = Own(e, d)
        BY DEF Own, SubOf
      <3> QED
        BY <3>1, <3>2, <3>3
    <2> QED
      BY <2>1, <2>2 DEF HoldsOne
  <1>4. ShowsLast(e)'
    <2>1. Hook!Awaits(e)' <=> Hook!Awaits(e)
      BY DEF Hook!Awaits
    <2> QED
      BY <1>1, <2>1 DEF Fits, ShowsLast, Hook!Answer
  <1> QED
    BY <1>2, <1>3, <1>4 DEF Fits

LEMMA ClearKeeps ==
  ASSUME Hook!Apart, HookInv, NEW c \in Components, NEW i \in Hook!Inputs, NEW r,
         Hook!Clear(c, i, r), r = refs[c] \/ (r = Hook!Held(i, Hook!NoSub) /\ ~Hook!Mounted(c)),
         input' = [input EXCEPT ![c] = i], data' = data
  PROVE  HookInv'
  <1> DEFINE ends == r.db # Hook!None /\ r.sub # Hook!NoSub
  <1>1. /\ subs' = IF ends THEN [subs EXCEPT ![r.db] = Hook!Without(r.db, r.sub)] ELSE subs
        /\ shown' = IF ends THEN [shown EXCEPT ![c] = Hook!NoAnswer] ELSE shown
        /\ refs' = [refs EXCEPT ![c] = Hook!Held(i, IF ends THEN Hook!NoSub ELSE r.sub)]
        /\ nextId' = nextId /\ reads' = reads /\ overtaken' = overtaken /\ crossed' = crossed
    BY DEF Hook!Clear
  <1>2. ends => r = refs[c]
    BY DEF Hook!Held
  <1>3. ends => refs[c].sub # Hook!NoSub /\ r.db \in Databases
    BY <1>2 DEF HookInv, Fits, IdIsOwn
  <1>4. ~ends => r.sub = Hook!NoSub /\ refs[c].sub = Hook!NoSub
    BY DEF HookInv, Fits, IdIsOwn, HoldsOne, Hook!Held, Hook!Gone, Hook!Apart
  <1>5. refs'[c] = Hook!Held(i, Hook!NoSub)
    BY <1>1, <1>4 DEF HookInv, HookTypes
  <1> HIDE DEF ends
  <1>6. HookTypes'
    BY <1>1, <1>3 DEF HookInv, HookTypes
  <1>7. \A d \in Databases : subs'[d] = IF ends /\ d = r.db THEN Hook!Without(d, refs[c].sub) ELSE subs[d]
    BY <1>1, <1>2 DEF HookInv, HookTypes
  <1>8. IdsFit'
    BY <1>1, <1>7 DEF HookInv, IdsFit, Hook!Without
  <1>9. ends => \A s \in subs[r.db] : s.id = refs[c].sub => s.by = c
    BY <1>2, <1>3 DEF HookInv, Fits, IdIsOwn
  <1>10. ASSUME NEW e \in Components, e # c PROVE Fits(e)'
    <2>1. \A d \in Databases : \A s \in subs'[d] : s \in subs[d]
      BY <1>7 DEF Hook!Without
    <2>2. \A d \in Databases : \A s \in subs[d] : s.by = e => s \in subs'[d]
      BY <1>7, <1>9, <1>10 DEF Hook!Without
    <2>3. \A d \in Databases : nextId[d] <= nextId'[d]
      BY <1>1 DEF HookInv, HookTypes
    <2>4. /\ input'[e] = input[e] /\ refs'[e] = refs[e] /\ reads'[e] = reads[e]
          /\ shown'[e] = shown[e]
      BY <1>1, <1>10 DEF HookInv, HookTypes
    <2> QED
      BY <1>1, <1>6, <2>1, <2>2, <2>3, <2>4, OtherFits
  <1>11. refs'[c].sub = Hook!NoSub
    BY <1>5 DEF Hook!Held
  <1>12. HoldsOne(c)'
    <2>1. input'[c] = i /\ i # Hook!Unmounted
      BY DEF HookInv, HookTypes, Hook!Inputs, Hook!Unmounted, Hook!Apart
    <2>2. ASSUME c \notin crossed, NEW d \in Databases PROVE Mine(c, d)' = {}
      <3>1. Mine(c, d) = Own(c, d)
        BY <2>2 DEF HookInv, Fits, HoldsOne
      <3>2. CASE ends /\ d = r.db
        <4>1. Mine(c, d) = {SubOf(c)} /\ SubOf(c).id = refs[c].sub
          BY <1>2, <1>3, <3>1, <3>2 DEF Own, SubOf
        <4>2. subs'[d] = {s \in subs[d] : s.id # refs[c].sub}
          BY <1>7, <3>2 DEF Hook!Without
        <4> QED
          BY <4>1, <4>2 DEF Mine
      <3>3. CASE ~(ends /\ d = r.db)
        <4>1. Own(c, d) = {}
          BY <1>2, <1>4, <3>3 DEF Own
        <4> QED
          BY <1>7, <3>1, <3>3, <4>1 DEF Mine
      <3> QED
        BY <3>2, <3>3
    <2> QED
      BY <1>1, <1>11, <2>1, <2>2 DEF HoldsOne, Own, Hook!Mounted
  <1>13. Fits(c)'
    BY <1>11, <1>12 DEF Fits, IdIsOwn, ShowsLast
  <1> QED
    BY <1>6, <1>8, <1>10, <1>13 DEF HookInv

LEMMA SubscribeKeeps ==
  ASSUME Hook!Apart, HookInv, NEW c \in Components, NEW i \in Hook!Inputs, NEW r,
         Hook!Subscribe(c, i, r), i.db # Hook!None, i.query # Hook!None,
         r = refs[c] \/ (r = Hook!Held(i, Hook!NoSub) /\ ~Hook!Mounted(c)),
         input' = [input EXCEPT ![c] = i], data' = data
  PROVE  HookInv'
  <1> DEFINE new == [id |-> nextId[i.db], by |-> c, db |-> i.db, model |-> i.model, query |-> i.query]
             held == Hook!Held(i, nextId[i.db])
             ends == r.db # Hook!None /\ r.sub # Hook!NoSub
             rest == IF ends THEN Hook!Without(i.db, r.sub) ELSE subs[i.db]
  <1>1. i.db \in Databases /\ i.model \in Models /\ i.query \in HookQueries
    BY DEF Hook!Inputs
  <1>2. /\ nextId' = [nextId EXCEPT ![i.db] = @ + 1]
        /\ subs' = [subs EXCEPT ![i.db] = rest \cup {new}]
        /\ reads' = [reads EXCEPT ![c] = Append(@, held)]
        /\ refs' = [refs EXCEPT ![c] = held]
        /\ crossed' = crossed \cup Hook!Crosses(c, i, r)
        /\ shown' = shown /\ overtaken' = overtaken
    BY <1>1 DEF Hook!Subscribe, HookInv, HookTypes
  <1>3. ends => r = refs[c] /\ refs[c].sub # Hook!NoSub /\ r.db \in Databases
    BY DEF HookInv, Fits, IdIsOwn, Hook!Held
  <1>4. ~ends => refs[c].sub = Hook!NoSub
    BY DEF HookInv, Fits, IdIsOwn, HoldsOne, Hook!Held, Hook!Gone, Hook!Apart
  <1>5. /\ new.id = nextId[i.db] /\ new.by = c /\ new.db = i.db /\ new.model = i.model
        /\ new.query = i.query
    OBVIOUS
  <1>6. /\ rest \subseteq subs[i.db]
        /\ \A s \in subs[i.db] : s \in rest \/ (ends /\ s.id = refs[c].sub)
        /\ ends => \A s \in rest : s.id # refs[c].sub
    BY <1>3 DEF Hook!Without
  <1>7. Hook!Crosses(c, i, r) =
          IF ends /\ r.db # i.db
          THEN {c} \cup {e \in Components : \E s \in subs[i.db] : s.by = e /\ s.id = r.sub} ELSE {}
    BY DEF Hook!Crosses
  <1> HIDE DEF ends, rest
  <1>8. /\ nextId[i.db] \in Nat /\ nextId'[i.db] = nextId[i.db] + 1
        /\ subs'[i.db] = rest \cup {new}
        /\ \A d \in Databases \ {i.db} : nextId'[d] = nextId[d] /\ subs'[d] = subs[d]
        /\ \A d \in Databases : nextId[d] \in Nat
    BY <1>1, <1>2 DEF HookInv, HookTypes
  <1>9. HookTypes'
    <2>1. reads[c] \in Seq(Asked) /\ held \in Asked
      BY <1>1, <1>8 DEF HookInv, HookTypes, Asked, Hook!Held
    <2>2. Append(reads[c], held) \in Seq(Asked)
      <3> HIDE DEF held
      <3> QED
        BY <2>1
    <2>3. \A e \in Components : reads'[e] \in Seq(Asked)
      BY <1>2, <2>2 DEF HookInv, HookTypes
    <2>4. nextId' \in [Databases -> Nat]
      BY <1>1, <1>2, <1>8 DEF HookInv, HookTypes
    <2>5. crossed' \in SUBSET Components
      BY <1>2, <1>7 DEF HookInv, HookTypes
    <2> QED
      BY <1>2, <2>3, <2>4, <2>5 DEF HookInv, HookTypes
  <1>10. IdsFit'
    <2>1. \A s \in subs[i.db] : s \in Subscriptions /\ s.id \in Nat /\ s.id < nextId[i.db]
      BY <1>1 DEF HookInv, IdsFit, Subscriptions
    <2>2. new \in Subscriptions
      BY <1>1, <1>8 DEF Subscriptions
    <2> HIDE DEF new, held
    <2>3. \A s \in subs'[i.db] : s \in Subscriptions /\ s.id < nextId'[i.db]
      BY <1>5, <1>6, <1>8, <2>1, <2>2
    <2>4. \A s, t \in subs'[i.db] : s.id = t.id => s = t
      <3>1. \A s, t \in subs[i.db] : s.id = t.id => s = t
        BY <1>1 DEF HookInv, IdsFit
      <3>2. \A s \in rest : s.id # new.id
        BY <1>5, <1>6, <1>8, <2>1
      <3> QED
        BY <1>6, <1>8, <3>1, <3>2
    <2>5. ASSUME NEW d \in Databases, d # i.db
          PROVE  /\ \A s \in subs'[d] : s \in Subscriptions /\ s.id < nextId'[d]
                 /\ \A s, t \in subs'[d] : s.id = t.id => s = t
      BY <1>8, <2>5 DEF HookInv, IdsFit
    <2> QED
      BY <2>3, <2>4, <2>5 DEF IdsFit
  <1>11. ASSUME NEW e \in Components, e # c PROVE Fits(e)'
    <2> HIDE DEF new, held
    <2>1. ASSUME NEW d \in Databases
          PROVE  \A s \in subs'[d] : s \in subs[d] \/ (s.by # e /\ s.id >= nextId[d])
      BY <1>5, <1>6, <1>8, <1>11
    <2>2. ASSUME NEW d \in Databases, e \notin crossed', NEW s \in subs[d], s.by = e
          PROVE  s \in subs'[d]
      <3>1. CASE d # i.db
        BY <1>8, <3>1
      <3>2. CASE d = i.db /\ s \in rest
        BY <1>8, <3>2
      <3>3. CASE d = i.db /\ s \notin rest
        <4>1. ends /\ s.id = refs[c].sub /\ r = refs[c]
          BY <1>3, <1>6, <3>3
        <4>2. CASE r.db = i.db
          BY <1>11, <2>2, <3>3, <4>1, <4>2, <1>3 DEF HookInv, Fits, IdIsOwn
        <4>3. CASE r.db # i.db
          BY <1>2, <1>7, <2>2, <3>3, <4>1, <4>3
        <4> QED
          BY <4>2, <4>3
      <3> QED
        BY <3>1, <3>2, <3>3
    <2>3. \A d \in Databases : nextId[d] <= nextId'[d]
      BY <1>8
    <2>4. /\ input'[e] = input[e] /\ refs'[e] = refs[e] /\ reads'[e] = reads[e]
          /\ shown'[e] = shown[e]
      BY <1>2, <1>11 DEF HookInv, HookTypes
    <2> QED
      BY <1>2, <1>9, <2>1, <2>2, <2>3, <2>4, OtherFits
  <1>12. refs'[c] = held
    BY <1>2 DEF HookInv, HookTypes
  <1>13. /\ held.sub = nextId[i.db] /\ held.db = i.db /\ held.model = i.model
         /\ held.query = i.query
    BY DEF Hook!Held
  <1>14. IdIsOwn(c)'
    <2>1. \A s \in subs[i.db] : s.id \in Nat /\ s.id < nextId[i.db]
      BY <1>1 DEF HookInv, IdsFit, Subscriptions
    <2> HIDE DEF new, held
    <2>2. \A s \in subs'[i.db] : s.id = nextId[i.db] => s.by = c
      BY <1>5, <1>6, <1>8, <2>1
    <2> QED
      BY <1>1, <1>8, <1>12, <1>13, <2>2 DEF IdIsOwn
  <1>15. HoldsOne(c)'
    <2>1. input'[c] = i /\ i # Hook!Unmounted
      BY DEF HookInv, HookTypes, Hook!Inputs, Hook!Unmounted, Hook!Apart
    <2>2. refs'[c].sub # Hook!NoSub /\ SubOf(c)' = new /\ refs'[c].db = i.db
      BY <1>8, <1>12, <1>13 DEF Hook!NoSub, SubOf
    <2>3. ASSUME c \notin crossed' PROVE \A d \in Databases : \A s \in subs'[d] : s.by = c <=> s = new
      <3>1. c \notin crossed /\ (ends => r.db = i.db)
        BY <1>2, <1>7, <2>3
      <3>2. \A d \in Databases : Mine(c, d) = Own(c, d)
        BY <3>1 DEF HookInv, Fits, HoldsOne
      <3>3. \A d \in Databases \ {i.db} : Mine(c, d) = {}
        BY <1>3, <1>4, <3>1, <3>2 DEF Own
      <3>4. \A s \in rest : s.by # c
        <4>1. CASE ends
          <5>1. Mine(c, i.db) = {SubOf(c)} /\ SubOf(c).id = refs[c].sub
            BY <1>1, <1>3, <3>1, <3>2, <4>1 DEF Own, SubOf
          <5> QED
            BY <1>6, <4>1, <5>1 DEF Mine
        <4>2. CASE ~ends
          <5>1. Mine(c, i.db) = {}
            BY <1>1, <1>4, <3>2, <4>2 DEF Own
          <5> QED
            BY <1>6, <5>1 DEF Mine
        <4> QED
          BY <4>1, <4>2
      <3>5. \A d \in Databases \ {i.db} : \A s \in subs'[d] : s.by # c /\ s # new
        <4>1. \A d \in Databases \ {i.db} : \A s \in subs'[d] : s.by # c
          BY <1>8, <3>3 DEF Mine
        <4> QED
          BY <1>5, <4>1
      <3>6. \A s \in subs'[i.db] : s.by = c <=> s = new
        <4> HIDE DEF new
        <4> QED
          BY <1>5, <1>8, <3>4
      <3> HIDE DEF new
      <3> QED
        BY <3>5, <3>6
    <2>4. ASSUME c \notin crossed', NEW d \in Databases PROVE Mine(c, d)' = Own(c, d)'
      <3> HIDE DEF new
      <3>1. Own(c, d)' = IF d = i.db THEN {new} ELSE {}
        BY <2>2 DEF Own
      <3>2. new \in subs'[i.db]
        BY <1>8
      <3>3. Mine(c, d)' = {s \in subs'[d] : s = new}
        BY <2>3, <2>4 DEF Mine
      <3>4. d # i.db => new \notin subs'[d]
        <4>1. d # i.db => \A s \in subs[d] : s # new
          <5>1. new.by = c /\ c \notin crossed /\ (ends => r.db = i.db)
            BY <1>2, <1>5, <1>7, <2>4
          <5>2. d # i.db => Own(c, d) = {}
            BY <1>3, <1>4, <5>1 DEF Own
          <5>3. Mine(c, d) = Own(c, d)
            BY <5>1 DEF HookInv, Fits, HoldsOne
          <5> QED
            BY <5>1, <5>2, <5>3 DEF Mine
        <4> QED
          BY <1>8, <4>1
      <3> QED
        BY <3>1, <3>2, <3>3, <3>4
    <2> QED
      BY <2>1, <2>4, <2>2 DEF HoldsOne, Hook!Mounted
  <1>16. ShowsLast(c)'
    <2>1. reads'[c] = Append(reads[c], held) /\ reads[c] \in Seq(Asked)
      BY <1>2 DEF HookInv, HookTypes
    <2> HIDE DEF held
    <2>2. Len(reads'[c]) \in DOMAIN reads'[c] /\ reads'[c][Len(reads'[c])] = held
      BY <2>1
    <2>3. Hook!Awaits(c)'
      BY <1>12, <2>2 DEF Hook!Awaits
    <2> QED
      BY <2>3 DEF ShowsLast
  <1>17. Fits(c)'
    BY <1>14, <1>15, <1>16 DEF Fits
  <1> QED
    BY <1>9, <1>10, <1>11, <1>17 DEF HookInv

\* A render that does nothing else.
LEMMA RenderOnly ==
  ASSUME Hook!Apart, HookInv, NEW c \in Components, NEW i \in Hook!Inputs, Hook!Mounted(c),
         input' = [input EXCEPT ![c] = i], data' = data,
         UNCHANGED <<refs, shown, subs, nextId, reads, overtaken, crossed>>
  PROVE  HookInv'
  <1>1. HookTypes' /\ IdsFit'
    BY DEF HookInv, HookTypes, IdsFit
  <1>2. ASSUME NEW e \in Components PROVE Fits(e)'
    <2>1. Hook!Mounted(e)' <=> Hook!Mounted(e)
      BY DEF HookInv, HookTypes, Hook!Mounted, Hook!Inputs, Hook!Unmounted, Hook!Apart
    <2>2. Fits(e)
      BY DEF HookInv
    <2>3. IdIsOwn(e)'
      BY <2>2 DEF Fits, IdIsOwn
    <2>4. HoldsOne(e)'
      BY <2>1, <2>2 DEF Fits, HoldsOne, Mine, Own, SubOf
    <2>5. ShowsLast(e)'
      BY <2>2 DEF Fits, ShowsLast, Hook!Answer, Hook!Awaits
    <2> QED
      BY <2>3, <2>4, <2>5 DEF Fits
  <1> QED
    BY <1>1, <1>2 DEF HookInv

LEMMA RenderKeeps ==
  ASSUME Hook!Apart, HookInv, NEW c \in Components, NEW i \in Hook!Inputs,
         Hook!Mount(c, i) \/ Hook!Render(c, i)
  PROVE  HookInv'
  <1>1. input' = [input EXCEPT ![c] = i] /\ data' = data
    BY DEF Hook!Mount, Hook!Render
  <1>2. ASSUME NEW r, r = refs[c] \/ (r = Hook!Held(i, Hook!NoSub) /\ ~Hook!Mounted(c)),
               Hook!Effect(c, i, r), ~Hook!Same(i, r) \/ i.db = Hook!None \/ i.query = Hook!None
        PROVE  HookInv'
    <2>1. CASE i.db = Hook!None \/ i.query = Hook!None
      BY <1>1, <1>2, <2>1, ClearKeeps DEF Hook!Effect
    <2>2. CASE ~(i.db = Hook!None \/ i.query = Hook!None)
      BY <1>1, <1>2, <2>2, SubscribeKeeps DEF Hook!Effect
    <2> QED
      BY <2>1, <2>2
  <1>3. CASE Hook!Mount(c, i)
    <2>1. ~Hook!Same(i, Hook!Held(i, Hook!NoSub))
      BY DEF Hook!Same, Hook!Held
    <2> QED
      BY <1>2, <1>3, <2>1 DEF Hook!Mount
  <1>4. CASE Hook!Render(c, i)
    <2>1. CASE UNCHANGED <<refs, shown, subs, nextId, reads, overtaken, crossed>>
      BY <1>1, <1>4, <2>1, RenderOnly DEF Hook!Render
    <2>2. CASE Hook!Effect(c, i, refs[c])
      <3>1. CASE i.db # Hook!None /\ i.query # Hook!None /\ Hook!Same(i, refs[c])
        BY <1>1, <1>4, <2>2, <3>1, RenderOnly DEF Hook!Render, Hook!Effect
      <3> QED
        BY <1>2, <2>2, <3>1
    <2> QED
      BY <1>4, <2>1, <2>2 DEF Hook!Render
  <1> QED
    BY <1>3, <1>4

LEMMA UnmountKeeps ==
  ASSUME Hook!Apart, HookInv, NEW c \in Components, Hook!Unmount(c)
  PROVE  HookInv'
  <1> DEFINE Left(s) == IF s.by = c THEN [s EXCEPT !.by = Hook!None] ELSE s
  <1>1. /\ input' = [input EXCEPT ![c] = Hook!Unmounted] /\ refs' = [refs EXCEPT ![c] = Hook!Gone]
        /\ shown' = [shown EXCEPT ![c] = Hook!NoAnswer] /\ reads' = [reads EXCEPT ![c] = <<>>]
        /\ subs' = [d \in Databases |-> {Left(s) : s \in subs[d]}]
        /\ overtaken' = overtaken \ {c} /\ crossed' = crossed \ {c}
        /\ nextId' = nextId /\ data' = data
    BY DEF Hook!Unmount
  <1>2. ASSUME NEW d \in Databases, NEW s \in subs[d]
        PROVE  /\ s \in Subscriptions /\ Left(s) \in Subscriptions /\ Left(s).id = s.id
               /\ Left(s).by # c /\ (s.by # c => Left(s) = s)
               /\ (s.by = c => Left(s).by = Hook!None)
               /\ Left(s).by \in Components => Left(s) = s
    <2>1. s \in Subscriptions
      BY DEF HookInv, IdsFit
    <2> QED
      BY <2>1 DEF Subscriptions, Hook!Apart
  <1> HIDE DEF Left
  <1>3. \A d \in Databases : subs'[d] = {Left(s) : s \in subs[d]}
    BY <1>1
  <1>4. HookTypes'
    BY <1>1 DEF HookInv, HookTypes
  <1>5. IdsFit'
    <2> SUFFICES ASSUME NEW d \in Databases
                 PROVE  /\ \A s \in subs'[d] : s \in Subscriptions /\ s.id < nextId[d]
                        /\ \A s, t \in subs'[d] : s.id = t.id => s = t
      BY <1>1 DEF IdsFit
    <2>1. \A s \in subs[d] : s.id < nextId[d]
      BY DEF HookInv, IdsFit
    <2>2. \A s, t \in subs[d] : s.id = t.id => s = t
      BY DEF HookInv, IdsFit
    <2> QED
      BY <1>2, <1>3, <2>1, <2>2
  <1>6. ASSUME NEW e \in Components, e # c PROVE Fits(e)'
    <2>1. ASSUME NEW d \in Databases, NEW s \in subs'[d]
          PROVE  s \in subs[d] \/ (s.by # e /\ \E t \in subs[d] : t.by # e /\ t.id = s.id)
      <3>1. PICK t \in subs[d] : s = Left(t)
        BY <1>3, <2>1
      <3>2. CASE t.by = c
        <4>1. s.by = Hook!None /\ s.id = t.id
          BY <1>2, <3>1, <3>2
        <4> QED
          BY <1>6, <3>2, <4>1 DEF Hook!Apart
      <3>3. CASE t.by # c
        BY <1>2, <3>1, <3>3
      <3> QED
        BY <3>2, <3>3
    <2>2. \A d \in Databases : \A s \in subs[d] : s.by = e => s \in subs'[d]
      <3>1. \A d \in Databases : \A s \in subs[d] : s.by = e => Left(s) = s
        BY <1>2, <1>6
      <3> QED
        BY <1>3, <3>1
    <2>3. \A d \in Databases : nextId[d] <= nextId'[d]
      BY <1>1 DEF HookInv, HookTypes
    <2>4. /\ input'[e] = input[e] /\ refs'[e] = refs[e] /\ reads'[e] = reads[e]
          /\ shown'[e] = shown[e]
          /\ (e \in overtaken => e \in overtaken') /\ (e \in crossed => e \in crossed')
      BY <1>1, <1>6 DEF HookInv, HookTypes
    <2> QED
      BY <1>1, <1>4, <2>1, <2>2, <2>3, <2>4, OtherFits
  <1>7. refs'[c] = Hook!Gone /\ refs'[c].sub = Hook!NoSub
    BY <1>1 DEF HookInv, HookTypes, Hook!Gone
  <1>8. \A d \in Databases : Mine(c, d)' = {}
    BY <1>2, <1>3 DEF Mine
  <1>9. Fits(c)'
    BY <1>7, <1>8 DEF Fits, IdIsOwn, HoldsOne, Own, ShowsLast
  <1> QED
    BY <1>4, <1>5, <1>6, <1>9 DEF HookInv

\* An answer to what the component holds is shown; after any other it is overtaken.
LEMMA DeliverKeeps ==
  ASSUME HookInv, NEW c \in Components, NEW k \in DOMAIN reads[c], Hook!Deliver(c, k)
  PROVE  HookInv'
  <1>1. reads[c] \in Seq(Asked) /\ k \in 1..Len(reads[c])
    BY DEF HookInv, HookTypes
  <1>2. /\ shown' = [shown EXCEPT ![c] = Hook!Answer(reads[c][k], data)]
        /\ reads' = [reads EXCEPT ![c] =
             SubSeq(@, 1, k - 1) \o SubSeq(@, k + 1, Len(@))]
        /\ overtaken' = IF reads[c][k] = refs[c] THEN overtaken \ {c} ELSE overtaken \cup {c}
        /\ UNCHANGED <<input, refs, subs, nextId, data, crossed>>
    BY DEF Hook!Deliver
  <1>3. SubSeq(reads[c], 1, k - 1) \o SubSeq(reads[c], k + 1, Len(reads[c])) \in Seq(Asked)
    <2>1. SubSeq(reads[c], 1, k - 1) \in Seq(Asked)
      BY <1>1, SubSeqProperties
    <2>2. SubSeq(reads[c], k + 1, Len(reads[c])) \in Seq(Asked)
      BY <1>1, SubSeqProperties
    <2> QED
      BY <2>1, <2>2, ConcatProperties
  <1>4. HookTypes'
    BY <1>2, <1>3 DEF HookInv, HookTypes
  <1>5. IdsFit'
    BY <1>2 DEF HookInv, IdsFit
  <1>6. ASSUME NEW e \in Components, e # c PROVE Fits(e)'
    <2>1. /\ \A d \in Databases : nextId[d] <= nextId'[d]
          /\ input'[e] = input[e] /\ refs'[e] = refs[e] /\ reads'[e] = reads[e]
          /\ shown'[e] = shown[e] /\ (e \in overtaken => e \in overtaken')
      BY <1>2, <1>6 DEF HookInv, HookTypes
    <2> QED
      BY <1>2, <1>4, <2>1, OtherFits
  <1>7. Fits(c)'
    <2>1. Fits(c)
      BY DEF HookInv
    <2>2. IdIsOwn(c)'
      BY <1>2, <2>1 DEF Fits, IdIsOwn
    <2>3. HoldsOne(c)'
      BY <1>2, <2>1 DEF Fits, HoldsOne, Mine, Own, SubOf, Hook!Mounted
    <2>4. ShowsLast(c)'
      <3>1. shown'[c] = Hook!Answer(reads[c][k], data)
        BY <1>2 DEF HookInv, HookTypes
      <3>2. c \notin overtaken' => reads[c][k] = refs[c]
        BY <1>2
      <3> QED
        BY <1>2, <3>1, <3>2 DEF ShowsLast
    <2> QED
      BY <2>2, <2>3, <2>4 DEF Fits
  <1> QED
    BY <1>4, <1>5, <1>6, <1>7 DEF HookInv

LEMMA WriteKeeps ==
  ASSUME HookInv, NEW d \in Databases, NEW m \in Models, Hook!Write(d, m)
  PROVE  HookInv'
  <1>1. /\ data' = [data EXCEPT ![d][m] = @ + 1]
        /\ UNCHANGED <<input, refs, subs, nextId, reads, crossed>>
        /\ shown' = [c \in Components |->
             IF Hook!Concerned(c, d, m) = {} THEN shown[c]
             ELSE Hook!Answer(CHOOSE s \in Hook!Concerned(c, d, m) :
                                \A t \in Hook!Concerned(c, d, m) : t.id <= s.id, data')]
        /\ overtaken' = {c \in overtaken : Hook!Concerned(c, d, m) = {}}
    BY DEF Hook!Write
  <1>2. data \in [Databases -> [Models -> Nat]]
    BY DEF HookInv, HookTypes
  <1>3. /\ data' \in [Databases -> [Models -> Nat]]
        /\ \A e \in Databases, n \in Models : e # d \/ n # m => data'[e][n] = data[e][n]
    BY <1>1, <1>2
  <1>4. HookTypes'
    BY <1>1, <1>3 DEF HookInv, HookTypes
  <1>5. IdsFit'
    BY <1>1 DEF HookInv, IdsFit
  <1>6. ASSUME NEW c \in Components PROVE Fits(c)'
    <2>1. IdIsOwn(c)'
      BY <1>1 DEF HookInv, Fits, IdIsOwn
    <2>2. HoldsOne(c)'
      BY <1>1 DEF HookInv, Fits, HoldsOne, Mine, Own, SubOf, Hook!Mounted
    <2>3. ShowsLast(c)'
      <3> SUFFICES ASSUME refs[c].sub # Hook!NoSub, c \notin crossed, c \notin overtaken', ~Hook!Awaits(c)
                   PROVE  shown'[c] = Hook!Answer(refs[c], data')
        BY <1>1 DEF ShowsLast, Hook!Awaits
      <3>1. /\ refs[c].db \in Databases /\ refs[c].model \in Models
            /\ \A e \in Databases : Mine(c, e) = Own(c, e)
        BY DEF HookInv, Fits, IdIsOwn, HoldsOne
      <3>2. Hook!Concerned(c, d, m) = {s \in Own(c, d) : s.model = m}
        BY <3>1 DEF Hook!Concerned, Mine
      <3>3. SubOf(c).model = refs[c].model /\ SubOf(c).db = refs[c].db
            /\ SubOf(c).query = refs[c].query /\ SubOf(c).id = refs[c].sub
        BY DEF SubOf
      <3>4. CASE refs[c].db = d /\ refs[c].model = m
        <4>1. Hook!Concerned(c, d, m) = {SubOf(c)}
          BY <3>2, <3>3, <3>4 DEF Own
        <4>2. SubOf(c).id <= SubOf(c).id
          BY <3>3 DEF HookInv, Fits, IdIsOwn
        <4>3. (CHOOSE s \in Hook!Concerned(c, d, m) : \A t \in Hook!Concerned(c, d, m) : t.id <= s.id)
                = SubOf(c)
          BY <4>1, <4>2
        <4>4. shown'[c] = Hook!Answer(SubOf(c), data')
          BY <1>1, <4>1, <4>3
        <4> QED
          BY <3>3, <4>4 DEF Hook!Answer
      <3>5. CASE ~(refs[c].db = d /\ refs[c].model = m)
        <4>1. Hook!Concerned(c, d, m) = {}
          BY <3>2, <3>3, <3>5 DEF Own
        <4>2. shown'[c] = shown[c] /\ c \notin overtaken
          BY <1>1, <4>1
        <4>3. shown[c] = Hook!Answer(refs[c], data)
          BY <4>2 DEF HookInv, Fits, ShowsLast
        <4> QED
          BY <1>3, <3>1, <3>5, <4>2, <4>3 DEF Hook!Answer
      <3> QED
        BY <3>4, <3>5
    <2> QED
      BY <2>1, <2>2, <2>3 DEF Fits
  <1> QED
    BY <1>4, <1>5, <1>6 DEF HookInv

LEMMA HookStutters ==
  ASSUME HookInv, UNCHANGED Hook!vars
  PROVE  HookInv'
  <1> USE DEF Hook!vars
  <1>1. HookTypes' /\ IdsFit'
    BY DEF HookInv, HookTypes, IdsFit
  <1>2. ASSUME NEW c \in Components PROVE Fits(c)'
    <2>1. Fits(c)
      BY DEF HookInv
    <2>2. IdIsOwn(c)'
      BY <2>1 DEF Fits, IdIsOwn
    <2>3. HoldsOne(c)'
      BY <2>1 DEF Fits, HoldsOne, Mine, Own, SubOf, Hook!Mounted
    <2>4. ShowsLast(c)'
      BY <2>1 DEF Fits, ShowsLast, Hook!Answer, Hook!Awaits
    <2> QED
      BY <2>2, <2>3, <2>4 DEF Fits
  <1> QED
    BY <1>1, <1>2 DEF HookInv

LEMMA HookStep ==
  ASSUME Hook!Apart, HookInv, [Hook!Next]_(Hook!vars)
  PROVE  HookInv'
  <1>1. CASE \E c \in Components : \E i \in Hook!Inputs : Hook!Mount(c, i) \/ Hook!Render(c, i)
    BY <1>1, RenderKeeps
  <1>2. CASE \E c \in Components : Hook!Unmount(c)
    BY <1>2, UnmountKeeps
  <1>3. CASE \E c \in Components : \E k \in DOMAIN reads[c] : Hook!Deliver(c, k)
    BY <1>3, DeliverKeeps
  <1>4. CASE \E d \in Databases, m \in Models : Hook!Write(d, m)
    BY <1>4, WriteKeeps
  <1>5. CASE UNCHANGED Hook!vars
    BY <1>5, HookStutters
  <1> QED
    BY <1>1, <1>2, <1>3, <1>4, <1>5 DEF Hook!Next

LEMMA HookInvShows == HookInv /\ Hook!FollowsRender => ShowsQuery
  <1> SUFFICES ASSUME HookInv, Hook!FollowsRender PROVE ShowsQuery
    OBVIOUS
  <1>1. ASSUME NEW c \in Components, Hook!Mounted(c), c \notin crossed
        PROVE  UNION {{<<d, s.id>> : s \in {s \in subs[d] : s.by = c}} : d \in Databases}
                 = IF refs[c].sub = Hook!NoSub THEN {} ELSE {<<refs[c].db, refs[c].sub>>}
    <2> DEFINE Of(d) == {<<d, s.id>> : s \in {s \in subs[d] : s.by = c}}
    <2>1. ASSUME NEW d \in Databases
          PROVE  Of(d) = IF refs[c].sub # Hook!NoSub /\ d = refs[c].db THEN {<<d, refs[c].sub>>} ELSE {}
      <3>1. Of(d) = {<<d, s.id>> : s \in Mine(c, d)}
        BY DEF Mine
      <3>2. Mine(c, d) = Own(c, d)
        BY <1>1 DEF HookInv, Fits, HoldsOne
      <3>3. SubOf(c).id = refs[c].sub
        BY DEF SubOf
      <3> HIDE DEF Of
      <3> QED
        BY <3>1, <3>2, <3>3 DEF Own
    <2>2. refs[c].sub # Hook!NoSub => refs[c].db \in Databases
      BY DEF HookInv, Fits, IdIsOwn
    <2> HIDE DEF Of
    <2>3. UNION {Of(d) : d \in Databases}
            = IF refs[c].sub = Hook!NoSub THEN {} ELSE {<<refs[c].db, refs[c].sub>>}
      BY <2>1, <2>2
    <2> QED
      BY <2>3 DEF Of
  <1>2. \A c \in Components :
          refs[c].sub # Hook!NoSub /\ c \notin crossed \cup overtaken /\ ~Hook!Awaits(c) =>
            shown[c] = Hook!Answer(refs[c], data)
    BY DEF HookInv, Fits, ShowsLast
  <1> QED
    BY <1>1, <1>2 DEF ShowsQuery, Hook!ShowsQuery, Hook!OneSubscription

\* A render leaves a component with what it asks for.
LEMMA RenderFollows ==
  ASSUME Hook!Apart, HookInv, Hook!FollowsRender, NEW c \in Components, NEW i \in Hook!Inputs,
         Hook!Mount(c, i) \/ Hook!Render(c, i)
  PROVE  Hook!FollowsRender'
  <1> DEFINE Asks(e, r) ==
        /\ r.db = e.db /\ r.query = e.query
        /\ r.sub # Hook!NoSub <=> e.db # Hook!None /\ e.query # Hook!None
  <1>1. /\ input'[c] = i /\ \A e \in Components \ {c} : input'[e] = input[e]
        /\ DOMAIN refs = Components
    BY DEF Hook!Mount, Hook!Render, HookInv, HookTypes
  <1>2. ASSUME NEW r, r.db = Hook!None => r.sub = Hook!NoSub, Hook!Effect(c, i, r),
               ~Hook!Same(i, r) \/ i.db = Hook!None \/ i.query = Hook!None
        PROVE  Asks(i, refs'[c]) /\ \A e \in Components \ {c} : refs'[e] = refs[e]
    <2>1. CASE i.db = Hook!None \/ i.query = Hook!None
      <3>1. refs' = [refs EXCEPT ![c] =
              Hook!Held(i, IF r.db # Hook!None /\ r.sub # Hook!NoSub THEN Hook!NoSub ELSE r.sub)]
        BY <1>2, <2>1 DEF Hook!Effect, Hook!Clear
      <3> QED
        BY <1>1, <1>2, <2>1, <3>1 DEF Hook!Held
    <2>2. CASE ~(i.db = Hook!None \/ i.query = Hook!None)
      <3>1. refs' = [refs EXCEPT ![c] = Hook!Held(i, nextId[i.db])]
        BY <1>2, <2>2 DEF Hook!Effect, Hook!Subscribe
      <3>2. nextId[i.db] \in Nat
        BY <2>2 DEF HookInv, HookTypes, Hook!Inputs
      <3> QED
        BY <1>1, <2>2, <3>1, <3>2 DEF Hook!Held, Hook!NoSub
    <2> QED
      BY <2>1, <2>2
  <1>3. Asks(i, refs'[c]) /\ \A e \in Components \ {c} : refs'[e] = refs[e]
    <2>1. CASE Hook!Mount(c, i)
      <3>1. /\ Hook!Held(i, Hook!NoSub).sub = Hook!NoSub
            /\ ~Hook!Same(i, Hook!Held(i, Hook!NoSub))
        BY DEF Hook!Same, Hook!Held
      <3> QED
        BY <1>2, <2>1, <3>1 DEF Hook!Mount
    <2>2. CASE Hook!Render(c, i) /\ Hook!Effect(c, i, refs[c])
      <3>1. refs[c].db = Hook!None => refs[c].sub = Hook!NoSub
        BY DEF HookInv, Fits, IdIsOwn, Hook!Apart
      <3>2. CASE i.db # Hook!None /\ i.query # Hook!None /\ Hook!Same(i, refs[c])
        BY <2>2, <3>2 DEF Hook!Effect, Hook!Same
      <3> QED
        BY <1>2, <2>2, <3>1, <3>2
    <2>3. CASE /\ Hook!Render(c, i) /\ i.db = input[c].db /\ i.query = input[c].query
               /\ refs' = refs
      BY <2>3 DEF Hook!Render, Hook!FollowsRender
    <2> QED
      BY <2>1, <2>2, <2>3 DEF Hook!Render
  <1>4. ASSUME NEW e \in Components, Hook!Mounted(e)' PROVE Asks(input'[e], refs'[e])
    <2>1. CASE e = c
      BY <1>1, <1>3, <2>1
    <2>2. CASE e # c
      BY <1>1, <1>3, <1>4, <2>2 DEF Hook!FollowsRender, Hook!Mounted
    <2> QED
      BY <2>1, <2>2
  <1> QED
    BY <1>4 DEF Hook!FollowsRender

LEMMA FollowsStep ==
  ASSUME Hook!Apart, HookInv, Hook!FollowsRender, [Hook!Next]_(Hook!vars)
  PROVE  Hook!FollowsRender'
  <1>1. CASE \E c \in Components : \E i \in Hook!Inputs : Hook!Mount(c, i) \/ Hook!Render(c, i)
    BY <1>1, RenderFollows
  <1>2. CASE \E c \in Components : Hook!Unmount(c)
    <2>1. PICK c \in Components : Hook!Unmount(c)
      BY <1>2
    <2>2. /\ ~Hook!Mounted(c)'
          /\ \A e \in Components \ {c} : input'[e] = input[e] /\ refs'[e] = refs[e]
      BY <2>1 DEF Hook!Unmount, Hook!Mounted, HookInv, HookTypes
    <2> QED
      BY <2>2 DEF Hook!FollowsRender, Hook!Mounted
  <1>3. CASE UNCHANGED <<input, refs>>
    BY <1>3 DEF Hook!FollowsRender, Hook!Mounted
  <1> QED
    BY <1>1, <1>2, <1>3 DEF Hook!Next, Hook!Deliver, Hook!Write, Hook!vars

\* ShowsQuery (useLiveQuery.ts:19-61): with any number of databases and first
\* results in any order, a component that no replacement of a database crossed has
\* the one subscription that its last render asks for; and from its first result on
\* it shows its query as the database has it now, but where an answer to an earlier
\* query overtook it, and there again from the next write that concerns it.
THEOREM HookShowsQuery == ASSUME Hook!Apart PROVE Hook!Spec => []ShowsQuery
  <1>1. Hook!Init => Hook!FollowsRender
    BY DEF Hook!Init, Hook!FollowsRender, Hook!Mounted
  <1>2. HookInv /\ Hook!FollowsRender /\ [Hook!Next]_(Hook!vars) => HookInv' /\ Hook!FollowsRender'
    BY HookStep, FollowsStep
  <1> QED
    BY <1>1, <1>2, HookInit, HookInvShows, PTL DEF Hook!Spec
=============================================================================
