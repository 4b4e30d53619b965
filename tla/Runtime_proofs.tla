--------------------------- MODULE Runtime_proofs ---------------------------
(***************************************************************************)
(* Proofs about Runtime, for every set of replicas, keys and ways to set   *)
(* them up: that executing a message again, elsewhere and later, reads and *)
(* writes what it did at its author, that nobody refuses what its author   *)
(* accepted, and that replicas with the same messages have the same        *)
(* entries.                                                                *)
(***************************************************************************)
EXTENDS Runtime, FiniteSetTheorems, WellFoundedInduction, TLAPS

-----------------------------------------------------------------------------
(* Ids and the last of some of them *)

Ids == (Nat \ {0}) \X Nat

LEMMA LessOrders ==
  /\ \A m \in Ids : ~Less(m, m)
  /\ \A m, n \in Ids : Less(m, n) => ~Less(n, m)
  /\ \A m, n \in Ids : m # n => Less(m, n) \/ Less(n, m)
  /\ \A l, m, n \in Ids : Less(l, m) /\ Less(m, n) => Less(l, n)
  BY DEF Less, Ids

\* Some ids, if they are finitely many, have a last one: of the sets without
\* one a smallest would have one after all.
LEMMA SomeLast ==
  ASSUME NEW S \in SUBSET Ids, IsFiniteSet(S), S # {}
  PROVE  \E m \in S : \A n \in S \ {m} : Less(n, m)
  <1> DEFINE Lasting(U) == \E m \in U : \A n \in U \ {m} : Less(n, m)
             Bad == {U \in FiniteSubsetsOf(Ids) : U # {} /\ ~Lasting(U)}
  <1>1. SUFFICES ASSUME Bad # {} PROVE FALSE
    BY DEF FiniteSubsetsOf
  <1>2. PICK U \in Bad : \A V \in Bad : <<V, U>> \notin StrictSubsetOrdering(Ids)
    <2>1. IsWellFoundedOn(StrictSubsetOrdering(Ids), FiniteSubsetsOf(Ids))
      BY FS_StrictSubsetOrderingWellFounded
    <2>2. Bad \subseteq FiniteSubsetsOf(Ids)
      OBVIOUS
    <2> HIDE DEF Bad
    <2> QED
      BY <1>1, <2>1, <2>2, WFMin
  <1>3. /\ U \subseteq Ids /\ IsFiniteSet(U) /\ U # {} /\ ~Lasting(U)
    BY DEF FiniteSubsetsOf
  <1>4. PICK x \in U : TRUE
    BY <1>3
  <1> DEFINE V == U \ {x}
  <1>5. IsFiniteSet(V) /\ V \subseteq Ids /\ V # U
    BY <1>3, <1>4, FS_RemoveElement
  <1>6. V # {}
    BY <1>3, <1>4
  <1>7. Lasting(V)
    <2>1. <<V, U>> \in StrictSubsetOrdering(Ids)
      BY <1>3, <1>5 DEF StrictSubsetOrdering
    <2>2. V \notin Bad
      BY <1>2, <2>1
    <2> QED
      BY <1>5, <1>6, <2>2 DEF FiniteSubsetsOf
  <1>8. PICK m \in V : \A n \in V \ {m} : Less(n, m)
    BY <1>7
  <1>9. Lasting(U)
    <2>1. CASE Less(x, m)
      <3>1. \A n \in U \ {m} : Less(n, m)
        BY <1>8, <2>1
      <3> QED
        BY <1>8, <3>1
    <2>2. CASE Less(m, x)
      <3>1. \A n \in U \ {x} : Less(n, x)
        <4> SUFFICES ASSUME NEW n \in U \ {x} PROVE Less(n, x)
          OBVIOUS
        <4>1. n \in Ids /\ m \in Ids /\ x \in Ids
          BY <1>3, <1>4, <1>8
        <4>2. n = m \/ Less(n, m)
          BY <1>8
        <4> QED
          BY <2>2, <4>1, <4>2, LessOrders
      <3> QED
        BY <1>4, <3>1
    <2> QED
      BY <1>3, <1>4, <1>8, <2>1, <2>2, LessOrders
  <1> QED
    BY <1>3, <1>9

LEMMA LatestIs ==
  ASSUME NEW S \in SUBSET Ids, IsFiniteSet(S), S # {}
  PROVE  /\ Latest(S) \in S
         /\ \A n \in S : n = Latest(S) \/ Less(n, Latest(S))
         /\ \A n \in S : ~Less(Latest(S), n)
  <1>1. Latest(S) = CHOOSE m \in S : \A n \in S \ {m} : Less(n, m)
    BY DEF Latest
  <1>2. Latest(S) \in S /\ \A n \in S \ {Latest(S)} : Less(n, Latest(S))
    BY <1>1, SomeLast
  <1> QED
    BY <1>2, LessOrders

LEMMA LatestNone == Latest({}) = Nothing
  BY DEF Latest

\* Nothing is no id: it is the last of no messages, and of no others.
LEMMA NothingIsNoId == Nothing \notin Ids /\ Nothing[1] = 0
  BY DEF Nothing, Ids

LEMMA LatestType ==
  ASSUME NEW S \in SUBSET Ids, IsFiniteSet(S)
  PROVE  /\ Latest(S) \in S \cup {Nothing}
         /\ Latest(S) = Nothing <=> S = {}
         /\ Latest(S)[1] \in Nat
         /\ \A n \in S : n[1] <= Latest(S)[1]
  <1>1. CASE S = {}
    BY <1>1, LatestNone, NothingIsNoId
  <1>2. CASE S # {}
    <2>1. Latest(S) \in S /\ \A n \in S : n = Latest(S) \/ Less(n, Latest(S))
      BY <1>2, LatestIs
    <2>2. Latest(S) \in Ids /\ Latest(S) # Nothing
      BY <2>1, NothingIsNoId
    <2>3. \A n \in S : n \in Ids /\ n[1] <= Latest(S)[1]
      BY <2>1, <2>2 DEF Less, Ids
    <2> QED
      BY <1>2, <2>1, <2>2, <2>3 DEF Ids
  <1> QED
    BY <1>1, <1>2

\* The last of some messages is the only one that no other follows.
LEMMA LatestUnique ==
  ASSUME NEW S \in SUBSET Ids, IsFiniteSet(S), NEW m \in S, \A n \in S : ~Less(m, n)
  PROVE  Latest(S) = m
  <1>1. Latest(S) \in S /\ (m = Latest(S) \/ Less(m, Latest(S)))
    BY LatestIs
  <1> QED
    BY <1>1

\* One more message is the last, unless another follows it: what Superseded
\* decides.
LEMMA LatestAdd ==
  ASSUME NEW S \in SUBSET Ids, IsFiniteSet(S), NEW m \in Ids
  PROVE  /\ IsFiniteSet(S \cup {m}) /\ S \cup {m} \in SUBSET Ids
         /\ Latest(S \cup {m}) = IF \E n \in S : Less(m, n) THEN Latest(S) ELSE m
         /\ (\E n \in S : Less(m, n)) <=> S # {} /\ Less(m, Latest(S))
  <1> DEFINE T == S \cup {m}
  <1>1. IsFiniteSet(T) /\ T \in SUBSET Ids
    BY FS_AddElement
  <1>2. ASSUME NEW n \in S, Less(m, n)
        PROVE  Less(m, Latest(S)) /\ Latest(T) = Latest(S)
    <2>1. Latest(S) \in S /\ \A l \in S : l = Latest(S) \/ Less(l, Latest(S))
      BY LatestIs
    <2>2. Latest(S) \in Ids /\ n \in Ids
      BY <2>1
    <2>3. Less(m, Latest(S))
      BY <1>2, <2>1, <2>2, LessOrders
    <2>4. \A l \in T : ~Less(Latest(S), l)
      BY <2>2, <2>3, LessOrders, LatestIs
    <2> QED
      BY <1>1, <2>1, <2>3, <2>4, LatestUnique
  <1>3. ASSUME \A n \in S : ~Less(m, n) PROVE Latest(T) = m
    <2>1. \A n \in T : ~Less(m, n)
      BY <1>3, LessOrders
    <2> QED
      BY <1>1, <2>1, LatestUnique
  <1>4. ASSUME S # {}, Less(m, Latest(S)) PROVE \E n \in S : Less(m, n)
    BY <1>4, LatestIs
  <1> QED
    BY <1>1, <1>2, <1>3, <1>4

-----------------------------------------------------------------------------
(* The inductive invariant *)

Values == {"set", "delete"}

\* The variables have their types; the messages signed are finitely many.
TypeOK ==
  /\ config \in Configs
  /\ Signed \subseteq Ids /\ IsFiniteSet(Signed)
  /\ action \in [Signed -> Actions]
  /\ past \in [Signed -> SUBSET Signed]
  /\ log \in [Replicas -> SUBSET Signed]
  /\ effects \in [Replicas -> SUBSET [key : Keys, id : Signed, value : Values]]
  /\ versions \in [Replicas -> [Keys -> Signed \cup {Nothing}]]
  /\ model \in [Replicas -> [Keys -> Signed \cup {Nothing}]]
  /\ results \subseteq [id : Signed, found : Signed \cup {Nothing}, value : Values]

\* Those of some messages that act on a key.
On(P, k) == {n \in P : action[n].key = k}

\* What the last message on a key among P did to it, whoever executed it.
Sees(P, k, found, value) ==
  /\ found = Latest(On(P, k))
  /\ IF found = Nothing THEN value = "none"
     ELSE \E x \in results : x.id = found /\ x.value = value

\* What an action does is determined by its ancestors: it does not depend on the
\* replica.
Outcome(a, P, found, value) ==
  IF a.op # "toggle" THEN found = Nothing /\ value = a.op
  ELSE /\ config.indexHistory /\ config.indexAncestors
       /\ \/ Sees(P, a.key, found, "none") /\ value = "set"
          \/ Sees(P, a.key, found, "set") /\ value = "delete"

Faithful(x) == Outcome(action[x.id], past[x.id], x.found, x.value)

Executed(n) == \E x \in results : x.id = n

\* $effects has what was done, and all that the log has the messages of.
Kept(r) ==
  /\ \A e \in effects[r] :
       e.key = action[e.id].key /\ \E x \in results : x.id = e.id /\ x.value = e.value
  /\ \A n \in log[r] : \E e \in effects[r] : e.id = n

\* Without lost transactions $effects has no more than that, $versions has the
\* last message on a key, and the model what that message left there.
DidSet(n) == \E x \in results : x.id = n /\ x.value = "set"

Exact(r) ==
  /\ config.indexHistory => \A e \in effects[r] : e.id \in log[r]
  /\ \A k \in Keys :
       LET last == Latest(On(log[r], k))
       IN /\ ~config.indexHistory => versions[r][k] = last
          /\ model[r][k] = IF DidSet(last) THEN last ELSE Nothing

RuntimeInv ==
  /\ TypeOK
  /\ \A n \in Signed : Executed(n)
  /\ \A x \in results : Faithful(x)
  /\ ExecutionAgrees
  /\ config.indexHistory => \A r \in Replicas : Kept(r)
  /\ ~config.aborts => \A r \in Replicas : Exact(r)

-----------------------------------------------------------------------------
(* What an action reads and does *)

LEMMA OnType ==
  ASSUME TypeOK, NEW P \in SUBSET Signed, NEW k
  PROVE  On(P, k) \in SUBSET Ids /\ IsFiniteSet(On(P, k)) /\ On(P, k) \subseteq P
  <1>1. On(P, k) \subseteq P /\ P \subseteq Signed
    BY DEF On
  <1>2. IsFiniteSet(Signed) /\ Signed \subseteq Ids
    BY DEF TypeOK
  <1> QED
    BY <1>1, <1>2, FS_Subset

LEMMA SeesUnique ==
  ASSUME ExecutionAgrees, NEW P, NEW k, NEW f, NEW v, NEW g, NEW w,
         Sees(P, k, f, v), Sees(P, k, g, w)
  PROVE  f = g /\ v = w
  BY DEF Sees, ExecutionAgrees

LEMMA OutcomeUnique ==
  ASSUME ExecutionAgrees, NEW a, NEW P, NEW f, NEW v, NEW g, NEW w,
         Outcome(a, P, f, v), Outcome(a, P, g, w)
  PROVE  f = g /\ v = w
  <1>1. CASE a.op # "toggle"
    BY <1>1 DEF Outcome
  <1>2. CASE a.op = "toggle"
    <2>1. PICK x \in {"none", "set"} :
            Sees(P, a.key, f, x) /\ v = IF x = "none" THEN "set" ELSE "delete"
      BY <1>2 DEF Outcome
    <2>2. PICK y \in {"none", "set"} :
            Sees(P, a.key, g, y) /\ w = IF y = "none" THEN "set" ELSE "delete"
      BY <1>2 DEF Outcome
    <2>3. f = g /\ x = y
      BY <2>1, <2>2, SeesUnique
    <2> QED
      BY <2>1, <2>2, <2>3
  <1> QED
    BY <1>1, <1>2

\* Reading $effects below a message finds what the last of its ancestors did,
\* also where later and lost messages have left effects.
LEMMA ReadSees ==
  ASSUME RuntimeInv, config.indexHistory, NEW r \in Replicas, NEW k \in Keys,
         NEW P \in SUBSET log[r]
  PROVE  LET read == GetModelValue(r, k, P) IN Sees(P, k, read.found, read.value)
  <1> DEFINE ids == {e.id : e \in EffectsOf(r, k)} \cap P
             last == Latest(ids)
             read == GetModelValue(r, k, P)
  <1>1. Kept(r) /\ log[r] \subseteq Signed
    BY DEF RuntimeInv, TypeOK
  <1>2. ids = On(P, k)
    <2>1. ASSUME NEW n \in ids PROVE n \in On(P, k)
      BY <1>1 DEF EffectsOf, On, Kept
    <2>2. ASSUME NEW n \in On(P, k) PROVE n \in ids
      <3>1. PICK e \in effects[r] : e.id = n
        BY <1>1 DEF On, Kept
      <3>2. e.key = k
        BY <1>1, <3>1 DEF On, Kept
      <3> QED
        BY <3>1, <3>2 DEF EffectsOf, On
    <2> QED
      BY <2>1, <2>2
  <1>3. last \in ids \cup {Nothing}
    BY <1>1, <1>2, OnType, LatestType DEF RuntimeInv
  <1>4. CASE last = Nothing
    <2>1. read.found = last /\ read.value = "none"
      BY <1>4 DEF GetModelValue
    <2> QED
      BY <1>2, <1>4, <2>1 DEF Sees
  <1>5. CASE last # Nothing
    <2> DEFINE e == CHOOSE e \in EffectsOf(r, k) : e.id = last
    <2>1. e \in EffectsOf(r, k) /\ e.id = last
      BY <1>3, <1>5
    <2>2. \E x \in results : x.id = e.id /\ x.value = e.value
      BY <1>1, <2>1 DEF Kept, EffectsOf
    <2>3. read.found = last /\ read.value = e.value
      BY <1>5 DEF GetModelValue
    <2> QED
      BY <1>2, <1>5, <2>1, <2>2, <2>3 DEF Sees
  <1> QED
    BY <1>4, <1>5

\* An action that is executed above ancestors that the replica has, and does not
\* throw, does what it does everywhere.
LEMMA ExecuteOutcome ==
  ASSUME RuntimeInv, NEW r \in Replicas, NEW a \in Actions, NEW P \in SUBSET Signed,
         config.indexAncestors => P \subseteq log[r], ~GetThrows(r, a, P)
  PROVE  LET did == Execute(r, a, P)
         IN /\ Outcome(a, P, did.found, did.value)
            /\ did.found \in Signed \cup {Nothing} /\ did.value \in Values
  <1> DEFINE did == Execute(r, a, P)
             read == GetModelValue(r, a.key, P)
  <1>1. a.op \in Ops /\ a.key \in Keys
    BY DEF Actions
  <1>2. CASE a.op # "toggle"
    BY <1>1, <1>2 DEF Execute, Outcome, Ops, Values
  <1>3. CASE a.op = "toggle"
    <2>1. config.indexHistory /\ config.indexAncestors /\ read.value # "delete"
      BY <1>3 DEF GetThrows
    <2>2. Sees(P, a.key, read.found, read.value)
      BY <1>1, <2>1, ReadSees
    <2>3. /\ did.found = read.found
          /\ did.value = IF read.value = "none" THEN "set" ELSE "delete"
      BY <1>3 DEF Execute
    <2>4. read.found \in Signed \cup {Nothing}
      <3>1. On(P, a.key) \in SUBSET Ids /\ IsFiniteSet(On(P, a.key)) /\ On(P, a.key) \subseteq P
        BY OnType DEF RuntimeInv
      <3> QED
        BY <2>2, <3>1, LatestType DEF Sees
    <2>5. read.value \in {"none", "set"}
      <3>1. \A x \in results : x.value \in Values
        BY DEF RuntimeInv, TypeOK
      <3> QED
        BY <2>1, <2>2, <3>1 DEF Sees, Values
    <2>6. /\ Outcome(a, P, did.found, did.value)
          /\ did.found \in Signed \cup {Nothing} /\ did.value \in Values
      <3> HIDE DEF read, did
      <3> QED
        BY <1>3, <2>1, <2>2, <2>3, <2>4, <2>5 DEF Outcome, Values
    <2> QED
      BY <2>6
  <1> QED
    BY <1>2, <1>3

-----------------------------------------------------------------------------
(* What calling an action and applying a message of another have in common *)

\* The payload and the ancestors of a message are recorded when it is signed and
\* stay what they are.
Recorded(m, a, P) ==
  /\ m \in Ids /\ a \in Actions /\ P \in SUBSET Signed
  /\ m \in Signed => a = action[m] /\ P = past[m]
  /\ action' = [n \in Signed \cup {m} |-> IF n = m THEN a ELSE action[n]]
  /\ past' = [n \in Signed \cup {m} |-> IF n = m THEN P ELSE past[n]]
  /\ UNCHANGED config

\* A replica executes a message above ancestors that it has.
Applied(r, m, a, P) ==
  /\ Recorded(m, a, P)
  /\ config.indexAncestors => P \subseteq log[r]
  /\ Consume(r, m, a, P)
  /\ CommitOrAbort(r, m)

Result(r, m, a, P) ==
  [id |-> m, found |-> Execute(r, a, P).found, value |-> Execute(r, a, P).value]

LEMMA SignedGrows ==
  ASSUME TypeOK, NEW m, NEW a, NEW P, Recorded(m, a, P)
  PROVE  /\ Signed' = Signed \cup {m} /\ IsFiniteSet(Signed') /\ Signed' \subseteq Ids
         /\ action' \in [Signed' -> Actions] /\ past' \in [Signed' -> SUBSET Signed']
         /\ action'[m] = a /\ past'[m] = P
         /\ \A n \in Signed : action'[n] = action[n] /\ past'[n] = past[n]
  <1>1. DOMAIN action' = Signed \cup {m}
    BY DEF Recorded
  <1>2. Signed' = Signed \cup {m}
    BY <1>1 DEF Signed
  <1>3. IsFiniteSet(Signed') /\ Signed' \subseteq Ids
    BY <1>2, FS_AddElement DEF TypeOK, Recorded
  <1> QED
    BY <1>2, <1>3 DEF TypeOK, Recorded

LEMMA OnGrows ==
  ASSUME TypeOK, NEW m, NEW a, NEW P, Recorded(m, a, P), NEW Q \in SUBSET Signed, NEW k
  PROVE  On(Q, k)' = On(Q, k)
  BY SignedGrows DEF On

\* What actions did is not changed by messages that come after them.
LEMMA OutcomeKept ==
  ASSUME TypeOK, NEW m, NEW a, NEW P, Recorded(m, a, P), results \subseteq results',
         NEW Q \in SUBSET Signed, NEW b, NEW f, NEW v, Outcome(b, Q, f, v)
  PROVE  Outcome(b, Q, f, v)'
  <1>1. ASSUME NEW k, NEW w, Sees(Q, k, f, w) PROVE Sees(Q, k, f, w)'
    <2>1. On(Q, k)' = On(Q, k)
      BY OnGrows
    <2>2. Latest(On(Q, k)') = Latest(On(Q, k))
      BY <2>1
    <2> QED
      BY <1>1, <2>2 DEF Sees
  <1>2. config' = config
    BY DEF Recorded
  <1>3. CASE b.op # "toggle"
    BY <1>3 DEF Outcome
  <1>4. CASE b.op = "toggle"
    BY <1>1, <1>2, <1>4 DEF Outcome
  <1> QED
    BY <1>3, <1>4

\* Whoever executes a message adds to what was seen of it nothing that was not
\* seen before.
LEMMA AppliedResults ==
  ASSUME RuntimeInv, NEW r \in Replicas, NEW m, NEW a, NEW P, Applied(r, m, a, P)
  PROVE  /\ results' = results \cup {Result(r, m, a, P)}
         /\ Result(r, m, a, P) \in [id : Signed', found : Signed' \cup {Nothing}, value : Values]
         /\ \A n \in Signed' : Executed(n)'
         /\ \A x \in results' : Faithful(x)'
         /\ ExecutionAgrees'
  <1> DEFINE did == Execute(r, a, P)
             x == Result(r, m, a, P)
  <1>r. Recorded(m, a, P) /\ P \subseteq Signed /\ a \in Actions /\ m \in Ids
    BY DEF Applied, Recorded
  <1>s. /\ Signed' = Signed \cup {m} /\ action'[m] = a /\ past'[m] = P
        /\ \A n \in Signed : action'[n] = action[n] /\ past'[n] = past[n]
    BY <1>r, SignedGrows DEF RuntimeInv
  <1>1. Outcome(a, P, did.found, did.value) /\ did.found \in Signed \cup {Nothing}
        /\ did.value \in Values
    BY <1>r, ExecuteOutcome DEF Applied, Consume
  <1>2. results' = results \cup {x}
    BY DEF Applied, Consume, Result
  <1>3. x.id = m /\ x.found = did.found /\ x.value = did.value
    BY DEF Result
  <1>4. x \in [id : Signed', found : Signed' \cup {Nothing}, value : Values]
    BY <1>s, <1>1 DEF Result
  <1>t. results \subseteq [id : Signed, found : Signed \cup {Nothing}, value : Values]
    BY DEF RuntimeInv, TypeOK
  <1> HIDE DEF did, x
  <1>5. \A n \in Signed' : Executed(n)'
    BY <1>s, <1>2, <1>3 DEF RuntimeInv, Executed
  <1>6. ASSUME NEW y \in results' PROVE Faithful(y)'
    <2>1. CASE y = x
      <3>1. y.id = m /\ Outcome(a, P, y.found, y.value)
        BY <1>1, <1>3, <2>1
      <3>2. Outcome(a, P, y.found, y.value)'
        BY <1>r, <1>2, <3>1, OutcomeKept DEF RuntimeInv
      <3> QED
        BY <1>s, <3>1, <3>2 DEF Faithful
    <2>2. CASE y \in results
      <3>1. y.id \in Signed /\ past[y.id] \subseteq Signed /\ Faithful(y)
        BY <1>t, <2>2 DEF RuntimeInv, TypeOK
      <3> DEFINE b == action[y.id]
                 Q == past[y.id]
      <3>2. Outcome(b, Q, y.found, y.value)
        BY <3>1 DEF Faithful
      <3>3. action'[y.id] = action[y.id] /\ past'[y.id] = past[y.id]
        BY <1>s, <3>1
      <3> QED
        BY <1>r, <1>2, <3>1, <3>2, <3>3, OutcomeKept DEF RuntimeInv, Faithful
    <2> QED
      BY <1>2, <2>1, <2>2
  <1>7. ExecutionAgrees'
    <2>1. ASSUME NEW y \in results, y.id = m PROVE y = x
      <3>1. m \in Signed
        BY <1>t, <2>1
      <3>2. a = action[m] /\ P = past[m] /\ Faithful(y)
        BY <1>r, <3>1 DEF RuntimeInv, Recorded
      <3>3. Outcome(a, P, y.found, y.value)
        BY <2>1, <3>2 DEF Faithful
      <3>4. y.found = did.found /\ y.value = did.value
        BY <1>1, <3>3, OutcomeUnique DEF RuntimeInv
      <3>5. /\ y \in [id : Signed', found : Signed' \cup {Nothing}, value : Values]
            /\ x \in [id : Signed', found : Signed' \cup {Nothing}, value : Values]
        BY <1>s, <1>t, <1>4
      <3> QED
        BY <1>3, <2>1, <3>4, <3>5
    <2>2. \A y, z \in results : y.id = z.id => y = z
      BY DEF RuntimeInv, ExecutionAgrees
    <2>3. \A y, z \in results' : y.id = z.id => y = z
      BY <1>2, <1>3, <2>1, <2>2
    <2> QED
      BY <2>3 DEF ExecutionAgrees
  <1> QED
    BY <1>2, <1>4, <1>5, <1>6, <1>7 DEF x

LEMMA AppliedTypes ==
  ASSUME RuntimeInv, NEW r \in Replicas, NEW m, NEW a, NEW P, Applied(r, m, a, P)
  PROVE  TypeOK'
  <1> DEFINE did == Execute(r, a, P)
  <1>r. Recorded(m, a, P) /\ TypeOK /\ a.key \in Keys
    BY DEF Applied, Recorded, RuntimeInv, Actions
  <1>s. /\ Signed' = Signed \cup {m} /\ IsFiniteSet(Signed') /\ Signed' \subseteq Ids
        /\ action' \in [Signed' -> Actions] /\ past' \in [Signed' -> SUBSET Signed']
    BY <1>r, SignedGrows
  <1>1. /\ results' = results \cup {Result(r, m, a, P)}
        /\ Result(r, m, a, P) \in [id : Signed', found : Signed' \cup {Nothing}, value : Values]
    BY AppliedResults
  <1>2. did.value \in Values
    BY <1>1 DEF Result
  <1>3. results' \subseteq [id : Signed', found : Signed' \cup {Nothing}, value : Values]
    BY <1>r, <1>s, <1>1 DEF TypeOK
  <1>4. log' \in [Replicas -> SUBSET Signed']
    BY <1>r, <1>s DEF TypeOK, Applied, CommitOrAbort
  <1> HIDE DEF did
  <1>5. effects' \in [Replicas -> SUBSET [key : Keys, id : Signed', value : Values]]
    <2>1. \/ effects' = effects
          \/ effects' = [effects EXCEPT ![r] = @ \cup {[key |-> a.key, id |-> m, value |-> did.value]}]
      BY DEF Applied, Consume, did
    <2>2. [key |-> a.key, id |-> m, value |-> did.value] \in [key : Keys, id : Signed', value : Values]
      BY <1>r, <1>s, <1>2
    <2>3. effects \in [Replicas -> SUBSET [key : Keys, id : Signed', value : Values]]
      BY <1>r, <1>s DEF TypeOK
    <2> QED
      BY <2>1, <2>2, <2>3
  <1>6. versions' \in [Replicas -> [Keys -> Signed' \cup {Nothing}]]
    BY <1>r, <1>s DEF TypeOK, Applied, Consume
  <1>7. model' \in [Replicas -> [Keys -> Signed' \cup {Nothing}]]
    <2>1. model \in [Replicas -> [Keys -> Signed' \cup {Nothing}]]
      BY <1>r, <1>s DEF TypeOK
    <2>2. ASSUME NEW v \in Signed' \cup {Nothing}
          PROVE  [model EXCEPT ![r][a.key] = v] \in [Replicas -> [Keys -> Signed' \cup {Nothing}]]
      BY <1>r, <2>1
    <2>3. /\ m \in Signed'
          /\ \/ model' = model
             \/ model' = [model EXCEPT ![r][a.key] = m]
             \/ model' = [model EXCEPT ![r][a.key] = Nothing]
      BY <1>s DEF Applied, Consume, Write
    <2> QED
      BY <2>1, <2>2, <2>3
  <1> QED
    BY <1>r, <1>s, <1>3, <1>4, <1>5, <1>6, <1>7 DEF TypeOK, Recorded

LEMMA AppliedKept ==
  ASSUME RuntimeInv, NEW r \in Replicas, NEW m, NEW a, NEW P, Applied(r, m, a, P),
         config.indexHistory, NEW s \in Replicas
  PROVE  Kept(s)'
  <1> DEFINE did == Execute(r, a, P)
             new == [key |-> a.key, id |-> m, value |-> did.value]
  <1>r. Recorded(m, a, P) /\ TypeOK /\ Kept(s)
    BY DEF Applied, RuntimeInv
  <1>s. /\ Signed' = Signed \cup {m} /\ action'[m] = a
        /\ \A n \in Signed : action'[n] = action[n]
    BY <1>r, SignedGrows
  <1>1. results' = results \cup {Result(r, m, a, P)}
    BY AppliedResults
  <1>2. Result(r, m, a, P).id = m /\ Result(r, m, a, P).value = new.value
    BY DEF Result
  <1>3. effects' = [effects EXCEPT ![r] = @ \cup {new}]
    BY DEF Applied, Consume
  <1>4. new.key = a.key /\ new.id = m
    OBVIOUS
  <1>5. effects'[s] = IF s = r THEN effects[s] \cup {new} ELSE effects[s]
    BY <1>r, <1>3 DEF TypeOK
  <1>6. log'[s] \subseteq IF s = r THEN log[s] \cup {m} ELSE log[s]
    BY <1>r DEF TypeOK, Applied, CommitOrAbort
  <1>7. \A e \in effects[s] : e.id \in Signed
    BY <1>r DEF TypeOK
  <1> HIDE DEF did, new
  <1>8. ASSUME NEW e \in effects'[s]
        PROVE  e.key = action'[e.id].key /\ \E x \in results' : x.id = e.id /\ x.value = e.value
    <2>1. CASE e \in effects[s]
      BY <1>r, <1>s, <1>1, <1>7, <2>1 DEF Kept
    <2>2. CASE e = new
      BY <1>s, <1>1, <1>2, <1>4, <2>2
    <2> QED
      BY <1>5, <2>1, <2>2
  <1>9. \A n \in log'[s] : \E e \in effects'[s] : e.id = n
    BY <1>r, <1>4, <1>5, <1>6 DEF Kept
  <1> QED
    BY <1>8, <1>9 DEF Kept

\* Superseded finds out whether a later message of the log is on the key.
LEMMA SupersededIs ==
  ASSUME RuntimeInv, ~config.aborts, NEW r \in Replicas, NEW k \in Keys, NEW m \in Ids
  PROVE  Superseded(r, m, k) <=> \E n \in On(log[r], k) : Less(m, n)
  <1>1. Exact(r) /\ (config.indexHistory => Kept(r))
    BY DEF RuntimeInv
  <1>2. CASE config.indexHistory
    <2>1. \A e \in EffectsOf(r, k) : e.id \in On(log[r], k)
      BY <1>1, <1>2 DEF EffectsOf, On, Kept, Exact
    <2>2. \A n \in On(log[r], k) : \E e \in EffectsOf(r, k) : e.id = n
      BY <1>1, <1>2 DEF EffectsOf, On, Kept
    <2> QED
      BY <1>2, <2>1, <2>2 DEF Superseded
  <1>3. CASE ~config.indexHistory
    <2> DEFINE S == On(log[r], k)
    <2>1. versions[r][k] = Latest(S)
      BY <1>1, <1>3 DEF Exact
    <2>2. log[r] \subseteq Signed
      BY DEF RuntimeInv, TypeOK
    <2>3. S \in SUBSET Ids /\ IsFiniteSet(S)
      BY <2>2, OnType DEF RuntimeInv
    <2>4. /\ Latest(S) = Nothing <=> S = {}
          /\ (\E n \in S : Less(m, n)) <=> S # {} /\ Less(m, Latest(S))
      BY <2>3, LatestType, LatestAdd
    <2> HIDE DEF S
    <2>5. Superseded(r, m, k) <=> \E n \in S : Less(m, n)
      BY <1>3, <2>1, <2>4 DEF Superseded
    <2> QED
      BY <2>5 DEF S
  <1> QED
    BY <1>2, <1>3

LEMMA AppliedOn ==
  ASSUME RuntimeInv, ~config.aborts, NEW r \in Replicas, NEW m, NEW a, NEW P,
         Applied(r, m, a, P), NEW s \in Replicas, NEW k
  PROVE  {n \in log'[s] : action'[n].key = k} =
           IF s = r /\ k = a.key THEN On(log[s], k) \cup {m} ELSE On(log[s], k)
  <1>r. Recorded(m, a, P) /\ TypeOK
    BY DEF Applied, RuntimeInv
  <1>1. /\ action'[m] = a /\ \A n \in Signed : action'[n] = action[n]
        /\ m \in Signed => a = action[m]
    BY <1>r, SignedGrows DEF Recorded
  <1>2. log'[s] = (IF s = r THEN log[s] \cup {m} ELSE log[s]) /\ log[s] \subseteq Signed
    BY <1>r DEF TypeOK, Applied, CommitOrAbort
  <1> QED
    BY <1>1, <1>2 DEF On

\* Executing a message again does not change what is known of others or of it.
LEMMA AppliedDid ==
  ASSUME RuntimeInv, NEW r \in Replicas, NEW m, NEW a, NEW P, Applied(r, m, a, P)
  PROVE  /\ \A n \in Signed \cup {Nothing} : DidSet(n)' <=> DidSet(n)
         /\ DidSet(m)' <=> Execute(r, a, P).value = "set"
         /\ ~DidSet(Nothing)
  <1> DEFINE x == Result(r, m, a, P)
  <1>1. /\ results' = results \cup {x} /\ ExecutionAgrees'
        /\ \A n \in Signed : Executed(n)
    BY AppliedResults DEF RuntimeInv
  <1>2. x.id = m /\ x.value = Execute(r, a, P).value
    BY DEF Result
  <1>3. m # Nothing /\ Nothing \notin Signed
    BY NothingIsNoId DEF RuntimeInv, TypeOK, Applied, Recorded
  <1>t. \A y \in results : y.id \in Signed
    BY DEF RuntimeInv, TypeOK
  <1> HIDE DEF x
  <1>4. ASSUME NEW n \in Signed PROVE DidSet(n)' <=> DidSet(n)
    <2>1. PICK y \in results : y.id = n
      BY <1>1 DEF Executed
    <2>2. \A z \in results' : z.id = n => z = y
      BY <1>1, <2>1 DEF ExecutionAgrees
    <2> QED
      BY <1>1, <2>1, <2>2 DEF DidSet
  <1>5. ~DidSet(Nothing) /\ ~DidSet(Nothing)'
    BY <1>1, <1>2, <1>3, <1>t DEF DidSet, Nothing
  <1>6. DidSet(m)' <=> x.value = "set"
    BY <1>1, <1>2 DEF DidSet, ExecutionAgrees
  <1> QED
    BY <1>2, <1>4, <1>5, <1>6 DEF Nothing

LEMMA AppliedExact ==
  ASSUME RuntimeInv, NEW r \in Replicas, NEW m, NEW a, NEW P, Applied(r, m, a, P),
         ~config.aborts, NEW s \in Replicas
  PROVE  Exact(s)'
  <1>r. /\ Recorded(m, a, P) /\ TypeOK /\ Exact(s) /\ m \in Ids /\ a.key \in Keys
        /\ config' = config /\ log[s] \subseteq Signed
    BY DEF Applied, Recorded, RuntimeInv, TypeOK, Actions
  <1>l. log' = [log EXCEPT ![r] = @ \cup {m}]
    BY DEF Applied, CommitOrAbort
  <1>1. ASSUME config.indexHistory, NEW e \in effects'[s] PROVE e.id \in log'[s]
    <2>1. effects' = [effects EXCEPT ![r] = @ \cup
                       {[key |-> a.key, id |-> m, value |-> Execute(r, a, P).value]}]
      BY <1>1 DEF Applied, Consume
    <2>2. e \in effects[s] \/ (s = r /\ e.id = m)
      BY <1>r, <1>1, <2>1 DEF TypeOK
    <2> QED
      BY <1>r, <1>l, <1>1, <2>2 DEF TypeOK, Exact
  <1>2. ASSUME NEW k \in Keys, NEW last, last = Latest({n \in log'[s] : action'[n].key = k})
        PROVE  /\ ~config.indexHistory => versions'[s][k] = last
               /\ model'[s][k] = IF DidSet(last)' THEN last ELSE Nothing
    <2> DEFINE S == On(log[s], k)
               T == {n \in log'[s] : action'[n].key = k}
    <2>1. S \in SUBSET Ids /\ IsFiniteSet(S) /\ S \subseteq Signed
      BY <1>r, OnType
    <2>2. T = IF s = r /\ k = a.key THEN S \cup {m} ELSE S
      BY <1>r, AppliedOn
    <2> HIDE DEF T
    <2>3. PICK before : before = Latest(S)
      OBVIOUS
    <2>4. /\ ~config.indexHistory => versions[s][k] = before
          /\ model[s][k] = IF DidSet(before) THEN before ELSE Nothing
      BY <1>r, <2>3 DEF Exact
    <2>5. DidSet(before)' <=> DidSet(before)
      <3>1. before \in Signed \cup {Nothing}
        BY <2>1, <2>3, LatestType
      <3> QED
        BY <3>1, AppliedDid
    <2>6. last = Latest(T)
      BY <1>2 DEF T
    <2>7. ASSUME s # r \/ k # a.key \/ Superseded(r, m, a.key)
          PROVE  /\ ~config.indexHistory => versions'[s][k] = versions[s][k]
                 /\ model'[s][k] = model[s][k]
                 /\ last = before
      <3>1. last = before
        <4>1. CASE s # r \/ k # a.key
          BY <2>2, <2>3, <2>6, <4>1
        <4>2. CASE s = r /\ k = a.key /\ Superseded(r, m, a.key)
          <5>1. \E n \in S : Less(m, n)
            BY <1>r, <4>2, SupersededIs
          <5> HIDE DEF S
          <5> QED
            BY <1>r, <2>1, <2>2, <2>3, <2>6, <4>2, <5>1, LatestAdd
        <4> QED
          BY <2>7, <4>1, <4>2
      <3>2. /\ versions' = versions \/ versions' = [versions EXCEPT ![r][a.key] = m]
            /\ Superseded(r, m, a.key) => versions' = versions
        BY DEF Applied, Consume
      <3>3. \/ model' = model
            \/ /\ ~Superseded(r, m, a.key)
               /\ \/ model' = [model EXCEPT ![r][a.key] = m]
                  \/ model' = [model EXCEPT ![r][a.key] = Nothing]
        BY DEF Applied, Consume, Write
      <3>4. versions'[s][k] = versions[s][k]
        BY <1>r, <2>7, <3>2 DEF TypeOK
      <3>5. model'[s][k] = model[s][k]
        BY <1>r, <2>7, <3>3 DEF TypeOK
      <3> QED
        BY <3>1, <3>4, <3>5
    <2>8. ASSUME s = r, k = a.key, ~Superseded(r, m, a.key)
          PROVE  /\ ~config.indexHistory => versions'[s][k] = m
                 /\ model'[s][k] = IF DidSet(m)' THEN m ELSE Nothing
                 /\ last = m
      <3>1. last = m
        <4>1. ~\E n \in S : Less(m, n)
          BY <1>r, <2>8, SupersededIs
        <4> HIDE DEF S
        <4> QED
          BY <1>r, <2>1, <2>2, <2>6, <2>8, <4>1, LatestAdd
      <3>2. ~config.indexHistory => versions' = [versions EXCEPT ![r][a.key] = m]
        BY <2>8 DEF Applied, Consume
      <3>3. PICK v : /\ v = IF Execute(r, a, P).value = "set" THEN m ELSE Nothing
                     /\ model' = [model EXCEPT ![r][a.key] = v]
        BY <2>8 DEF Applied, Consume, Write
      <3>4. v = IF DidSet(m)' THEN m ELSE Nothing
        BY <3>3, AppliedDid
      <3>5. model'[s][k] = v /\ (~config.indexHistory => versions'[s][k] = m)
        BY <1>r, <2>8, <3>2, <3>3 DEF TypeOK
      <3> QED
        BY <3>1, <3>4, <3>5
    <2> QED
      BY <2>4, <2>5, <2>7, <2>8
  <1>3. ASSUME NEW k \in Keys
        PROVE  (LET last == Latest(On(log[s], k))
                IN /\ ~config.indexHistory => versions[s][k] = last
                   /\ model[s][k] = IF DidSet(last) THEN last ELSE Nothing)'
    <2>1. PICK last : last = Latest({n \in log'[s] : action'[n].key = k})
      OBVIOUS
    <2>2. Latest(On(log[s], k))' = last
      BY <2>1 DEF On
    <2>3. config' = config
      BY <1>r
    <2> QED
      BY <1>2, <2>1, <2>2, <2>3 DEF DidSet
  <1> QED
    BY <1>r, <1>1, <1>3 DEF Exact

-----------------------------------------------------------------------------
(* The theorems *)

LEMMA AppliedStep ==
  ASSUME RuntimeInv, NEW r \in Replicas, NEW m, NEW a, NEW P, Applied(r, m, a, P)
  PROVE  RuntimeInv'
  <1>1. config' = config
    BY DEF Applied, Recorded
  <1>2. TypeOK'
    BY AppliedTypes
  <1>3. (\A n \in Signed : Executed(n))' /\ (\A x \in results : Faithful(x))' /\ ExecutionAgrees'
    BY AppliedResults
  <1>4. config.indexHistory => \A s \in Replicas : Kept(s)'
    BY AppliedKept
  <1>5. ~config.aborts => \A s \in Replicas : Exact(s)'
    BY AppliedExact
  <1> QED
    BY <1>1, <1>2, <1>3, <1>4, <1>5 DEF RuntimeInv

LEMMA InitRuntime == Init => RuntimeInv
  <1> SUFFICES ASSUME Init PROVE RuntimeInv
    OBVIOUS
  <1>1. Signed = {} /\ action = <<>> /\ past = <<>> /\ results = {}
    BY DEF Init, Signed
  <1>2. TypeOK
    <2>1. DOMAIN action = {} /\ DOMAIN past = {}
      BY <1>1
    <2>2. action \in [Signed -> Actions] /\ past \in [Signed -> SUBSET Signed]
      BY <1>1, <2>1
    <2>3. Signed \subseteq Ids /\ IsFiniteSet(Signed)
      BY <1>1, FS_EmptySet
    <2> QED
      BY <1>1, <2>2, <2>3 DEF Init, TypeOK
  <1>3. \A r \in Replicas : Kept(r)
    BY DEF Init, Kept
  <1>4. ASSUME NEW r \in Replicas PROVE Exact(r)
    <2>1. log[r] = {} /\ effects[r] = {}
      BY DEF Init
    <2>2. \A k \in Keys : On(log[r], k) = {} /\ versions[r][k] = Nothing /\ model[r][k] = Nothing
      BY <2>1 DEF Init, On
    <2>3. Latest({}) = Nothing
      BY LatestNone
    <2> QED
      BY <2>1, <2>2, <2>3 DEF Exact
  <1> QED
    BY <1>1, <1>2, <1>3, <1>4 DEF RuntimeInv, ExecutionAgrees

LEMMA RuntimeStep == RuntimeInv /\ [Next]_vars => RuntimeInv'
  <1> SUFFICES ASSUME RuntimeInv, [Next]_vars PROVE RuntimeInv'
    OBVIOUS
  <1>t. TypeOK
    BY DEF RuntimeInv
  <1>1. ASSUME NEW r \in Replicas, NEW tie \in Ties, NEW a \in Actions, Act(r, tie, a)
        PROVE  RuntimeInv'
    <2> DEFINE m == <<NextClock(r), tie>>
    <2>1. log[r] \in SUBSET Ids /\ IsFiniteSet(log[r]) /\ log[r] \subseteq Signed
      BY <1>t, FS_Subset DEF TypeOK
    <2>2. m \in Ids
      BY <2>1, LatestType, ConstantsAssumption DEF NextClock, Ids
    <2>3. Recorded(m, a, log[r])
      BY <1>1, <2>1, <2>2 DEF Act, Recorded
    <2>4. Applied(r, m, a, log[r])
      BY <1>1, <2>3 DEF Act, Applied
    <2> HIDE DEF m
    <2>5. PICK n, P : n = m /\ P = log[r]
      OBVIOUS
    <2>6. Applied(r, n, a, P)
      BY <2>4, <2>5
    <2> QED
      BY <2>6, AppliedStep
  <1>2. ASSUME NEW r \in Replicas, NEW m \in Signed, Insert(r, m)
        PROVE  RuntimeInv'
    <2>1. PICK a, P : a = action[m] /\ P = past[m]
      OBVIOUS
    <2>2. Recorded(m, a, P)
      <3>1. m \in Ids /\ a \in Actions /\ P \in SUBSET Signed
        BY <1>t, <2>1 DEF TypeOK
      <3>2. Signed \cup {m} = Signed
        OBVIOUS
      <3>3. action = [n \in Signed \cup {m} |-> IF n = m THEN a ELSE action[n]]
        BY <1>t, <2>1, <3>2 DEF TypeOK
      <3>4. past = [n \in Signed \cup {m} |-> IF n = m THEN P ELSE past[n]]
        BY <1>t, <2>1, <3>2 DEF TypeOK
      <3> QED
        BY <1>2, <2>1, <3>1, <3>3, <3>4 DEF Insert, Recorded
    <2>3. Applied(r, m, a, P)
      BY <1>2, <2>1, <2>2 DEF Insert, Applied
    <2> QED
      BY <2>3, AppliedStep
  <1>3. ASSUME UNCHANGED vars PROVE RuntimeInv'
    <2>u. /\ config' = config /\ action' = action /\ past' = past /\ log' = log
          /\ effects' = effects /\ versions' = versions /\ model' = model /\ results' = results
          /\ Signed' = Signed
      BY <1>3 DEF vars, Signed
    <2>1. TypeOK'
      BY <1>t, <2>u DEF TypeOK
    <2>2. \A n \in Signed : Executed(n)'
      BY <2>u DEF RuntimeInv, Executed
    <2>3. \A P, k, f, v : Sees(P, k, f, v) => Sees(P, k, f, v)'
      BY <2>u DEF Sees, On
    <2>4. \A x \in results : Faithful(x)'
      BY <2>u, <2>3 DEF RuntimeInv, Faithful, Outcome
    <2>5. ExecutionAgrees'
      BY <2>u DEF RuntimeInv, ExecutionAgrees
    <2>6. config.indexHistory => \A r \in Replicas : Kept(r)'
      BY <2>u DEF RuntimeInv, Kept
    <2>7. ~config.aborts => \A r \in Replicas : Exact(r)'
      BY <2>u DEF RuntimeInv, Exact, On, DidSet
    <2> QED
      BY <2>u, <2>1, <2>2, <2>4, <2>5, <2>6, <2>7 DEF RuntimeInv
  <1> QED
    BY <1>1, <1>2, <1>3 DEF Next

LEMMA RuntimeInvariant == Spec => []RuntimeInv
  BY InitRuntime, RuntimeStep, PTL DEF Spec

\* The variables of the runtime have their types, and the messages that were
\* signed are finitely many.
THEOREM RuntimeTypes == Spec => []TypeOK
  <1>1. RuntimeInv => TypeOK
    BY DEF RuntimeInv
  <1> QED
    BY <1>1, RuntimeInvariant, PTL

\* A message reads and writes the same at its author, elsewhere and again, also
\* where a lost transaction left effects behind.
THEOREM AlwaysAgrees == Spec => []ExecutionAgrees
  <1>1. RuntimeInv => ExecutionAgrees
    BY DEF RuntimeInv
  <1> QED
    BY <1>1, RuntimeInvariant, PTL

\* No replica that has the ancestors of a message refuses what its author accepted.
THEOREM NeverRefused == Spec => []AcceptedByAll
  <1>1. RuntimeInv => AcceptedByAll
    <2> SUFFICES ASSUME RuntimeInv, NEW r \in Replicas, NEW s \in Replicas, NEW m \in log[s],
                        past[m] \subseteq log[r], action[m].op = "toggle"
                 PROVE  ~GetThrows(r, action[m], past[m])
      BY DEF AcceptedByAll, GetThrows
    <2> DEFINE key == action[m].key
               read == GetModelValue(r, key, past[m])
    <2>1. m \in Signed /\ key \in Keys
      BY DEF RuntimeInv, TypeOK, Actions
    <2>2. PICK x \in results : x.id = m /\ Faithful(x)
      BY <2>1 DEF RuntimeInv, Executed
    <2>3. /\ config.indexHistory /\ config.indexAncestors
          /\ \E v \in {"none", "set"} : Sees(past[m], key, x.found, v)
      BY <2>2 DEF Faithful, Outcome
    <2>4. Sees(past[m], key, read.found, read.value)
      BY <2>1, <2>3, ReadSees
    <2>5. read.value # "delete"
      BY <2>3, <2>4, SeesUnique DEF RuntimeInv
    <2> QED
      BY <2>3, <2>5 DEF GetThrows
  <1> QED
    BY <1>1, RuntimeInvariant, PTL

\* Replicas that have the same messages have the same entries, those that the
\* log says, in every order and however often messages are applied.
THEOREM AlwaysConverges == Spec => []Convergence
  <1>1. RuntimeInv => Convergence
    <2> SUFFICES ASSUME RuntimeInv, ~config.aborts PROVE Convergence
      BY DEF Convergence
    <2>t. TypeOK /\ \A n \in Signed : Executed(n)
      BY DEF RuntimeInv
    <2>1. ASSUME NEW r \in Replicas, NEW k \in Keys
          PROVE  LET written == {x \in results : x.id \in log[r] /\ action[x.id].key = k}
                     last == Latest({x.id : x \in written})
                 IN model[r][k] =
                      IF \E x \in written : x.id = last /\ x.value = "set" THEN last ELSE Nothing
      <3> DEFINE written == {x \in results : x.id \in log[r] /\ action[x.id].key = k}
                 ids == {x.id : x \in written}
                 last == Latest(ids)
      <3>1. log[r] \subseteq Signed
        BY <2>t DEF TypeOK
      <3>2. ids = On(log[r], k)
        BY <2>t, <3>1 DEF On, Executed
      <3>3. last = Latest(On(log[r], k)) /\ last \in On(log[r], k) \cup {Nothing}
        <4>1. On(log[r], k) \in SUBSET Ids /\ IsFiniteSet(On(log[r], k))
          BY <2>t, <3>1, OnType
        <4> HIDE DEF ids
        <4> QED
          BY <3>2, <4>1, LatestType
      <3>4. model[r][k] = IF DidSet(last) THEN last ELSE Nothing
        BY <3>3 DEF RuntimeInv, Exact
      <3>5. DidSet(last) <=> \E x \in written : x.id = last /\ x.value = "set"
        <4>1. \A x \in results : x.id \in Ids
          BY <2>t DEF TypeOK
        <4>2. \A x \in results : x.id = last => x \in written
          BY <3>3, <4>1, NothingIsNoId DEF On
        <4> HIDE DEF last
        <4> QED
          BY <4>2 DEF DidSet
      <3> QED
        BY <3>4, <3>5
    <2>2. ModelsMatchLog
      BY <2>1 DEF ModelsMatchLog
    <2>3. ASSUME NEW r \in Replicas, NEW s \in Replicas, log[r] = log[s]
          PROVE  model[r] = model[s]
      <3>1. \A k \in Keys : model[r][k] = model[s][k]
        BY <2>3 DEF RuntimeInv, Exact
      <3>2. model[r] \in [Keys -> Signed \cup {Nothing}] /\ model[s] \in [Keys -> Signed \cup {Nothing}]
        BY <2>t DEF TypeOK
      <3> QED
        BY <3>1, <3>2
    <2> QED
      BY <2>2, <2>3 DEF Convergence
  <1> QED
    BY <1>1, RuntimeInvariant, PTL

=============================================================================
