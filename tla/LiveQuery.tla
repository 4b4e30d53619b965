------------------------------ MODULE LiveQuery -------------------------------
(***************************************************************************)
(* The React hook useLiveQuery (packages/modeldb/src/idb/useLiveQuery.ts    *)
(* and packages/hooks/src/useLiveQuery.ts) over the subscriptions of         *)
(* AbstractModelDB.ts, in components that are rendered with a database that *)
(* may come, go and change, and with other models and queries.             *)
(*                                                                         *)
(* A render and the effect after it are one step.  First results come in    *)
(* any order.  IndexedDB starts a write after the reads requested before,   *)
(* so a first result is what the database holds when it is delivered.       *)
(* Every write to a model concerns every query of it: what filters and      *)
(* aborted writes do is in ModelDB.                                         *)
(***************************************************************************)
EXTENDS Integers, Sequences, FiniteSets, Functions

CONSTANTS
  Components, Databases, Models,
  Queries,      \* None among them where a query may be null
  MaxSubs,      \* bound: calls of subscribe
  MaxWrites     \* bound: writes to each database

VARIABLES
  input,   \* the arguments of the last render, or Unmounted
  refs,    \* dbRef, modelRef, queryRef and subscriptionRef
  shown,   \* results
  subs,    \* subscriptions of each database
  nextId,  \* #subscriptionId of each database
  reads,   \* the first results each component waits for, as refs was when it asked
  data,    \* how often each model has been written
  overtaken, \* history: who shows an answer that came after it asked for another
  crossed    \* history: whose database was replaced by another with no null between,
             \* and whose subscription such a replacement ended

vars == <<input, refs, shown, subs, nextId, reads, data, overtaken, crossed>>

None == "none"
NoSub == -1
NoAnswer == [db |-> None]
Unmounted == [db |-> None, model |-> None, query |-> None]
Inputs == [db : Databases \cup {None}, model : Models, query : Queries]
Gone == [db |-> None, model |-> None, query |-> None, sub |-> NoSub]

Mounted(c) == input[c] # Unmounted

\* Nothing else is called "none".
Apart == None \notin Components \cup Databases \cup Models

\* What a query finds in the data.
Answer(q, d) == [db |-> q.db, model |-> q.model, query |-> q.query, data |-> d[q.db][q.model]]

-----------------------------------------------------------------------------
Init ==
  /\ input = [c \in Components |-> Unmounted]
  /\ refs = [c \in Components |-> Gone]
  /\ shown = [c \in Components |-> NoAnswer]
  /\ subs = [d \in Databases |-> {}] /\ nextId = [d \in Databases |-> 0]
  /\ reads = [c \in Components |-> <<>>]
  /\ data = [d \in Databases |-> [m \in Models |-> 0]]
  /\ overtaken = {} /\ crossed = {}

\* unsubscribe, of whatever has that id in this database
Without(d, id) == {s \in subs[d] : s.id # id}

Held(i, sub) == [db |-> i.db, model |-> i.model, query |-> i.query, sub |-> sub]

\* Nothing to show: end the subscription in the database it was made in.
Clear(c, i, r) ==
  LET ends == r.db # None /\ r.sub # NoSub
  IN /\ subs' = IF ends THEN [subs EXCEPT ![r.db] = Without(r.db, r.sub)] ELSE subs
     /\ shown' = IF ends THEN [shown EXCEPT ![c] = NoAnswer] ELSE shown
     /\ refs' = [refs EXCEPT ![c] = Held(i, IF ends THEN NoSub ELSE r.sub)]
     /\ UNCHANGED <<nextId, reads, overtaken, crossed>>

\* Whom a component crosses that asks a new database to end what it has in another.
Crosses(c, i, r) ==
  IF r.db = None \/ r.sub = NoSub \/ r.db = i.db THEN {}
  ELSE {c} \cup {e \in Components : \E s \in subs[i.db] : s.by = e /\ s.id = r.sub}

\* Mutant: the query is not asked at first.
SubscribeSilently(c, i, r) ==
  /\ FoldFunction(+, 0, nextId) < MaxSubs /\ nextId' = [nextId EXCEPT ![i.db] = @ + 1]
  /\ subs' = [subs EXCEPT ![i.db] =
       (IF r.db # None /\ r.sub # NoSub THEN Without(i.db, r.sub) ELSE @)
         \cup {[id |-> nextId[i.db], by |-> c, db |-> i.db, model |-> i.model, query |-> i.query]}]
  /\ refs' = [refs EXCEPT ![c] = Held(i, nextId[i.db])]
  /\ crossed' = crossed \cup Crosses(c, i, r)
  /\ UNCHANGED <<shown, reads, overtaken>>

\* The previous subscription is ended, in the database at hand.
Subscribe(c, i, r) ==
  /\ FoldFunction(+, 0, nextId) < MaxSubs /\ nextId' = [nextId EXCEPT ![i.db] = @ + 1]
  /\ subs' = [subs EXCEPT ![i.db] =
       (IF r.db # None /\ r.sub # NoSub THEN Without(i.db, r.sub) ELSE @)
         \cup {[id |-> nextId[i.db], by |-> c, db |-> i.db, model |-> i.model, query |-> i.query]}]
  /\ refs' = [refs EXCEPT ![c] = Held(i, nextId[i.db])]
  /\ reads' = [reads EXCEPT ![c] = Append(@, Held(i, nextId[i.db]))]
  /\ crossed' = crossed \cup Crosses(c, i, r)
  /\ UNCHANGED <<shown, overtaken>>

Same(i, r) == r.db = i.db /\ r.model = i.model /\ r.query = i.query /\ r.sub # NoSub

Effect(c, i, r) ==
  IF i.db = None \/ i.query = None THEN Clear(c, i, r)
  ELSE IF Same(i, r) THEN UNCHANGED <<refs, shown, subs, nextId, reads, overtaken, crossed>>
  ELSE Subscribe(c, i, r)

\* The refs of a new component are what it is first rendered with.
Mount(c, i) ==
  /\ ~Mounted(c)
  /\ input' = [input EXCEPT ![c] = i]
  /\ Effect(c, i, Held(i, NoSub))
  /\ UNCHANGED data

\* The effect runs if the database or the query is another object than before,
\* and an equal query may be one.
Render(c, i) ==
  /\ Mounted(c)
  /\ input' = [input EXCEPT ![c] = i]
  /\ \/ Effect(c, i, refs[c])
     \/ i.db = input[c].db /\ i.query = input[c].query
        /\ UNCHANGED <<refs, shown, subs, nextId, reads, overtaken, crossed>>
  /\ UNCHANGED data

\* There is no clean-up.  State set from now on is lost.
Unmount(c) ==
  /\ Mounted(c)
  /\ input' = [input EXCEPT ![c] = Unmounted]
  /\ refs' = [refs EXCEPT ![c] = Gone]
  /\ shown' = [shown EXCEPT ![c] = NoAnswer]
  /\ reads' = [reads EXCEPT ![c] = <<>>]
  /\ subs' = [d \in Databases |->
       {IF s.by = c THEN [s EXCEPT !.by = None] ELSE s : s \in subs[d]}]
  /\ overtaken' = overtaken \ {c} /\ crossed' = crossed \ {c}
  /\ UNCHANGED <<nextId, data>>

\* A first result comes, whatever was asked for since.
Deliver(c, k) ==
  /\ shown' = [shown EXCEPT ![c] = Answer(reads[c][k], data)]
  /\ reads' = [reads EXCEPT ![c] = SubSeq(@, 1, k - 1) \o SubSeq(@, k + 1, Len(@))]
  /\ overtaken' = IF reads[c][k] = refs[c] THEN overtaken \ {c} ELSE overtaken \cup {c}
  /\ UNCHANGED <<input, refs, subs, nextId, data, crossed>>

\* The subscriptions of a component that a write to a model concerns.
Concerned(c, d, m) == {s \in subs[d] : s.by = c /\ s.model = m}

\* apply: each subscription in turn, the later of one component last.
Write(d, m) ==
  /\ data[d][m] < MaxWrites
  /\ data' = [data EXCEPT ![d][m] = @ + 1]
  /\ shown' = [c \in Components |->
       IF Concerned(c, d, m) = {} THEN shown[c]
       ELSE Answer(CHOOSE s \in Concerned(c, d, m) : \A t \in Concerned(c, d, m) : t.id <= s.id,
                   data')]
  /\ overtaken' = {c \in overtaken : Concerned(c, d, m) = {}}
  /\ UNCHANGED <<input, refs, subs, nextId, reads, crossed>>

Next ==
  \/ \E c \in Components :
       \/ \E i \in Inputs : Mount(c, i) \/ Render(c, i)
       \/ Unmount(c) \/ \E k \in DOMAIN reads[c] : Deliver(c, k)
  \/ \E d \in Databases, m \in Models : Write(d, m)

Spec == Init /\ [][Next]_vars

-----------------------------------------------------------------------------
(* Properties *)

\* A component is subscribed just when it was last rendered with a database and a
\* query, and then to these.
FollowsRender ==
  \A c \in Components : Mounted(c) =>
    /\ refs[c].db = input[c].db /\ refs[c].query = input[c].query
    /\ refs[c].sub # NoSub <=> input[c].db # None /\ input[c].query # None

\* "Unsubscribe from the cached database handle, if necessary"
\* (useLiveQuery.ts:23): the only subscription a mounted component has, in any
\* database, is the one it holds.  Except who was crossed: the handle it is ended
\* with is that of the new database (53).
OneSubscription ==
  \A c \in Components : Mounted(c) /\ c \notin crossed =>
    UNION {{<<d, s.id>> : s \in {s \in subs[d] : s.by = c}} : d \in Databases}
      = IF refs[c].sub = NoSub THEN {} ELSE {<<refs[c].db, refs[c].sub>>}

\* The first result of what a component holds is still to come.
Awaits(c) == \E k \in DOMAIN reads[c] : reads[c][k] = refs[c]

\* ShowsQuery.  "maintains a live-updated frontend query" (hooks/README.md:33):
\* a component has the one subscription that its last render asks for, and from
\* its first result on it shows its query as the database has it now, whatever is
\* unmounted, cleared and asked meanwhile, and in whatever order answers come.
\* Except who was crossed; and, until the next write that concerns it, who got an
\* answer to an earlier query after it had asked for this one (56).
ShowsQuery ==
  /\ FollowsRender /\ OneSubscription
  /\ \A c \in Components : refs[c].sub # NoSub /\ c \notin crossed \cup overtaken /\ ~Awaits(c) =>
       shown[c] = Answer(refs[c], data)

=============================================================================
