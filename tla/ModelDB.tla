------------------------------- MODULE ModelDB --------------------------------
(***************************************************************************)
(* A table of packages/modeldb and the live queries over it, in the two     *)
(* backends, SQLite and IndexedDB.                                         *)
(*                                                                         *)
(* A record has a property of each kind: id, the primary key; n, an         *)
(* optional primitive; ref, an optional reference; members, a relation.     *)
(* Keys and values are numbers.  Null is 0: it sorts before the others in   *)
(* both backends.  A where clause is a sequence of [property, expression],  *)
(* in the order of its entries, and an expression a sequence of             *)
(* [op, value], with one element but for ranges.  Left out: select, and the *)
(* types of primitives.                                                    *)
(***************************************************************************)
EXTENDS Integers, SequencesExt

CONSTANTS
  Backends,      \* "sqlite", "idb"
  Indexes,       \* the sets of properties that may be indexed
  Batches,       \* the arguments of apply
  Queries,       \* the queries asked of each state
  LiveQueries,   \* those that may be subscribed to
  MaxBatches,    \* bound: calls of apply
  MaxSubscriptions  \* bound: calls of subscribe

VARIABLES
  setup,          \* the backend, and which properties are indexed
  store,          \* rows; in SQLite the relation's table, too
  txn,            \* IndexedDB: the write transaction under way
  subscriptions,
  batches,        \* how many were applied
  subscribed      \* #subscriptionId

vars == <<setup, store, txn, subscriptions, batches, subscribed>>

\* Records, and the effects on them.
Rows == [id : Nat, n : Nat, ref : Nat, members : Seq(Nat)]
Effects ==
  [operation : {"set"}, value : Rows] \cup [operation : {"delete"}, key : Nat]
    \cup [operation : {"invalid"}]

ASSUME BatchesAssumption == Batches \subseteq Seq(Effects)

Null == 0
None == [effects |-> <<>>]
Error == <<[error |-> TRUE]>>
Sqlite == setup.backend = "sqlite"
Optional(property) == property \in {"n", "ref"}

-----------------------------------------------------------------------------
(* The records of a store *)

\* The relation's rows, by their source: its targets in the order of their rows.
RelationGet(relation, key) == IF key \in DOMAIN relation THEN relation[key] ELSE <<>>

\* get and values of the SQLite table; IndexedDB keeps a record in one object.
Record(s, row) ==
  IF Sqlite
    THEN [id |-> row.id, n |-> row.n, ref |-> row.ref, members |-> RelationGet(s.relation, row.id)]
    ELSE row

Records(s) == {Record(s, s.rows[i]) : i \in DOMAIN s.rows}

-----------------------------------------------------------------------------
(* What a query asks for *)

Included(targets, list) == \A i \in DOMAIN targets : Contains(list, targets[i])
Excluded(targets, list) == \A i \in DOMAIN targets : ~Contains(list, targets[i])

\* The filters of query.ts, which the subscriptions and IndexedDB use.
Passes(property, term, value) ==
  IF property = "members"
    THEN IF term.op = "eq" THEN Included(term.value, value) ELSE Excluded(term.value, value)
  ELSE CASE term.op = "eq" -> value = term.value
         [] term.op = "neq" -> value # term.value
         [] term.op = "gt" -> value > term.value
         [] term.op = "gte" -> value >= term.value
         [] term.op = "lt" -> value < term.value
         [] term.op = "lte" -> value <= term.value

Satisfies(where, record, Test(_, _, _)) ==
  \A i \in DOMAIN where : \A j \in DOMAIN where[i].expression :
    Test(where[i].property, where[i].expression[j], record[where[i].property])

Filter(where, record) == Satisfies(where, record, Passes)

Ahead(orderBy, a, b) ==
  LET x == a[orderBy.property]
      y == b[orderBy.property]
  IN IF orderBy.direction = "asc" THEN x < y ELSE x > y

SortedBy(list, Before(_, _)) ==
  LET at == SetToSortSeq(DOMAIN list,
              LAMBDA i, j : \/ Before(list[i], list[j])
                            \/ ~Before(list[j], list[i]) /\ i < j)
  IN [i \in DOMAIN list |-> list[at[i]]]

\* Ordered if that was asked for; both engines' sorts leave ties as they were.
Sorted(q, list) ==
  IF q.orderBy.property = "none" THEN list
  ELSE SortedBy(list, LAMBDA a, b : Ahead(q.orderBy, a, b))

Cut(list, offset, limit) ==
  SubSeq(list, offset + 1, IF offset + limit < Len(list) THEN offset + limit ELSE Len(list))

-----------------------------------------------------------------------------
(* Queries in SQLite *)

\* Mutant: a null value is not below the upper bound of a range.
HoldsUnlessNull(property, term, value) ==
  IF property = "members" THEN Passes(property, term, value)
  ELSE value # Null /\ Passes(property, term, value)

\* The conditions of getWhereExpression, as SQL takes them: a comparison with
\* NULL does not hold.
Holds(property, term, value) ==
  IF property = "members" \/ term.op = "eq" THEN Passes(property, term, value)
  ELSE IF term.value = Null
    THEN CASE term.op \in {"neq", "gt"} -> value # Null
           [] term.op \in {"gte", "lte"} -> TRUE
           [] term.op = "lt" -> FALSE
  ELSE IF term.op \in {"lt", "lte"} \/ (term.op = "neq" /\ property = "n")
    THEN value = Null \/ Passes(property, term, value)
  ELSE value # Null /\ Passes(property, term, value)

\* OFFSET is written as a second LIMIT, whose parameter is not given.
SqliteQuery(s, q) ==
  LET all == [i \in DOMAIN s.rows |-> Record(s, s.rows[i])]
      found == SelectSeq(all, LAMBDA record : Satisfies(q.where, record, Holds))
  IN IF q.offset # 0 THEN Error ELSE Cut(Sorted(q, found), 0, q.limit)

-----------------------------------------------------------------------------
(* Queries in IndexedDB *)

\* encodePropertyValue, as a key: an array sorts after all else, the empty one
\* first.
Encode(property, value) == IF Optional(property) THEN <<1, value>> ELSE <<0, value>>

KeyLess(a, b) == a[1] < b[1] \/ (a[1] = b[1] /\ a[2] < b[2])

\* IDBKeyRange: null, not in an array, is not a key, and the bounds must be in
\* order.
NoKey == <<0, Null>>
Unbounded == [error |-> FALSE]
Above(key, open) == [error |-> key = NoKey, lower |-> key, lowerOpen |-> open]
Below(key, open) == [error |-> key = NoKey, upper |-> key, upperOpen |-> open]
Between(lower, lowerOpen, upper, upperOpen) ==
  [error |-> \/ NoKey \in {lower, upper} \/ KeyLess(upper, lower)
             \/ upper = lower /\ (lowerOpen \/ upperOpen),
   lower |-> lower, lowerOpen |-> lowerOpen, upper |-> upper, upperOpen |-> upperOpen]

Within(range, key) ==
  /\ "lower" \in DOMAIN range =>
       KeyLess(range.lower, key) \/ (~range.lowerOpen /\ range.lower = key)
  /\ "upper" \in DOMAIN range =>
       KeyLess(key, range.upper) \/ (~range.upperOpen /\ range.upper = key)

\* getRange: lte gives no bound, which leaves it to the filter; the value of an
\* lt is not encoded where there is a lower bound, too.
RangeOf(property, expression) ==
  LET has(op) == \E i \in DOMAIN expression : expression[i].op = op
      of(op) == expression[CHOOSE i \in DOMAIN expression : expression[i].op = op].value
      lower == Encode(property, IF has("gt") THEN of("gt") ELSE of("gte"))
      bounded == has("gt") \/ has("gte")
  IN IF bounded /\ has("lt") THEN Between(lower, has("gt"), <<0, of("lt")>>, TRUE)
     ELSE IF bounded THEN Above(lower, has("gt"))
     ELSE IF has("lt") THEN Below(Encode(property, of("lt")), TRUE)
     ELSE Unbounded

\* queryIndex: the ranges that are walked one after the other.
RangesOf(property, expression) ==
  LET term == expression[1]
      key == Encode(property, term.value)
  IN CASE term.op = "eq" -> <<Between(key, FALSE, key, FALSE)>>
       [] term.op = "neq" ->
            (IF term.value = Null THEN <<>> ELSE <<Below(key, TRUE)>>) \o <<Above(key, TRUE)>>
       [] OTHER -> <<RangeOf(property, expression)>>

\* A cursor on an index: by the property, then by the primary key.
IndexOrder(rows, property) ==
  SortedBy(rows, LAMBDA a, b : KeyLess(Encode(property, a[property]), Encode(property, b[property])))

IndexWalk(rows, property, range) ==
  SelectSeq(IndexOrder(rows, property),
            LAMBDA row : Within(range, Encode(property, row[property])))

Matching(q, list) == SelectSeq(list, LAMBDA record : Filter(q.where, record))

\* The first entry of the where clause with an index.
FirstIndexed(q) ==
  SelectInSeq(q.where, LAMBDA entry : entry.property \in setup.indexes)

WhereQuery(s, q) ==
  LET entry == q.where[FirstIndexed(q)]
      ranges == RangesOf(entry.property, entry.expression)
      walks == [i \in DOMAIN ranges |-> IndexWalk(s.rows, entry.property, ranges[i])]
      found == Matching(q, FlattenSeq(walks))
  IN IF \E i \in DOMAIN ranges : ranges[i].error THEN Error
     ELSE Cut(Sorted(q, Cut(found, q.offset, Len(found))), 0, q.limit)

OrderQuery(s, q) ==
  LET walk == IndexOrder(s.rows, q.orderBy.property)
      directed == IF q.orderBy.direction = "asc" THEN walk ELSE Reverse(walk)
  IN Cut(Matching(q, Cut(directed, q.offset, Len(directed))), 0, q.limit)

ScanQuery(s, q) ==
  Cut(Sorted(q, Matching(q, Cut(s.rows, q.offset, Len(s.rows)))), 0, q.limit)

IdbQuery(s, q) ==
  IF FirstIndexed(q) # 0 THEN WhereQuery(s, q)
  ELSE IF q.orderBy.property \in setup.indexes THEN OrderQuery(s, q)
  ELSE ScanQuery(s, q)

Query(s, q) == IF Sqlite THEN SqliteQuery(s, q) ELSE IdbQuery(s, q)

-----------------------------------------------------------------------------
(* Effects *)

At(rows, key) == SelectInSeq(rows, LAMBDA row : row.id = key)

\* An insert or an update.  IndexedDB keeps a store in the order of its keys.
Put(rows, row) ==
  LET next == SelectInSeq(rows, LAMBDA other : row.id < other.id)
  IN IF At(rows, row.id) # 0 THEN ReplaceAt(rows, At(rows, row.id), row)
     ELSE IF Sqlite \/ next = 0 THEN Append(rows, row)
     ELSE InsertAt(rows, next, row)

Drop(rows, key) == IF At(rows, key) = 0 THEN rows ELSE RemoveAt(rows, At(rows, key))

RelationDelete(relation, key) == [source \in DOMAIN relation \ {key} |-> relation[source]]

RelationAdd(relation, key, targets) ==
  [source \in DOMAIN relation \cup {key} |->
     IF source = key THEN RelationGet(relation, key) \o targets ELSE relation[source]]

\* Mutant: what the relation held stays.
SqliteSetAdds(s, value) ==
  [rows |-> Put(s.rows, [id |-> value.id, n |-> value.n, ref |-> value.ref]),
   relation |-> RelationAdd(s.relation, value.id, value.members)]

\* set: an insert or an update; the targets of an update replace the old ones.
SqliteSet(s, value) ==
  LET kept == IF At(s.rows, value.id) # 0 THEN RelationDelete(s.relation, value.id)
              ELSE s.relation
  IN [rows |-> Put(s.rows, [id |-> value.id, n |-> value.n, ref |-> value.ref]),
      relation |-> RelationAdd(kept, value.id, value.members)]

SqliteDelete(s, key) ==
  IF At(s.rows, key) = 0 THEN s
  ELSE [rows |-> Drop(s.rows, key), relation |-> RelationDelete(s.relation, key)]

ApplyEffect(s, effect) ==
  CASE effect.operation = "set" /\ Sqlite -> SqliteSet(s, effect.value)
    [] effect.operation = "set" /\ ~Sqlite -> [s EXCEPT !.rows = Put(@, effect.value)]
    [] effect.operation = "delete" /\ Sqlite -> SqliteDelete(s, effect.key)
    [] effect.operation = "delete" /\ ~Sqlite -> [s EXCEPT !.rows = Drop(@, effect.key)]

\* The store after each of the effects.
States(s, effects) ==
  LET states[n \in 0..Len(effects)] ==
        IF n = 0 THEN s ELSE ApplyEffect(states[n - 1], effects[n])
  IN states

Invalid(effects) == \E i \in DOMAIN effects : effects[i].operation = "invalid"

\* Mutant: only the first effect of a batch is looked at.
ConcernsFirst(q, effects) ==
  effects[1].operation = "set" => Filter(q.where, effects[1].value)

\* getEffectFilter: a deletion, or a record that matches now.
Concerns(q, effects) ==
  \E i \in DOMAIN effects :
    effects[i].operation = "set" => Filter(q.where, effects[i].value)

-----------------------------------------------------------------------------
(* Steps *)

Init ==
  /\ \E backend \in Backends : \E indexes \in Indexes :
       setup = [backend |-> backend, indexes |-> indexes]
  /\ store = [rows |-> <<>>, relation |-> <<>>]
  /\ txn = None /\ subscriptions = {} /\ batches = 0 /\ subscribed = 0

Shows(sub, results) == [sub EXCEPT !.shown = results]

\* apply of SQLite: a transaction, then the callbacks, without an await.
SqliteApply(effects) ==
  /\ Sqlite /\ batches < MaxBatches /\ batches' = batches + 1
  /\ UNCHANGED <<setup, txn, subscribed>>
  /\ IF Invalid(effects) THEN UNCHANGED <<store, subscriptions>>
     ELSE /\ store' = States(store, effects)[Len(effects)]
          /\ subscriptions' =
               {IF ~Concerns(sub.query, effects) THEN sub
                ELSE [Shows(sub, Query(store, sub.query)') EXCEPT !.misled = @ \/ ~sub.read]
                  : sub \in subscriptions}

\* apply of IndexedDB: a write transaction, which waits for the reads before it.
IdbApply(effects) ==
  /\ ~Sqlite /\ txn = None /\ batches < MaxBatches /\ batches' = batches + 1
  /\ \A sub \in subscriptions : sub.read
  /\ txn' = [effects |-> effects, store |-> store, done |-> 0, notify |-> {}]
  /\ UNCHANGED <<setup, store, subscriptions, subscribed>>

\* The next effect; an invalid one aborts the transaction.
IdbEffect ==
  /\ txn # None /\ txn.done < Len(txn.effects)
  /\ LET effect == txn.effects[txn.done + 1]
         next == [txn EXCEPT !.store = ApplyEffect(@, effect), !.done = @ + 1]
     IN txn' = IF effect.operation = "invalid" THEN None
               ELSE IF next.done < Len(next.effects) THEN next
               ELSE [next EXCEPT !.notify =
                       {sub.id : sub \in {s \in subscriptions : Concerns(s.query, txn.effects)}}]
  /\ UNCHANGED <<setup, store, subscriptions, batches, subscribed>>

\* A callback, before the transaction is committed.
IdbNotify(sub) ==
  /\ txn # None /\ sub.id \in txn.notify
  /\ txn' = [txn EXCEPT !.notify = @ \ {sub.id}]
  /\ subscriptions' = (subscriptions \ {sub}) \cup {Shows(sub, Query(txn.store, sub.query))}
  /\ UNCHANGED <<setup, store, batches, subscribed>>

Notified == txn # None /\ txn.done = Len(txn.effects)
              /\ \A sub \in subscriptions : sub.id \notin txn.notify

IdbCommit ==
  /\ Notified /\ store' = txn.store /\ txn' = None
  /\ UNCHANGED <<setup, subscriptions, batches, subscribed>>

\* The commit fails, after the callbacks.
IdbAbort ==
  /\ Notified /\ txn' = None
  /\ subscriptions' =
       {[sub EXCEPT !.misled = @ \/ Concerns(sub.query, txn.effects)] : sub \in subscriptions}
  /\ UNCHANGED <<setup, store, batches, subscribed>>

\* subscribe: SQLite answers the query at once, and the results are delivered
\* later.
Subscribe(q) ==
  /\ subscribed < MaxSubscriptions /\ subscribed' = subscribed + 1
  /\ subscriptions' = subscriptions \cup
       {[id |-> subscribed, query |-> q, read |-> FALSE, shown |-> Error, misled |-> FALSE,
         initial |-> IF Sqlite THEN Query(store, q) ELSE Error]}
  /\ UNCHANGED <<setup, store, txn, batches>>

\* The first results; IndexedDB's read waits for a write.
Deliver(sub) ==
  /\ ~sub.read /\ (Sqlite \/ txn = None)
  /\ LET results == IF Sqlite THEN sub.initial ELSE Query(store, sub.query)
     IN subscriptions' = (subscriptions \ {sub}) \cup
          {[Shows(sub, results) EXCEPT !.read = TRUE, !.initial = Error]}
  /\ UNCHANGED <<setup, store, txn, batches, subscribed>>

Unsubscribe(sub) ==
  /\ subscriptions' = subscriptions \ {sub}
  /\ UNCHANGED <<setup, store, txn, batches, subscribed>>

Next ==
  \/ \E effects \in Batches : SqliteApply(effects) \/ IdbApply(effects)
  \/ IdbEffect \/ IdbCommit \/ IdbAbort
  \/ \E q \in LiveQueries : Subscribe(q)
  \/ \E sub \in subscriptions : IdbNotify(sub) \/ Deliver(sub) \/ Unsubscribe(sub)

Spec == Init /\ [][Next]_vars

-----------------------------------------------------------------------------
(* Properties *)

\* What a query means the same by in both backends.  SQLite throws where there is
\* an offset, takes nulls out of `neq` on a reference and lets all through
\* `lte: null`; IndexedDB throws where the index of an optional property has to
\* give what is between a lower bound and an lt; and before it filters or sorts
\* without an index on the where clause it skips the offset.
Portable(q) ==
  /\ Sqlite => q.offset = 0
  /\ Sqlite => \A i \in DOMAIN q.where : \A j \in DOMAIN q.where[i].expression :
       LET term == q.where[i].expression[j]
       IN /\ ~(q.where[i].property = "ref" /\ term.op = "neq" /\ term.value # Null)
          /\ ~(term.op = "lte" /\ term.value = Null)
  /\ ~Sqlite /\ FirstIndexed(q) # 0 =>
       LET entry == q.where[FirstIndexed(q)]
       IN Optional(entry.property) => ~\E i, j \in DOMAIN entry.expression :
            entry.expression[i].op \in {"gt", "gte"} /\ entry.expression[j].op = "lt"
  /\ ~Sqlite /\ q.offset # 0 =>
       /\ FirstIndexed(q) = 0 => q.where = <<>>
       /\ q.orderBy.property # "none" =>
            FirstIndexed(q) = 0 /\ q.orderBy.property \in setup.indexes

\* A right answer: the part that offset and limit cut out of the records that
\* match, in an order that was asked for or in any.
Right(q, answer) ==
  LET matching == {record \in Records(store) : Filter(q.where, record)}
      inOrder(list) == q.orderBy.property = "none" \/
        \A i, j \in DOMAIN list : i < j => ~Ahead(q.orderBy, list[j], list[i])
  IN \E list \in SetToSeqs(matching) :
       inOrder(list) /\ answer = Cut(list, q.offset, q.limit)

\* AnswersRight.  In both backends, with and without indexes, whatever was set,
\* replaced and deleted before, a portable query does not throw and gets a right
\* answer: nulls, bounds, relations, ties and limits included.  (An answer depends
\* on the store alone, so it is enough to ask when nothing else goes on.)
AnswersRight ==
  txn = None /\ subscriptions = {} =>
    \A q \in Queries : Portable(q) => Right(q, Query(store, q))

\* LiveComplete.  Between writes, a live query shows every record that matches,
\* as it is: no write that adds to its results goes by it.  Except where the first
\* results came after those of a write (SQLite), or after callbacks of a
\* transaction that failed (IndexedDB).
LiveComplete ==
  txn = None =>
    \A sub \in subscriptions : sub.read /\ ~sub.misled =>
      \A record \in Records(store) :
        Filter(sub.query.where, record) => Contains(sub.shown, record)

Decoded(s) ==
  [k \in {record.id : record \in Records(s)} |->
     CHOOSE record \in Records(s) : record.id = k]

Reference == INSTANCE Table WITH table <- Decoded(store)

\* ImplementsTable.  Whatever rows a backend splits a record into, effects work
\* on records, and a batch is applied whole or, if an effect is invalid or the
\* commit fails, not at all.
ImplementsTable == Reference!Spec

=============================================================================
