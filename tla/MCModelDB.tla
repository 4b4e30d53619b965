------------------------------- MODULE MCModelDB -------------------------------
(***************************************************************************)
(* The table: two records, each with four values it may have, a third that  *)
(* comes and goes with ties, and queries of every kind.                    *)
(* The hook: two components, two databases, two queries of one model.      *)
(* Values: a property of every kind and type, optional and not, and values  *)
(* of every type, up to two deep.                                          *)
(* The three are apart: one of them moves in each behaviour.               *)
(***************************************************************************)
EXTENDS ModelDB, LiveHook

CONSTANTS c1, c2, q1, q2, d1, d2

VARIABLES
  part,  \* which module moves: the others stay as they began
  path, ofProperty, given, effect, sqlite, idb, refused         \* of Values

codec == <<path, ofProperty, given, effect, sqlite, idb, refused>>

-----------------------------------------------------------------------------
(* The table *)

Row(id, n, ref, members) == [id |-> id, n |-> n, ref |-> ref, members |-> members]
SetTo(value) == [operation |-> "set", value |-> value]
Delete(key) == [operation |-> "delete", key |-> key]
BadEffect == [operation |-> "invalid"]

Samples(id) ==
  { Row(id, Null, Null, <<>>), Row(id, 1, Null, <<1, 2>>),
    Row(id, 2, 1, <<2>>), Row(id, 2, 2, <<>>) }

SmallBatches ==
  UNION {{<<SetTo(value)>> : value \in Samples(id)} \cup {<<Delete(id)>>} : id \in 1..2}
    \cup {<<SetTo(Row(1, 1, 1, <<1>>)), SetTo(Row(3, 2, Null, <<1>>))>>,
          <<Delete(3), Delete(2), SetTo(Row(3, Null, 1, <<2>>))>>,
          <<SetTo(Row(2, 1, 1, <<1>>)), BadEffect>>, <<Delete(1), Delete(2), BadEffect>>}

Unordered == [property |-> "none", direction |-> "asc"]
By(property, direction) == [property |-> property, direction |-> direction]
Term(op, value) == [op |-> op, value |-> value]
Where(property, expression) == <<[property |-> property, expression |-> expression]>>
Asks(where, orderBy, limit, offset) ==
  [where |-> where, orderBy |-> orderBy, limit |-> limit, offset |-> offset]

Conditions ==
  {Where(property, <<Term(op, value)>>) :
     property \in {"id", "n"}, op \in {"eq", "neq", "gt", "gte", "lt", "lte"}, value \in 1..2}
  \cup {Where("n", <<Term(op, Null)>>) : op \in {"eq", "neq", "gt", "gte", "lt", "lte"}}
  \cup {Where("ref", <<Term(op, value)>>) : op \in {"eq", "neq"}, value \in 0..1}
  \cup {Where("members", <<Term(op, value)>>) : op \in {"eq", "neq"}, value \in {<<>>, <<2>>, <<1, 2>>}}
  \cup {Where(property, <<Term(low, 1), Term(high, 2)>>) :
          property \in {"id", "n"}, low \in {"gt", "gte"}, high \in {"lt", "lte"}}
  \cup {Where("ref", <<Term("neq", Null)>>) \o Where("n", <<Term(op, 2)>>) : op \in {"lt", "lte", "eq"}}

Orders == {By(property, direction) : property \in {"id", "n", "ref"}, direction \in {"asc", "desc"}}

AllQueries ==
  {Asks(where, orderBy, 9, 0) : where \in Conditions, orderBy \in {Unordered, By("n", "desc")}}
  \cup {Asks(<<>>, orderBy, limit, offset) : orderBy \in Orders \cup {Unordered}, limit \in {1, 9}, offset \in 0..1}
  \cup {Asks(Where("n", <<Term("neq", 1)>>), orderBy, 1, 1) : orderBy \in {Unordered, By("id", "asc")}}

Live == {Asks(<<>>, Unordered, 9, 0), Asks(Where("n", <<Term("gte", 2)>>), Unordered, 9, 0)}

IndexSets == {{}, {"id", "n"}}

-----------------------------------------------------------------------------
(* The hook *)

\* What the proof about the hook assumes.
ASSUME HookAssumption == Hook!Apart

HookSymmetry == Permutations({c1, c2}) \cup Permutations({q1, q2}) \cup Permutations({d1, d2})

-----------------------------------------------------------------------------
(* Values *)

Of(type, of) == [type |-> type, of |-> of]

Scalars ==
  {[type |-> type] : type \in {"undefined", "null", "function", "date"}}
  \cup {Of("boolean", b) : b \in BOOLEAN} \cup {Of("string", "text"), Of("bytes", "bytes")}
  \cup {Of("number", kind) : kind \in {"integer", "fraction", "unsafe", "nan", "infinity"}}

Array(items) == [type |-> "array", items |-> items]
Object(fields) == [type |-> "object", fields |-> fields]

Holding(S) == {Array(<<v>>) : v \in S} \cup {Object([name \in {"a"} |-> v]) : v \in S}

Shallow ==
  Holding(Scalars)
  \cup {Array(<<>>), Object(<<>>), Array(<<Of("string", "text"), Of("string", "other")>>)}

AllValues == Scalars \cup Shallow \cup Holding(Shallow)

Property(kind, type, optional) == [kind |-> kind, type |-> type, optional |-> optional]

\* parseProperty: json cannot be optional.
AllProperties ==
  {Property("primary", "string", FALSE), Property("relation", "string", FALSE)}
  \cup {Property("reference", "string", optional) : optional \in BOOLEAN}
  \cup {Property("primitive", type, optional) :
          type \in {"integer", "float", "string", "bytes", "boolean"}, optional \in BOOLEAN}
  \cup {Property("primitive", "json", FALSE)}

Codec == INSTANCE Values WITH
  Paths <- {"function", "contract", "database"}, Properties <- AllProperties,
  Values <- AllValues, property <- ofProperty

-----------------------------------------------------------------------------
(* All three *)

AllInit ==
  /\ part \in {"table", "hook", "values"}
  /\ Init /\ Hook!Init /\ Codec!Init
  /\ part # "table" => setup = [backend |-> "idb", indexes |-> {}]
  /\ part # "values" => path = "function" /\ ofProperty = Property("primary", "string", FALSE)

AllNext ==
  \/ part = "table" /\ Next /\ UNCHANGED <<part, hook, codec>>
  \/ part = "hook" /\ Hook!Next /\ UNCHANGED <<part, vars, codec>>
  \/ part = "values" /\ Codec!Next /\ UNCHANGED <<part, vars, hook>>

AllSpec == AllInit /\ [][AllNext]_<<part, vars, hook, codec>>

\* While the table moves, queries get right answers (Query, in both backends).
TableAnswersRight == part = "table" => AnswersRight

\* A value survives validation, the log, either database and QuickJS.
ValuesKept == Codec!ValuesKept
=============================================================================
