-------------------------------- MODULE Values --------------------------------
(***************************************************************************)
(* What becomes of the value of a property: a handler sets it, as a        *)
(* function or in QuickJS; it is validated, logged as an effect in CBOR,   *)
(* and written by a peer with SQLite and by one with IndexedDB; then it is *)
(* read from either, and by a handler.                                     *)
(*                                                                         *)
(* A JavaScript value is a record with its type.  Of numbers and strings   *)
(* only kinds are told apart.  The record of the model is one, and so is   *)
(* its property; the messages come to both peers in the same order.        *)
(***************************************************************************)
EXTENDS Naturals, Sequences

CONSTANTS
  Paths,       \* who sets it: a "function", a "contract", or the "database" API alone
  Properties,  \* the properties a model may have
  Values       \* the values they are set to

VARIABLES
  path,      \* of this application
  property,  \* of its model
  given,     \* what was set last and was not refused
  effect,    \* the last effect logged
  sqlite,    \* the column, in the row of SQLite
  idb,       \* the property, in the object of IndexedDB
  refused    \* who refused the last effect

vars == <<path, property, given, effect, sqlite, idb, refused>>

-----------------------------------------------------------------------------
(* JavaScript values *)

Undefined == [type |-> "undefined"]
Null == [type |-> "null"]
Function == [type |-> "function"]
Date == [type |-> "date"]
Boolean(b) == [type |-> "boolean", of |-> b]
Number(kind) == [type |-> "number", of |-> kind]
String(kind) == [type |-> "string", of |-> kind]
Bytes(b) == [type |-> "bytes", of |-> b]
Array(items) == [type |-> "array", items |-> items]
Object(fields) == [type |-> "object", fields |-> fields]

Absent == [type |-> "absent"]
Throws == [type |-> "throws"]

Range(f) == {f[x] : x \in DOMAIN f}
Inner(v) ==
  CASE v.type = "array" -> Range(v.items)
    [] v.type = "object" -> Range(v.fields)
    [] OTHER -> {}

\* A value and what it holds, at any depth.
RECURSIVE Parts(_)
Parts(v) == {v} \cup UNION {Parts(x) : x \in Inner(v)}

Lossy == {Undefined, Function, Date, Number("nan"), Number("infinity")}

-----------------------------------------------------------------------------
(* QuickJS *)

\* unwrapValue, of what has no undefined in it: a function or a Date is an
\* object with no properties.
RECURSIVE Unwrapped(_)
Unwrapped(v) ==
  CASE v.type \in {"function", "date"} -> Object(<<>>)
    [] v.type = "bytes" -> Bytes(v.of)
    [] v.type = "array" -> Array([i \in DOMAIN v.items |-> Unwrapped(v.items[i])])
    [] v.type = "object" -> Object([name \in DOMAIN v.fields |-> Unwrapped(v.fields[name])])
    [] OTHER -> v

\* wrapValue, of an effect that was decoded.
RECURSIVE Wrapped(_)
Wrapped(v) ==
  CASE v.type = "bytes" -> Bytes(v.of)
    [] v.type = "array" -> Array([i \in DOMAIN v.items |-> Wrapped(v.items[i])])
    [] v.type = "object" -> Object([name \in DOMAIN v.fields |-> Wrapped(v.fields[name])])
    [] OTHER -> v

-----------------------------------------------------------------------------
(* Validation and the log *)

\* validateModelValue.
Valid(p, v) ==
  CASE v = Undefined -> FALSE
    [] p.kind = "primary" -> v.type = "string"
    [] p.kind = "relation" -> v.type = "array" /\ \A x \in Range(v.items) : x.type = "string"
    [] p.optional /\ v = Null -> TRUE
    [] p.kind = "reference" -> v.type = "string"
    [] p.type = "integer" -> v = Number("integer")
    [] p.type = "float" -> v.type = "number"
    [] p.type \in {"string", "bytes", "boolean"} -> v.type = p.type
    [] p.type = "json" -> v # Null

\* encode of dag-cbor.
Encodable(v) == Parts(v) \cap Lossy = {}

-----------------------------------------------------------------------------
(* SQLite *)

\* JSON.stringify, as what JSON.parse makes of it.
RECURSIVE Stringified(_)
Stringified(v) ==
  CASE v \in {Number("nan"), Number("infinity")} -> Null
    [] v = Date -> String("iso")
    [] v.type = "bytes" -> Object([i \in {"0"} |-> Number("integer")])
    [] v.type = "array" ->
         Array([i \in DOMAIN v.items |->
                  IF v.items[i] \in {Undefined, Function} THEN Null ELSE Stringified(v.items[i])])
    [] v.type = "object" ->
         Object([name \in {n \in DOMAIN v.fields : v.fields[n] \notin {Undefined, Function}} |->
                   Stringified(v.fields[name])])
    [] OTHER -> v

Text(v) == [column |-> "TEXT", of |-> v]
Integer(n) == [column |-> "INTEGER", of |-> n]
Real(v) == [column |-> "REAL", of |-> v]
Blob(b) == [column |-> "BLOB", of |-> b]
Rows(items) == [column |-> "relation", of |-> items]
NoColumn == [column |-> "NULL"]

\* SQLite has no booleans.
EncodeBoolean(b) == Integer(IF b THEN 1 ELSE 0)

\* NaN is bound as NULL, and nothing else than the columns' types can be bound.
Encode(p, v) ==
  CASE p.kind = "relation" -> Rows(v.items)
    [] v = Null \/ (v = Number("nan") /\ p.type # "json") -> NoColumn
    [] p.type = "json" -> IF v = Function THEN Throws ELSE Text(Stringified(v))
    [] v.type = "string" -> Text(v)
    [] v.type = "number" -> Real(v)
    [] v.type = "bytes" -> Blob(v.of)
    [] v.type = "boolean" -> EncodeBoolean(v.of)

Decode(p, c) ==
  CASE c = NoColumn -> IF p.optional THEN Null ELSE Throws
    [] p.kind = "relation" -> Array(c.of)
    [] p.type = "json" -> c.of
    [] p.type = "boolean" -> IF c.column = "INTEGER" THEN Boolean(c.of = 1) ELSE Throws
    [] p.type = "bytes" -> IF c.column = "BLOB" THEN Bytes(c.of) ELSE Throws
    [] OTHER -> c.of

\* A NULL that the column may not have is ignored in an insert, and an error in
\* an update.
SqliteRefuses(v) ==
  LET c == Encode(property, v)
  IN \/ c = Throws
     \/ c = NoColumn /\ ~property.optional /\ sqlite # Absent

SqliteSet(v) ==
  LET c == Encode(property, v)
  IN IF SqliteRefuses(v) \/ (c = NoColumn /\ ~property.optional) THEN sqlite ELSE c

SqliteGet == IF sqlite = Absent THEN Absent ELSE Decode(property, sqlite)

-----------------------------------------------------------------------------
(* IndexedDB *)

\* Mutant: whatever is falsy is left out of the array.
EncodeFalsy(p, v) ==
  IF p.kind # "relation" /\ p.optional
    THEN Array(IF v \in {Null, Boolean(FALSE)} THEN <<>> ELSE <<v>>)
    ELSE v

\* encodePropertyValue: what is optional is in an array.
EncodeProperty(p, v) ==
  IF p.kind # "relation" /\ p.optional
    THEN Array(IF v = Null THEN <<>> ELSE <<v>>)
    ELSE v

DecodeProperty(p, o) ==
  CASE p.kind \in {"primary", "relation"} -> o
    [] p.optional -> IF o.items = <<>> THEN Null ELSE o.items[1]
    [] o.type = "array" -> Throws
    [] OTHER -> o

\* A function cannot be cloned.
IdbRefuses(v) == Function \in Parts(v)

IdbSet(v) == IF IdbRefuses(v) THEN idb ELSE EncodeProperty(property, v)

IdbGet == IF idb = Absent THEN Absent ELSE DecodeProperty(property, idb)

-----------------------------------------------------------------------------
(* Setting, deleting, reading *)

\* The value on the host.
Passed(v) == IF path = "contract" THEN Unwrapped(v) ELSE v

\* In this order: the value is unwrapped, validated, and encoded for the log.
Accepted(v) ==
  /\ path = "contract" => Undefined \notin Parts(v)
  /\ Valid(property, Passed(v))
  /\ path # "database" => Encodable(Passed(v))

Init ==
  /\ path \in Paths
  /\ property \in Properties
  /\ given = Absent /\ effect = Absent
  /\ sqlite = Absent /\ idb = Absent
  /\ refused = {}

\* db.set: nothing happens if it is refused before it is applied.
Set(v) ==
  /\ Accepted(v)
  /\ given' = v
  /\ effect' = IF path = "database" THEN Absent ELSE Passed(v)
  /\ sqlite' = SqliteSet(Passed(v))
  /\ idb' = IdbSet(Passed(v))
  /\ refused' = {b \in {"sqlite", "idb"} :
                   IF b = "sqlite" THEN SqliteRefuses(Passed(v)) ELSE IdbRefuses(Passed(v))}
  /\ UNCHANGED <<path, property>>

Delete ==
  /\ given' = Absent /\ effect' = Absent
  /\ sqlite' = Absent /\ idb' = Absent
  /\ refused' = {}
  /\ UNCHANGED <<path, property>>

\* getModelValue, in a handler.
HandlerGet == IF path = "contract" /\ effect # Absent THEN Wrapped(effect) ELSE effect

Next == (\E v \in Values : Set(v)) \/ Delete

Spec == Init /\ [][Next]_vars

-----------------------------------------------------------------------------
(* Properties *)

\* What CBOR takes and both backends can tell apart.  In SQLite a
\* Uint8Array inside json comes back as an object, and in IndexedDB json that
\* is an array is taken for an optional property.
Portable(v) ==
  /\ Encodable(v)
  /\ property.type = "json" => v.type # "array" /\ \A x \in Parts(v) : x.type # "bytes"

\* A value that was accepted is the value both peers read: what was set is not
\* lost by validation, encoding, columns without booleans or JSON, the arrays
\* that stand for optional properties, or an insert that ignores errors.
ReadsBack ==
  given # Absent /\ Portable(Passed(given)) => SqliteGet = Passed(given) /\ IdbGet = Passed(given)

\* No peer refuses an effect that was logged: the action was accepted, and
\* where its effects cannot be applied the log stops.
AppliedByAll == path # "database" => refused = {}

\* A handler reads what a handler set, whether it runs on the host or in QuickJS,
\* where values are converted on the way in and out.
HandlerReads ==
  path # "database" /\ given # Absent /\ Parts(given) \cap {Function, Date} = {} => HandlerGet = given

\* A value survives the way to both peers and back to a handler.
ValuesKept == ReadsBack /\ AppliedByAll /\ HandlerReads

=============================================================================
