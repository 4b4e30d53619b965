------------------------------- MODULE Table --------------------------------
(***************************************************************************)
(* What a table of packages/modeldb promises of its effects: a batch is     *)
(* applied as one, and of the effects on a key the last one stands, or it   *)
(* is not applied at all.                                                  *)
(***************************************************************************)
EXTENDS Sequences, FiniteSetsExt

CONSTANT Batches  \* the batches of effects that may be applied

VARIABLE table    \* the record of each key that has one

Key(effect) == IF effect.operation = "delete" THEN effect.key ELSE effect.value.id

\* Which of the first n effects are on a key.
On(effects, n, key) == {i \in 1..n : Key(effects[i]) = key}

Remains(records, effects, n, key) ==
  IF On(effects, n, key) = {} THEN key \in DOMAIN records
  ELSE effects[Max(On(effects, n, key))].operation = "set"

\* The records after the first n effects.
After(records, effects, n) ==
  LET keys == DOMAIN records \cup {Key(effects[i]) : i \in 1..n}
  IN [key \in {k \in keys : Remains(records, effects, n, k)} |->
        IF On(effects, n, key) = {} THEN records[key]
        ELSE effects[Max(On(effects, n, key))].value]

Init == DOMAIN table = {}

Next ==
  \E effects \in Batches :
    /\ \A i \in DOMAIN effects : effects[i].operation # "invalid"
    /\ table' = After(table, effects, Len(effects))

Spec == Init /\ [][Next]_table
=============================================================================
