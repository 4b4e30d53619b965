------------------------------- MODULE Runtime -------------------------------
(***************************************************************************)
(* The runtime of packages/core: how replicas that apply the same actions  *)
(* in different orders turn them into database entries.                    *)
(*                                                                         *)
(* A message is <<clock, tie>> and ids sort in that order.  What a         *)
(* replica applies, and when, is what GossipLog promises: with ancestors   *)
(* indexed a message comes after its ancestors; without, in any order; and *)
(* in both cases possibly more than once.  A value is the message that     *)
(* wrote it.                                                               *)
(***************************************************************************)
EXTENDS Integers, FiniteSets

CONSTANTS
  Replicas,
  Keys,         \* primary keys of a model
  Ties,         \* ranks of hashes among the messages with one clock
  Configs,      \* ways in which the replicas are set up
  MaxMessages   \* bound: how many messages are signed

\* Canvas.initialize gives its option indexHistory to the log, as indexAncestors,
\* and not to the runtime.
ConfigType == [
  indexHistory : BOOLEAN,    \* the runtime: $effects, or $versions
  indexAncestors : BOOLEAN,  \* the log
  aborts : BOOLEAN ]         \* the log may lose a transaction after apply

ASSUME ConstantsAssumption ==
  Configs \subseteq ConfigType /\ MaxMessages \in Nat /\ Ties \subseteq Nat

Messages == (1..MaxMessages) \X Ties
Nothing == <<0, 0>>

\* What an action does to a key: set it, delete it, or look it up and then do
\* the one or the other.
Ops == {"set", "delete", "toggle"}
Actions == [op : Ops, key : Keys]

VARIABLES
  config,
  action,    \* the payload of each message that was signed
  past,      \* its ancestors
  log,       \* the messages of each replica
  effects,   \* $effects: per replica, the deletions and settings of keys
  versions,  \* $versions: per replica and key, the message last let through
  model,     \* the model: per replica and key, the message that set it
  results    \* history: what messages were seen to read and to write

vars == <<config, action, past, log, effects, versions, model, results>>

-----------------------------------------------------------------------------
(* Helpers *)

Signed == DOMAIN action
Less(m, n) == m[1] < n[1] \/ (m[1] = n[1] /\ m[2] < n[2])

\* The last of some messages, or Nothing.
Latest(S) ==
  IF S = {} THEN Nothing ELSE CHOOSE m \in S : \A n \in S \ {m} : Less(n, m)

EffectsOf(r, k) == {e \in effects[r] : e.key = k}

\* Mutant: the last effect there is, of an ancestor or not.
GetLatestValue(r, k, ancestors) ==
  LET found == Latest({e.id : e \in EffectsOf(r, k)})
  IN IF found = Nothing THEN [found |-> found, value |-> "none"]
     ELSE [found |-> found, value |-> (CHOOSE e \in EffectsOf(r, k) : e.id = found).value]

\* Mutant: gives up when the last effect is not of an ancestor.
GetFirstValue(r, k, ancestors) ==
  LET found == Latest({e.id : e \in EffectsOf(r, k)})
  IN IF found \notin ancestors THEN [found |-> Nothing, value |-> "none"]
     ELSE [found |-> found, value |-> (CHOOSE e \in EffectsOf(r, k) : e.id = found).value]

\* getModelValue: the last effect on the key, in id order, whose message is an
\* ancestor.  (That isAncestor names the ancestors is the concern of
\* AncestorIndex.)
GetModelValue(r, k, ancestors) ==
  LET found == Latest({e.id : e \in EffectsOf(r, k)} \cap ancestors)
  IN IF found = Nothing THEN [found |-> found, value |-> "none"]
     ELSE [found |-> found, value |-> (CHOOSE e \in EffectsOf(r, k) : e.id = found).value]

\* Ancestors are asserted to be there; a deletion is stored as null, and decoding
\* null throws.
GetThrows(r, a, ancestors) ==
  /\ a.op = "toggle"
  /\ \/ ~config.indexHistory \/ ~config.indexAncestors
     \/ GetModelValue(r, a.key, ancestors).value = "delete"

\* execute: what the action saw, and the entry it leaves in modelEntries
Execute(r, a, ancestors) ==
  IF a.op # "toggle" THEN [found |-> Nothing, value |-> a.op]
  ELSE LET read == GetModelValue(r, a.key, ancestors)
       IN [found |-> read.found, value |-> IF read.value = "none" THEN "set" ELSE "delete"]

-----------------------------------------------------------------------------
(* getConsumer: run an action and apply its effects, in one db.apply *)

\* With history: another effect on the key, of a later message, is there.
Superseded(r, m, k) ==
  IF config.indexHistory
    THEN \E e \in EffectsOf(r, k) : Less(m, e.id)
    ELSE versions[r][k] # Nothing /\ Less(m, versions[r][k])

Write(r, k, m, did) ==
  model' = [model EXCEPT ![r][k] = IF did.value = "set" THEN m ELSE Nothing]

\* Mutant: a deletion leaves no version behind.
ConsumeForgetsDeletions(r, m, a, ancestors) ==
  LET did == Execute(r, a, ancestors)
  IN /\ ~GetThrows(r, a, ancestors)
     /\ results' = results \cup {[id |-> m, found |-> did.found, value |-> did.value]}
     /\ effects' = IF config.indexHistory
          THEN [effects EXCEPT ![r] = @ \cup {[key |-> a.key, id |-> m, value |-> did.value]}]
          ELSE effects
     /\ versions' = IF config.indexHistory \/ Superseded(r, m, a.key) \/ did.value = "delete"
          THEN versions ELSE [versions EXCEPT ![r][a.key] = m]
     /\ IF Superseded(r, m, a.key) THEN UNCHANGED model ELSE Write(r, a.key, m, did)

Consume(r, m, a, ancestors) ==
  LET did == Execute(r, a, ancestors)
  IN /\ ~GetThrows(r, a, ancestors)
     /\ results' = results \cup {[id |-> m, found |-> did.found, value |-> did.value]}
     /\ effects' = IF config.indexHistory
          THEN [effects EXCEPT ![r] = @ \cup {[key |-> a.key, id |-> m, value |-> did.value]}]
          ELSE effects
     /\ versions' = IF config.indexHistory \/ Superseded(r, m, a.key)
          THEN versions ELSE [versions EXCEPT ![r][a.key] = m]
     /\ IF Superseded(r, m, a.key) THEN UNCHANGED model ELSE Write(r, a.key, m, did)

-----------------------------------------------------------------------------
Init ==
  /\ config \in Configs
  /\ action = <<>> /\ past = <<>>
  /\ log = [r \in Replicas |-> {}]
  /\ effects = [r \in Replicas |-> {}]
  /\ versions = [r \in Replicas |-> [k \in Keys |-> Nothing]]
  /\ model = [r \in Replicas |-> [k \in Keys |-> Nothing]]
  /\ results = {}

\* The log commits, or (a stop, a failed write) loses the message that the
\* database has the effects of.
CommitOrAbort(r, m) ==
  \/ log' = [log EXCEPT ![r] = @ \cup {m}]
  \/ config.aborts /\ UNCHANGED log

NextClock(r) == 1 + Latest(log[r])[1]

\* An action is called at a replica.
Act(r, tie, a) ==
  LET m == <<NextClock(r), tie>>
  IN /\ Cardinality(Signed) < MaxMessages /\ m \notin Signed
     /\ action' = [n \in Signed \cup {m} |-> IF n = m THEN a ELSE action[n]]
     /\ past' = [n \in Signed \cup {m} |-> IF n = m THEN log[r] ELSE past[n]]
     /\ Consume(r, m, a, log[r])
     /\ CommitOrAbort(r, m)
     /\ UNCHANGED config

\* A message of another replica, or once more one of its own, is applied.
Insert(r, m) ==
  /\ \E s \in Replicas : m \in log[s]
  /\ config.indexAncestors => past[m] \subseteq log[r]
  /\ Consume(r, m, action[m], past[m])
  /\ CommitOrAbort(r, m)
  /\ UNCHANGED <<config, action, past>>

Next ==
  \/ \E r \in Replicas, tie \in Ties, a \in Actions : Act(r, tie, a)
  \/ \E r \in Replicas : \E m \in Signed : Insert(r, m)

Spec == Init /\ [][Next]_vars

-----------------------------------------------------------------------------
(* Properties *)

\* ModelsMatchLog.  The entry of a key is the one that the last of the
\* replica's messages that wrote the key left there, also when that was a
\* deletion and earlier settings arrived after it.
ModelsMatchLog ==
  \A r \in Replicas, k \in Keys :
    LET written == {x \in results : x.id \in log[r] /\ action[x.id].key = k}
        last == Latest({x.id : x \in written})
    IN model[r][k] =
         IF \E x \in written : x.id = last /\ x.value = "set" THEN last ELSE Nothing

\* Convergence.  Replicas that have the same messages have the same entries,
\* whatever the order in which they applied them and however often, with
\* history ($effects) and without ($versions), and these are what the log says,
\* unless a transaction of the log was lost.
Convergence ==
  ~config.aborts =>
    /\ ModelsMatchLog
    /\ \A r, s \in Replicas : log[r] = log[s] => model[r] = model[s]

\* ExecutionAgrees.  A message reads and writes the same wherever and whenever
\* it is executed: at its author before anybody else's writes, elsewhere after
\* later ones, and again over effects of its own.
ExecutionAgrees == \A x, y \in results : x.id = y.id => x = y

\* AcceptedByAll.  What its author's runtime accepted no other replica that has
\* its ancestors refuses: a db.get that succeeded there succeeds here.
AcceptedByAll ==
  \A r, s \in Replicas : \A m \in log[s] :
    past[m] \subseteq log[r] => ~GetThrows(r, action[m], past[m])

=============================================================================
