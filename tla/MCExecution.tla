----------------------------- MODULE MCExecution ------------------------------
(***************************************************************************)
(* Executions: handlers that await what they start before they write, and  *)
(* some that do not, or not in an order of their own.                      *)
(* Handles: contracts that are complete, that lack something, or that say   *)
(* more than is read.                                                      *)
(* The two are apart: one of them moves in each behaviour.                 *)
(***************************************************************************)
EXTENDS Execution, VMHandles

CONSTANTS x, y, z

VARIABLE part  \* which module moves: the other stays as it began

-----------------------------------------------------------------------------
get(k) == [do |-> "get", key |-> k]
set(k) == [do |-> "set", key |-> k]
del(k) == [do |-> "delete", key |-> k]
throw == [do |-> "throw", key |-> x]

Handlers ==
  [move   |-> [join |-> "all", branches |-> <<<<get(x), del(x), get(x), set(y)>>>>],
   refuse |-> [join |-> "all", branches |-> <<<<set(y), get(x), throw>>>>],
   both   |-> [join |-> "all", branches |-> <<<<get(x), set(x)>>, <<get(y), get(y), set(y)>>>>],
   try    |-> [join |-> "allSettled", branches |-> <<<<get(x), throw>>, <<get(y), get(z), set(y)>>>>],
   \* a branch reads on after the handler has failed
   glance |-> [join |-> "all", branches |-> <<<<get(x), throw>>, <<get(y), get(z)>>>>],
   \* a branch writes after the handler has failed
   first  |-> [join |-> "all", branches |-> <<<<throw>>, <<get(y), set(y)>>>>],
   \* two branches write one entry: that of the slower read is kept
   race   |-> [join |-> "all", branches |-> <<<<get(x), set(y)>>, <<get(z), set(y)>>>>],
   \* a branch reads what another writes
   cross  |-> [join |-> "all", branches |-> <<<<get(x), set(y)>>, <<get(z), get(y), set(z)>>>>]]

-----------------------------------------------------------------------------
Complete == {"topic", "models", "actions"}
Contract(exports, actions) == [exports |-> exports, actions |-> actions]

Plain == Contract(Complete, [post |-> {}, move |-> {"apply", "argsType"}])
Wordy == Contract(Complete \cup {"notes"}, [post |-> {"apply", "notes"}])

AllContracts ==
  {Plain, Wordy, Contract(Complete, [post |-> {}, move |-> {"argsType"}])}
    \cup {Contract(Complete \ {export}, [post |-> {}]) : export \in Complete}

-----------------------------------------------------------------------------
EitherInit ==
  /\ part \in {"execution", "handles"}
  /\ Init /\ Machine!Init
  /\ part = "handles" => kind = "contract"

EitherNext ==
  \/ part = "execution" /\ Next /\ UNCHANGED <<part, handles>>
  \/ part = "handles" /\ Machine!Next /\ UNCHANGED <<part, vars>>

\* While handles move nothing is executed, and nothing is due.
EitherSpec == EitherInit /\ [][EitherNext]_<<part, vars, handles>> /\ Fairness
=============================================================================
