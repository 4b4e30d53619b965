------------------------------- MODULE MCReads --------------------------------
(***************************************************************************)
(* What is read of a log.                                                  *)
(* The ancestor queries: the histories of MCAncestorIndex.                 *)
(* Iteration: an insert that releases a message that waited, among those   *)
(* who read, with and without a loop over the log that awaits it.          *)
(* The two are apart: one of them moves in each behaviour.                 *)
(***************************************************************************)
EXTENDS MCAncestorIndex, LogAccess

CONSTANTS i1, i2, reader, w1

VARIABLE part  \* which module moves: the other stays as it began

\* Message 4 waits for 1.
OneCascade == [w \in {w1} |-> <<1, 4>>]
NoInner == [i \in {i1, i2} |-> {}]
Awaited == [i \in {i1, i2} |-> IF i = i1 THEN {w1} ELSE {}]
TwoInners == {NoInner, Awaited}

\* What the proof about Iteration assumes.
ASSUME IterationAssumption == Access!Apart

-----------------------------------------------------------------------------
ReadsInit ==
  /\ part \in {"history", "iteration"}
  /\ EitherInit /\ Access!Init
  /\ part = "history" => kind = "node" /\ inner = NoInner
  /\ part = "iteration" => taken = <<>>

ReadsNext ==
  \/ part = "history" /\ EitherNext /\ UNCHANGED <<part, iteration>>
  \/ part = "iteration" /\ Access!Next /\ UNCHANGED <<part, vars, taken>>

\* In the histories no one has started to read or write, and nothing is due.
ReadsSpec == ReadsInit /\ [][ReadsNext]_<<part, vars, taken, iteration>> /\ Access!Fairness

\* Every write has its turn and ends.
WritesEnd == Access!WritesEnd
=============================================================================
