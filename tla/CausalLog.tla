------------------------------ MODULE CausalLog ------------------------------
(***************************************************************************)
(* What a GossipLog replica promises its application: a set of signed      *)
(* messages that only grows, and that holds the parents of every message   *)
(* it holds.                                                               *)
(***************************************************************************)
CONSTANT Ids

VARIABLES
  signed,   \* messages that exist
  parents,  \* the parents each was signed with
  log       \* the messages of this replica

vars == <<signed, parents, log>>

Init ==
  /\ signed = {}
  /\ parents = [m \in Ids |-> {}]
  /\ log = {}

\* Someone signs a message over messages that exist.
Sign(m, P) ==
  /\ m \in Ids \ signed
  /\ P \subseteq signed
  /\ signed' = signed \cup {m}
  /\ parents' = [parents EXCEPT ![m] = P]
  /\ UNCHANGED log

\* The replica takes in messages; their parents are there or come along.
Deliver(S) ==
  /\ S \subseteq signed
  /\ \A m \in S : parents[m] \subseteq log \cup S
  /\ log' = log \cup S
  /\ UNCHANGED <<signed, parents>>

Next ==
  \/ \E m \in Ids, P \in SUBSET Ids : Sign(m, P)
  \/ \E S \in SUBSET Ids : Deliver(S)

Spec == Init /\ [][Next]_vars
=============================================================================
