--------------------------- MODULE MCAncestorIndex ---------------------------
(***************************************************************************)
(* Small instances of AncestorIndex: every short history of two replicas,  *)
(* and a deep history of three.                                            *)
(***************************************************************************)
EXTENDS AncestorIndex

CONSTANT MaxMessages  \* bound: messages in a history of two replicas

\* The hashes of one replica sort before those of the others: which of two
\* messages with one clock comes first only matters to the order of a walk.
RankedByReplica == [r \in Replicas |-> {r}]

VARIABLE taken  \* in the deep history, the steps of its story each replica has taken

-----------------------------------------------------------------------------
(* Every history of two replicas.                                           *)

FreeInit == Init /\ taken = <<>>

FreeNext ==
  /\ taken = <<>> /\ UNCHANGED taken
  /\ \E r, s \in {1, 2} :
       \/ Cardinality(Created) < MaxMessages /\ \E tie \in TiesOf[r] : AppendMessage(r, tie)
       \/ Sync(r, s)

-----------------------------------------------------------------------------
(* The deep history.  Replicas 1 and 2 fork, cross and merge below clock 8; *)
(* replica 3 is alone up to clock 9, merges, and goes on to clock 17.       *)

Signs(n) == [i \in 1..n |-> [with |-> 0]]
\* a sync with a replica that has taken so many steps
Syncs(r, steps) == <<[with |-> r, steps |-> steps]>>

Story ==
  << Signs(4) \o Syncs(2, 5) \o Signs(4),
     Signs(2) \o Syncs(1, 2) \o Signs(2),
     Signs(9) \o Syncs(1, 9) \o Signs(8) >>

Act(r, step) ==
  IF step.with = 0
    THEN \E tie \in TiesOf[r] : AppendMessage(r, tie)
    ELSE taken[step.with] = step.steps /\ Sync(r, step.with)

StoryInit == Init /\ taken = [r \in Replicas |-> 0]

StoryNext ==
  /\ taken # <<>>
  /\ \E r \in Replicas :
       /\ taken[r] < Len(Story[r])
       /\ Act(r, Story[r][taken[r] + 1])
       /\ taken' = [taken EXCEPT ![r] = @ + 1]

StorySpec == StoryInit /\ [][StoryNext]_<<vars, taken>>

-----------------------------------------------------------------------------
EitherInit == FreeInit \/ StoryInit
EitherNext == FreeNext \/ StoryNext
=============================================================================
