----------------------------- MODULE MCGossipLog -----------------------------
(***************************************************************************)
(* Small instances of GossipLog: the configurations the repository opens   *)
(* a log with, over three or four messages whose parents are chosen freely.*)
(***************************************************************************)
EXTENDS GossipLog, TLC

Symmetry == Permutations(Ids)

Config(index, rollback, durable, throws, closed) ==
  [ indexAncestors |-> index, rollback |-> rollback, durable |-> durable,
    applyMayThrow |-> throws, closedPeers |-> closed ]

MemoryIndexed  == Config(TRUE,  FALSE, FALSE, TRUE,  FALSE)
MemoryDefault  == Config(FALSE, FALSE, FALSE, FALSE, TRUE)
BrowserIndexed == Config(TRUE,  FALSE, TRUE,  FALSE, FALSE)
NodeIndexed    == Config(TRUE,  TRUE,  TRUE,  FALSE, TRUE)
NodeIndexedThrows == Config(TRUE, TRUE, TRUE, TRUE, TRUE)
NodeDefault    == Config(FALSE, TRUE,  TRUE,  TRUE,  FALSE)

AllConfigs ==
  {MemoryIndexed, MemoryDefault, BrowserIndexed, NodeIndexed, NodeIndexedThrows, NodeDefault}

\* Three messages are enough, and all that fit, for the configuration in which
\* nothing is ruled out; the others get four.
Bound == config = NodeDefault => Cardinality(created) <= 3
=============================================================================
