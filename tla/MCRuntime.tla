------------------------------ MODULE MCRuntime ------------------------------
(***************************************************************************)
(* Two replicas and one key, set up in each way that the program has, with  *)
(* and without lost transactions.                                          *)
(***************************************************************************)
EXTENDS Runtime, TLC

CONSTANTS a, b, k

Symmetry == Permutations({a, b})

\* An index of ancestors without history is not to be had.
AllConfigs == {c \in ConfigType : c.indexAncestors => c.indexHistory}
=============================================================================
