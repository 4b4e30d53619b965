------------------------------ MODULE LogAccess ------------------------------
(***************************************************************************)
(* Iteration beside AncestorIndex, with which it is checked, and Driver:   *)
(* its parameters and state, as both MCReads and the proofs have them.     *)
(***************************************************************************)
CONSTANTS Kinds, Iterators, Readers, Writers, Inserts, Inners, Stored

VARIABLES kind, inner, store, queue, held, txn, phase, left, base, seen

iteration == <<kind, inner, store, queue, held, txn, phase, left, base, seen>>

Access == INSTANCE Iteration

\* Who reads the log while it is written reads all there is, of one moment
\* (gossiplog/src/node, memory and browser, index.ts).
ReadsSound == Access!ReadsSound
=============================================================================
