------------------------------ MODULE LiveHook -------------------------------
(***************************************************************************)
(* LiveQuery beside ModelDB: its parameters and state, as ModelDB's        *)
(* module for model checking and its proofs both have them.                *)
(***************************************************************************)
CONSTANTS Components, Databases, Models, HookQueries, MaxSubs, MaxWrites

VARIABLES input, refs, shown, subs, nextId, reads, data, overtaken, crossed

hook == <<input, refs, shown, subs, nextId, reads, data, overtaken, crossed>>

Hook == INSTANCE LiveQuery WITH Queries <- HookQueries

\* The component shows its query, and has one subscription (useLiveQuery.ts:19-61).
ShowsQuery == Hook!ShowsQuery
=============================================================================
