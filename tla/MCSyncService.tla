---------------------------- MODULE MCSyncService ----------------------------
(***************************************************************************)
(* Two peers, each of which appends a message: with logs in memory, that   *)
(* connect twice and of which one may be stopped; and in browsers, with two *)
(* streams each way.                                                       *)
(***************************************************************************)
EXTENDS SyncService

CONSTANTS a, b

OneEach == [p \in Peers |-> 1]

Setup(browsers, stoppers, most, times) ==
  [browsers |-> browsers, stoppers |-> stoppers, streams |-> most, connects |-> times]

MemoryAndBrowsers == {Setup({}, {a}, 1, 2), Setup({a, b}, {}, 2, 1)}
BothStop == {Setup({}, {a, b}, 1, 1)}
=============================================================================
