---------------------------- MODULE PeerPresence -----------------------------
(***************************************************************************)
(* Discovery with no name that SyncService has too: its parameters and     *)
(* state, as its module for model checking and its proofs both have them.  *)
(***************************************************************************)
CONSTANTS me, Others, Topics, Subscriptions, Movers, TrackAll, MinPeers, MaxChanges, MaxLost

VARIABLES
  trackAll, started, running, links, topics, cache, told, moved, announced, flush, expected,
  wire, asks, job, changes, lost

Presence == INSTANCE Discovery WITH due <- expected, queue <- asks

\* Whoever is in the cache as one to be shown was announced since its entry was
\* made, except where topics changed (discovery/service.ts:523-558).
CacheAnnounced == Presence!CacheAnnounced
=============================================================================
