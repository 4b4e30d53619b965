------------------------------ MODULE Discovery ------------------------------
(***************************************************************************)
(* The discovery service (packages/discovery) of one peer, me: heartbeats  *)
(* on a discovery topic, the queue of fetches that a new connection starts, *)
(* the cache of peers that both fill, and the presence events that an      *)
(* application hears.  Answering the fetches of others changes no state.   *)
(*                                                                         *)
(* Time is counted in heartbeat intervals.  An entry of the cache was heard *)
(* of in this interval (fresh), in the one before (old), earlier (stale) or *)
(* only from others (unheard: lastSeen is null).  A heartbeat arrives or is *)
(* lost within its interval.  The other peers and libp2p - links, identify, *)
(* and what gossipsub knows of subscribers and mesh - are external: others *)
(* send heartbeats while they run and name any peer when they are asked.   *)
(* Our own heartbeats (publishHeartbeat, in the interval, after the first  *)
(* connection and in response to a join) do what they do elsewhere, and a  *)
(* dial that succeeds is a connection like any other.                      *)
(***************************************************************************)
EXTENDS Integers, Sequences, FiniteSets

CONSTANTS
  me,
  Others,
  Topics,        \* application topics
  Subscriptions, \* the application topics each peer subscribes to at first
  Movers,        \* bound: the peers that change topics
  TrackAll,      \* values of the option trackAllPeers
  MinPeers,      \* minPeersPerTopic
  MaxChanges,    \* bound: how often peers and links come and go, and topics change
  MaxLost        \* bound: how many heartbeats are lost

Peers == Others \cup {me}

ConstantsFit ==
  /\ me \notin Others
  /\ Subscriptions \in [Peers -> SUBSET Topics]
  /\ Movers \subseteq Peers /\ TrackAll \subseteq BOOLEAN
  /\ MinPeers \in Nat \ {0} /\ MaxChanges \in Nat /\ MaxLost \in Nat

VARIABLES
  trackAll,   \* the option trackAllPeers
  started,    \* afterStart was called and beforeStop was not
  running,    \* the other peers that run
  links,      \* topologyPeers
  topics,     \* the application topics that each peer is subscribed to
  cache,      \* discoveryPeers: when each was last heard of
  told,       \* discoveryPeers: the topics that each was last told to be on
  moved,      \* history: who of the cache was told to be on other topics since its
              \* entry was made, or when this peer changed its own
  announced,  \* history: who of the cache was announced (presence:join)
  flush,      \* the one timer that flushes who was never heard of
  due,        \* the peers whose heartbeat of this interval is still to come
  wire,       \* the heartbeats in flight: the peer and its topics
  queue,      \* discoveryQueue: the connections to ask for peers
  job,        \* what the running job of the queue is at
  changes, lost

world == <<trackAll, started, running, links, topics, changes, lost>>
presence == <<cache, told, moved, announced>>
vars == <<world, presence, flush, due, wire, queue, job>>

-----------------------------------------------------------------------------
(* Presence *)

\* The neighbours subscribed to a topic: of some of them gossipsub knows
\* (getSubscribers), and some are in its mesh (getMeshPeers).
Subscribers(t) == {q \in links : t \in topics[q]}

Known == {q \in Others : cache[q] # "absent"}

\* shouldEmitPresence, of a peer on these topics
Shown(on) == topics[me] \cap on # {} \/ trackAll

\* Mutant: presence:join is left to the heartbeats.
HandlePeerEventActive(q, on, heard) ==
  LET existed == cache[q] # "absent" IN
  /\ cache' = [cache EXCEPT ![q] =
       IF heard THEN "fresh" ELSE IF existed THEN @ ELSE "unheard"]
  /\ told' = [told EXCEPT ![q] = on]
  /\ moved' = IF existed /\ on # told[q] THEN moved \cup {q} ELSE moved
  /\ announced' = IF ~existed /\ Shown(on) /\ heard THEN announced \cup {q} ELSE announced

\* handlePeerEvent, for a heartbeat (heard) or the answer to a fetch, of a peer
\* said to be on these topics: an entry that is there takes them without an event.
HandlePeerEvent(q, on, heard) ==
  LET existed == cache[q] # "absent" IN
  /\ cache' = [cache EXCEPT ![q] =
       IF heard THEN "fresh" ELSE IF existed THEN @ ELSE "unheard"]
  /\ told' = [told EXCEPT ![q] = on]
  /\ moved' = IF existed /\ on # told[q] THEN moved \cup {q} ELSE moved
  /\ announced' = IF ~existed /\ Shown(on) THEN announced \cup {q} ELSE announced

\* Entries are deleted, and made anew if the peer is heard of again.
Delete(gone) ==
  /\ cache' = [q \in Others |-> IF q \in gone THEN "absent" ELSE cache[q]]
  /\ told' = [q \in Others |-> IF q \in gone THEN {} ELSE told[q]]
  /\ moved' = moved \ gone /\ announced' = announced \ gone

-----------------------------------------------------------------------------
(* Peers, links and subscriptions come and go *)

NoJob == [at |-> "idle"]

Init ==
  /\ trackAll \in TrackAll /\ started = TRUE
  /\ running = Others /\ links = {} /\ topics = Subscriptions
  /\ cache = [q \in Others |-> "absent"] /\ told = [q \in Others |-> {}]
  /\ moved = {} /\ announced = {}
  /\ flush = "set" /\ due = {} /\ wire = {} /\ queue = <<>> /\ job = NoJob
  /\ changes = 0 /\ lost = 0

Change == changes < MaxChanges /\ changes' = changes + 1

Join(q) ==
  /\ q \notin running /\ Change
  /\ running' = running \cup {q}
  /\ UNCHANGED <<trackAll, started, links, topics, lost, presence, flush, due, wire, queue, job>>

\* A peer subscribes to a topic or unsubscribes from it; who changes its own
\* announces no one for it.
Move(p, t) ==
  /\ Change
  /\ topics' = [topics EXCEPT ![p] = IF t \in @ THEN @ \ {t} ELSE @ \cup {t}]
  /\ moved' = IF p = me THEN Known ELSE moved
  /\ UNCHANGED <<trackAll, started, running, links, lost, cache, told, announced, flush, due,
                 wire, queue, job>>

\* onDisconnect: the entry goes, without an event.
OnDisconnect(q) ==
  /\ links' = links \ {q}
  /\ Delete(IF q \in links THEN {q} ELSE {})

\* Another peer stops or crashes.  Its heartbeats may still arrive.
Part(q) ==
  /\ q \in running /\ Change
  /\ running' = running \ {q} /\ due' = due \ {q}
  /\ OnDisconnect(q)
  /\ UNCHANGED <<trackAll, started, topics, lost, flush, wire, queue, job>>

Disconnect(q) ==
  /\ q \in links /\ Change
  /\ OnDisconnect(q)
  /\ UNCHANGED <<trackAll, started, running, topics, lost, flush, due, wire, queue, job>>

\* A connection opens, and onConnect asks for more peers (handleConnect).
Connect(q) ==
  /\ q \in running \ links /\ Change
  /\ links' = links \cup {q}
  /\ queue' = Append(queue, q)
  /\ UNCHANGED <<trackAll, started, running, topics, lost, presence, flush, due, wire, job>>

\* beforeStop: the intervals are cleared, timers that were set once are not;
\* the queue is cleared and its running job awaited.
BeforeStop ==
  /\ started /\ Change
  /\ started' = FALSE /\ queue' = <<>>
  /\ UNCHANGED <<trackAll, running, links, topics, lost, presence, flush, due, wire, job>>

-----------------------------------------------------------------------------
(* Active discovery *)

\* Another peer publishes, at its interval or in response to a join, and gossip
\* brings it here if there is a link at all.  Of the responses, of which there
\* are a few in an interval, those that would tell nothing new are left out.
Send(q) ==
  LET heartbeat == <<q, topics[q]>> IN
  /\ q \in running
  /\ \/ q \in due
     \/ links # {} /\ heartbeat \notin wire /\ cache[q] # "fresh"
  /\ due' = due \ {q}
  /\ wire' = IF links = {} THEN wire ELSE wire \cup {heartbeat}
  /\ UNCHANGED <<world, presence, flush, queue, job>>

\* The listener of messages on the discovery topic.
Deliver(q, on) ==
  /\ <<q, on>> \in wire /\ wire' = wire \ {<<q, on>>}
  /\ HandlePeerEvent(q, on, TRUE)
  /\ UNCHANGED <<world, flush, due, queue, job>>

Lose(q, on) ==
  /\ <<q, on>> \in wire /\ lost < MaxLost
  /\ wire' = wire \ {<<q, on>>} /\ lost' = lost + 1
  /\ UNCHANGED <<trackAll, started, running, links, topics, changes, presence, flush, due,
                 queue, job>>

\* An interval after the start: who is known only from others leaves.
Flush ==
  /\ flush = "due" /\ flush' = "done"
  /\ Delete({q \in Others : cache[q] = "unheard"})
  /\ UNCHANGED <<world, due, wire, queue, job>>

\* Mutant: a threshold shorter than the interval.
SilentEarly(q) == cache[q] \in {"old", "stale"}

\* Mutant: only who has been connected is evicted.
SilentLinked(q) == q \in links /\ cache[q] = "stale"

\* The last heartbeat may be older than the threshold, an interval and a half:
\* the next one did not arrive.
Silent(q) == cache[q] = "stale" \/ (cache[q] = "old" /\ q \notin due /\ \A on \in SUBSET Topics : <<q, on>> \notin wire)

Evict(q) ==
  /\ started /\ Silent(q)
  /\ Delete({q})
  /\ UNCHANGED <<world, flush, due, wire, queue, job>>

\* The interval ends: all that falls due within it is done.
Tick ==
  /\ due = {} /\ wire = {} /\ flush # "due"
  /\ started => \A q \in Others : cache[q] # "stale"
  /\ cache' = [q \in Others |->
       CASE cache[q] = "fresh" -> "old" [] cache[q] = "old" -> "stale" [] OTHER -> cache[q]]
  /\ flush' = IF flush = "set" THEN "due" ELSE flush
  /\ due' = running
  /\ UNCHANGED <<world, told, moved, announced, wire, queue, job>>

-----------------------------------------------------------------------------
(* Passive discovery: the jobs that handleConnect queues, one at a time *)

\* The loop over the topics up to its next await: topics whose mesh is large
\* enough are passed over, then the remote peer is asked about one that wants
\* more, or the job ends.
GoOn(remote, more) ==
  \E passed \in SUBSET more :
    /\ \A t \in passed : Cardinality(Subscribers(t)) >= MinPeers
    /\ \/ passed = more /\ job' = NoJob
       \/ \E t \in more \ passed : \E mesh \in SUBSET Subscribers(t) :
            /\ Cardinality(mesh) < MinPeers
            /\ job' = [at |-> "asking", remote |-> remote, topic |-> t, mesh |-> mesh,
                       more |-> more \ (passed \cup {t})]

NextJob ==
  /\ job = NoJob /\ queue # <<>> /\ queue' = Tail(queue)
  /\ GoOn(Head(queue), topics[me])
  /\ UNCHANGED <<world, presence, flush, due, wire>>

\* The topics that another peer may hold of q: those of now, or of the beginning.
Heard(q) == {topics[q], Subscriptions[q]}

\* The fetch fails, or is answered with peers that the remote peer takes to be on
\* the topic, or all it knows.
Fetched ==
  /\ job.at = "asking"
  /\ \/ GoOn(job.remote, job.more)
     \/ /\ job.remote \in links
        /\ job' = [at |-> "answered", remote |-> job.remote, mesh |-> job.mesh,
                   more |-> job.more,
                   left |-> IF trackAll THEN Peers
                            ELSE {q \in Peers : \E on \in Heard(q) : job.topic \in on}]
  /\ UNCHANGED <<world, presence, flush, due, wire, queue>>

\* The next peer of the answer: the peer itself, or one of the mesh, ends the
\* job, with what is left of the answer and of the topics (448-451); any other
\* goes into the cache, as unheard unless it is there, with the topics that the
\* remote peer was last told of, and is dialed.
TakePeer ==
  /\ job.at = "answered"
  /\ \/ GoOn(job.remote, job.more) /\ UNCHANGED presence
     \/ /\ job.left \cap ({me} \cup job.mesh) # {}
        /\ job' = NoJob /\ UNCHANGED presence
     \/ \E q \in job.left \ ({me} \cup job.mesh) : \E on \in Heard(q) :
        /\ job' = [job EXCEPT !.left = @ \ {q}]
        /\ HandlePeerEvent(q, on, FALSE)
  /\ UNCHANGED <<world, flush, due, wire, queue>>

-----------------------------------------------------------------------------
TimePasses ==
  \/ Tick \/ Flush
  \/ \E q \in Others :
       \/ (q \in due /\ Send(q)) \/ Evict(q)
       \/ \E on \in SUBSET Topics : Deliver(q, on)

Next ==
  \/ Tick \/ Flush \/ BeforeStop \/ NextJob \/ Fetched \/ TakePeer
  \/ \E q \in Others :
       \/ Join(q) \/ Part(q) \/ Connect(q) \/ Disconnect(q)
       \/ Send(q) \/ Evict(q) \/ \E on \in SUBSET Topics : Deliver(q, on) \/ Lose(q, on)
  \/ \E p \in Movers, t \in Topics : Move(p, t)

\* Timers fire and heartbeats arrive within their interval.
Spec == Init /\ [][Next]_vars /\ WF_vars(TimePasses)

-----------------------------------------------------------------------------
(* Properties *)

\* CacheAnnounced.  Whoever is in the cache as a peer on a topic of ours, or at all
\* where all peers are tracked, by a heartbeat or by the answer to a fetch that was
\* under way meanwhile, was announced since its entry was made; except who had an
\* entry already when it, or this peer, changed topics (523, 538, 552).
CacheAnnounced == \A q \in Known : Shown(told[q]) => q \in announced \cup moved

\* PeersMeet.  Once peers and links stay as they are, whoever runs is in the
\* cache for good: neither the flush, nor evictions, nor late answers take it
\* out, although heartbeats and the timer that evicts are not in step.
PeersMeet ==
  \A q \in Others : <>[](started /\ q \in running /\ links # {}) => <>[](q \in Known)

\* GoneUnheard.  Of a peer that stopped for good no entry with a last heartbeat
\* stays, although heartbeats of it may arrive after it stopped.
GoneUnheard ==
  \A q \in Others :
    <>[](started /\ q \notin running) => <>[](cache[q] \in {"absent", "unheard"})

=============================================================================
