----------------------------- MODULE SyncService -----------------------------
(***************************************************************************)
(* Merkle syncs between peers (packages/gossiplog/src/sync/service.ts) over *)
(* logs in memory (memory/index.ts) or in a browser (browser/index.ts):     *)
(* which syncs are scheduled, the locks a sync holds at both ends, and the  *)
(* timers and retries that break the deadlocks this can lead to.            *)
(*                                                                          *)
(* A log runs its transactions in order: in memory one at a time, in a      *)
(* browser, by web locks, reads together.  The sync of p with q is a write  *)
(* at p that waits for answers from a read at q, over a stream that p       *)
(* opened.  Timers and waits have no length here: they may end at any time, *)
(* and do end.                                                              *)
(***************************************************************************)
EXTENDS Integers, SequencesExt, FiniteSets

CONSTANTS
  Peers,
  Appends,       \* bound: how many messages each peer appends
  RetryLimit,    \* SYNC_RETRY_LIMIT
  MaxQueueSize,  \* MAX_SYNC_QUEUE_SIZE
  MaxStreams,    \* bound: streams from one peer to another at a time
  Setups         \* whose log is in a browser; bounds: who may be stopped, how
                 \* many streams there are from one to another, how many connects

ASSUME BoundsAssumption ==
  /\ RetryLimit \in Nat \ {0} /\ MaxQueueSize \in Nat \ {0} /\ MaxStreams \in Nat
  /\ Appends \in [Peers -> Nat]
  /\ Setups \subseteq [browsers : SUBSET Peers, stoppers : SUBSET Peers,
                       streams : 1..MaxStreams, connects : Nat]

VARIABLES
  setup,
  connected,  \* pairs of peers with a connection
  connects,   \* how many there have been
  due,        \* <<p, q>>: p has yet to be told that q connected
  \* the sync service
  phase,      \* of each service: "started", "stopping", "stopped"
  queue,      \* syncQueue: peers to sync with, the first of them now
  marked,     \* syncQueuePeers
  history,    \* syncHistory: peers synced with
  attempt,    \* of the first in the queue: how many attempts have failed
  syncing,    \* whether an attempt is under way, and over which stream
  \* streams
  open,       \* streams that neither end has closed or aborted
  arriving,   \* streams whose handler has not been called yet
  timers,     \* <<p, s>>: the signal that aborts s at p can still fire
  \* the logs
  log,        \* the messages of each peer
  lock,       \* the queue of transactions: the first is running
  unmarked    \* running reads that are no longer in incomingSyncPeers

service == <<phase, queue, marked, history, attempt, syncing>>
streams == <<open, arriving, timers>>
locks == <<lock, unmarked>>
vars == <<setup, connected, connects, due, service, streams, log, locks>>

Streams == {s \in [from : Peers, to : Peers, n : 1..MaxStreams] : s.from # s.to}
Read(s)  == [kind |-> "read",  stream |-> s]
Write(s) == [kind |-> "write", stream |-> s]
Local(m) == [kind |-> "local", message |-> m]

NoStream == [n |-> 0]

\* The k-th message of each peer.
Own(p) == {<<p, k>> : k \in 1..Appends[p]}
Messages == UNION {Own(p) : p \in Peers}

-----------------------------------------------------------------------------
(* Helpers *)

Idle(p) == queue[p] = <<>>
Target(p) == Head(queue[p])

\* The job that has started, of a queue that is cleared.
Started(jobs) == IF jobs = <<>> THEN <<>> ELSE <<Head(jobs)>>

\* The first transaction, and in a browser the reads that no write is before.
Runs(p, i) ==
  \/ i = 1
  \/ p \in setup.browsers /\ \A j \in 1..i : lock[p][j].kind = "read"
Running(p, task) == \E i \in DOMAIN lock[p] : Runs(p, i) /\ lock[p][i] = task

\* incomingSyncPeers and outgoingSyncPeers: with whom a sync is running.  The
\* first of several reads for a peer to end takes the peer out.
Serves(p, q) ==
  \E s \in Streams \ unmarked : s.from = q /\ s.to = p /\ Running(p, Read(s))
Pulls(p, q) == lock[p] # <<>> /\ Head(lock[p]).kind = "write" /\ Head(lock[p]).stream.to = q

InUse(s) ==
  \/ s \in open \cup arriving
  \/ \E p \in {s.from, s.to} : \E i \in DOMAIN lock[p] :
       lock[p][i] \in {Read(s), Write(s)}

Request(p, task) == lock' = [lock EXCEPT ![p] = Append(@, task)]
Release(p, task) ==
  \E i \in DOMAIN lock[p] :
    Runs(p, i) /\ lock[p][i] = task /\ lock' = [lock EXCEPT ![p] = RemoveAt(@, i)]

\* Either end aborts or ends these streams; their timers are cleared.
Close(S) ==
  /\ open' = open \ S
  /\ timers' = {t \in timers : t[2] \notin S}

\* scheduleSync, with the conditions on which it drops the sync.  Whether the
\* last sync with q was within SYNC_COOLDOWN_PERIOD is left open.
ScheduleSync(p, q) ==
  \/ /\ q \in marked[p] \/ Len(queue[p]) > MaxQueueSize \/ q \in history[p]
     /\ UNCHANGED <<queue, marked>>
  \/ /\ q \notin marked[p] /\ Len(queue[p]) <= MaxQueueSize
     /\ queue' = [queue EXCEPT ![p] = Append(@, q)]
     /\ marked' = [marked EXCEPT ![p] = @ \cup {q}]

\* The first job of the queue ends, and the next one starts.
EndJob(p) ==
  /\ queue' = [queue EXCEPT ![p] = Tail(@)]
  /\ marked' = [marked EXCEPT ![p] = @ \ {Target(p)}]
  /\ attempt' = [attempt EXCEPT ![p] = 0]
  /\ syncing' = [syncing EXCEPT ![p] = NoStream]

\* Mutant: a job that fails leaves its mark.
FailKeepsMark(p) ==
  IF phase[p] # "started" \/ attempt[p] + 1 = RetryLimit
    THEN /\ queue' = [queue EXCEPT ![p] = Tail(@)]
         /\ attempt' = [attempt EXCEPT ![p] = 0]
         /\ syncing' = [syncing EXCEPT ![p] = NoStream]
         /\ UNCHANGED marked
    ELSE /\ attempt' = [attempt EXCEPT ![p] = @ + 1]
         /\ syncing' = [syncing EXCEPT ![p] = NoStream]
         /\ UNCHANGED <<queue, marked>>

\* Mutant: failed attempts are not counted, nor is the service looked at.
FailForgets(p) ==
  /\ syncing' = [syncing EXCEPT ![p] = NoStream]
  /\ UNCHANGED <<queue, marked, attempt>>

\* An attempt fails: wait and try again, or give up.
Fail(p) ==
  IF phase[p] # "started" \/ attempt[p] + 1 = RetryLimit
    THEN EndJob(p)
    ELSE /\ attempt' = [attempt EXCEPT ![p] = @ + 1]
         /\ syncing' = [syncing EXCEPT ![p] = NoStream]
         /\ UNCHANGED <<queue, marked>>

-----------------------------------------------------------------------------
Init ==
  /\ setup \in Setups
  /\ connected = {} /\ connects = 0
  /\ due = {}
  /\ phase = [p \in Peers |-> "started"]
  /\ queue = [p \in Peers |-> <<>>]
  /\ marked = [p \in Peers |-> {}]
  /\ history = [p \in Peers |-> {}]
  /\ attempt = [p \in Peers |-> 0]
  /\ syncing = [p \in Peers |-> NoStream]
  /\ open = {} /\ arriving = {} /\ timers = {}
  /\ log = [p \in Peers |-> {}]
  /\ lock = [p \in Peers |-> <<>>] /\ unmarked = {}

(* Connections *)

Connect(p, q) ==
  /\ p # q /\ {p, q} \notin connected /\ connects < setup.connects
  /\ connected' = connected \cup {{p, q}}
  /\ connects' = connects + 1
  /\ due' = due \cup {<<p, q>>, <<q, p>>}
  /\ UNCHANGED <<setup, service, streams, log, locks>>

Disconnect(p, q) ==
  /\ {p, q} \in connected
  /\ connected' = connected \ {{p, q}}
  /\ Close({s \in open : {s.from, s.to} = {p, q}})
  /\ UNCHANGED <<setup, connects, due, service, arriving, log, locks>>

\* The topology's onConnect.  onDisconnect only drops the peer from
\* topologyPeers, which nothing reads.
OnConnect(p, q) ==
  /\ <<p, q>> \in due
  /\ due' = due \ {<<p, q>>}
  /\ IF phase[p] = "stopped" THEN UNCHANGED <<queue, marked>> ELSE ScheduleSync(p, q)
  /\ UNCHANGED <<setup, connected, connects, phase, history, attempt, syncing, streams, log, locks>>

-----------------------------------------------------------------------------
(* The client: one attempt to sync with the first peer of the queue *)

\* dial finds no connection, or no stream can be opened.
DialFails(p) ==
  /\ ~Idle(p) /\ syncing[p] = NoStream
  /\ {p, Target(p)} \notin connected \/ phase[Target(p)] = "stopped"
  /\ Fail(p)
  /\ UNCHANGED <<setup, connected, connects, due, phase, history, streams, log, locks>>

\* A stream is opened.  log.sync asks for a write at once, and is refused when
\* a read for the same peer is running.
Dial(p) ==
  /\ ~Idle(p) /\ syncing[p] = NoStream
  /\ {p, Target(p)} \in connected /\ phase[Target(p)] # "stopped"
  /\ \E n \in 1..setup.streams :
       LET s == [from |-> p, to |-> Target(p), n |-> n] IN
       /\ ~InUse(s) /\ \A k \in 1..(n - 1) : InUse([s EXCEPT !.n = k])
       /\ arriving' = arriving \cup {s}
       /\ IF Serves(p, Target(p))
            THEN Fail(p) /\ UNCHANGED <<open, timers, lock>>
            ELSE /\ open' = open \cup {s}
                 /\ timers' = IF phase[p] = "started" THEN timers \cup {<<p, s>>} ELSE timers
                 /\ syncing' = [syncing EXCEPT ![p] = s]
                 /\ Request(p, Write(s))
                 /\ UNCHANGED <<queue, marked, attempt>>
  /\ UNCHANGED <<setup, connected, connects, due, phase, history, log, unmarked>>

\* The driver receives a message of the source and inserts it.
Transfer(p, m) ==
  LET s == syncing[p] IN
  /\ s \in open /\ Running(p, Write(s)) /\ Running(s.to, Read(s))
  /\ m \in log[s.to] \ log[p]
  /\ log' = [log EXCEPT ![p] = @ \cup {m}]
  /\ UNCHANGED <<setup, connected, connects, due, service, streams, locks>>

\* Nothing of the source is missing.
SyncSucceeds(p) ==
  LET s == syncing[p] IN
  /\ s \in open /\ Running(p, Write(s)) /\ Running(s.to, Read(s))
  /\ log[s.to] \subseteq log[p]
  /\ history' = [history EXCEPT ![p] = @ \cup {s.to}]
  /\ EndJob(p)
  /\ Close({s})
  /\ Release(p, Write(s))
  /\ UNCHANGED <<setup, connected, connects, due, phase, arriving, log, unmarked>>

\* Mutant: the attempt fails as soon as its stream is aborted.
SyncFailsEarly(p) ==
  LET s == syncing[p] IN
  /\ s # NoStream /\ s \notin open
  /\ Fail(p)
  /\ IF Running(p, Write(s)) THEN Release(p, Write(s)) ELSE UNCHANGED lock
  /\ UNCHANGED <<setup, connected, connects, due, phase, history, streams, log, unmarked>>

\* Mutant: a write that throws is not taken off the queue.
SyncFailsHolding(p) ==
  LET s == syncing[p] IN
  /\ s # NoStream /\ s \notin open /\ Running(p, Write(s))
  /\ Fail(p)
  /\ UNCHANGED <<setup, connected, connects, due, phase, history, streams, log, locks>>

\* The stream was aborted, and the write that is running throws.
SyncFails(p) ==
  LET s == syncing[p] IN
  /\ s # NoStream /\ s \notin open /\ Running(p, Write(s))
  /\ Fail(p)
  /\ Release(p, Write(s))
  /\ UNCHANGED <<setup, connected, connects, due, phase, history, streams, log, unmarked>>

-----------------------------------------------------------------------------
(* The server *)

\* handleIncomingStream: a read is refused when a write from the same peer is
\* running.  A handler called while the service stops has no timer: its signal
\* is aborted before it gets a listener.
Incoming(s) ==
  /\ s \in arriving
  /\ arriving' = arriving \ {s}
  /\ IF phase[s.to] = "stopped" \/ Pulls(s.to, s.from)
       THEN Close({s}) /\ UNCHANGED lock
       ELSE /\ Request(s.to, Read(s))
            /\ timers' = IF s \in open /\ phase[s.to] = "started"
                           THEN timers \cup {<<s.to, s>>} ELSE timers
            /\ UNCHANGED open
  /\ UNCHANGED <<setup, connected, connects, due, service, log, unmarked>>

\* The stream was ended or aborted, and so is the read.
ReadEnds(s) ==
  /\ s \notin open /\ Running(s.to, Read(s))
  /\ Release(s.to, Read(s))
  /\ unmarked' = (unmarked \ {s}) \cup
       {t \in Streams \ {s} : t.from = s.from /\ t.to = s.to /\ Running(s.to, Read(t))}
  /\ UNCHANGED <<setup, connected, connects, due, service, streams, log>>

\* Three seconds have passed at one of the ends.
Expire(p, s) ==
  /\ <<p, s>> \in timers
  /\ Close({s})
  /\ UNCHANGED <<setup, connected, connects, due, service, arriving, log, locks>>

-----------------------------------------------------------------------------
(* Other writes, and the end *)

Requested(p, m) == m \in log[p] \/ \E i \in DOMAIN lock[p] : lock[p][i] = Local(m)

LocalAppend(p, k) ==
  /\ ~Requested(p, <<p, k>>) /\ \A j \in 1..(k - 1) : Requested(p, <<p, j>>)
  /\ Request(p, Local(<<p, k>>))
  /\ UNCHANGED <<setup, connected, connects, due, service, streams, log, unmarked>>

LocalCommit(p) ==
  /\ lock[p] # <<>> /\ Head(lock[p]).kind = "local"
  /\ log' = [log EXCEPT ![p] = @ \cup {Head(lock[p]).message}]
  /\ Release(p, Head(lock[p]))
  /\ UNCHANGED <<setup, connected, connects, due, service, streams, unmarked>>

\* stop aborts every stream, drops the jobs that have not started, and waits
\* for the one that has.
Stop(p) ==
  /\ p \in setup.stoppers /\ phase[p] = "started"
  /\ phase' = [phase EXCEPT ![p] = "stopping"]
  /\ queue' = [queue EXCEPT ![p] = Started(@)]
  /\ Close({t[2] : t \in {t \in timers : t[1] = p}})
  /\ UNCHANGED <<setup, connected, connects, due, marked, history, attempt, syncing, arriving, log, locks>>

Stopped(p) ==
  /\ phase[p] = "stopping" /\ Idle(p)
  /\ phase' = [phase EXCEPT ![p] = "stopped"]
  /\ UNCHANGED <<setup, connected, connects, due, queue, marked, history, attempt, syncing,
                 streams, log, locks>>

-----------------------------------------------------------------------------
Environment ==
  \/ \E p, q \in Peers : Connect(p, q) \/ Disconnect(p, q)
  \/ \E p \in Peers : Stop(p) \/ \E k \in 1..Appends[p] : LocalAppend(p, k)

\* What the event loop does at one peer: callbacks, the first job of the sync
\* queue, and the transaction that is running.
Callback(p) == \E q \in Peers : OnConnect(p, q)
Accept(p) == \E s \in Streams : s.to = p /\ Incoming(s)
Attempt(p) == DialFails(p) \/ Dial(p)
Transact(p) ==
  \/ \E m \in Messages : Transfer(p, m)
  \/ SyncSucceeds(p) \/ SyncFails(p) \/ LocalCommit(p)
  \/ \E s \in Streams : s.to = p /\ ReadEnds(s)
Timeout(p) == \E s \in Streams : Expire(p, s)

Next ==
  \/ Environment
  \/ \E p \in Peers :
       Callback(p) \/ Accept(p) \/ Attempt(p) \/ Transact(p) \/ Timeout(p) \/ Stopped(p)

\* Handlers that are due are called, and every wait and timer ends.
Fairness ==
  \A p \in Peers :
    /\ WF_vars(Accept(p)) /\ WF_vars(Attempt(p)) /\ WF_vars(Transact(p))
    /\ WF_vars(Timeout(p)) /\ WF_vars(Stopped(p))

Spec == Init /\ [][Next]_vars /\ Fairness

-----------------------------------------------------------------------------
(* Properties *)

\* A peer is marked exactly while a sync with it is queued or running, so
\* that no mark outlives its sync (service.ts:225-274).  stop drops jobs with
\* their marks left behind.
MarkedIffQueued ==
  \A p \in Peers :
    /\ phase[p] = "started" => marked[p] = ToSet(queue[p])
    /\ \A i, j \in 1..Len(queue[p]) : queue[p][i] = queue[p][j] => i = j

\* The job at the head of the sync queue owns the write its attempt asked for,
\* queued or running, until that has ended: no attempt is over while its write
\* may still start (service.ts:277-299).
WriteOwned ==
  \A p \in Peers :
    /\ \A i \in DOMAIN lock[p] : lock[p][i].kind = "write" => lock[p][i].stream = syncing[p]
    /\ syncing[p] # NoStream =>
         /\ Target(p) = syncing[p].to
         /\ Cardinality({i \in DOMAIN lock[p] : lock[p][i] = Write(syncing[p])}) = 1

\* Where every peer is stopping, a deadlock stays: see DeadlockRecovers.
AllStopping == \A p \in Peers : phase[p] = "stopping"

\* A transaction that was asked for ends, whoever holds the lock before it:
\* local writes are not blocked for good by syncs that wait for each other.
LocalsCommit ==
  \A p \in Peers : \A m \in Own(p) : []<>((Requested(p, m) => m \in log[p]) \/ AllStopping)

\* A sync that was scheduled ends: it succeeds or gives up.
JobsEnd ==
  \A p \in Peers : \A q \in Peers \ {p} : []<>(q \notin ToSet(queue[p]) \/ AllStopping)

\* stop returns, whatever a peer that is not stopping does.
StopEnds == \A p \in Peers : []<>(phase[p] # "stopping" \/ AllStopping)

\* There is a deadlock recovery process (service.ts:230-234): two running syncs
\* that wait for each other do not do so forever.
Awaits(p, q) == Pulls(p, q) /\ ~Serves(q, p)
DeadlockRecovers ==
  \A p \in Peers : \A q \in Peers \ {p} :
    Awaits(p, q) /\ Awaits(q, p) ~> ~(Awaits(p, q) /\ Awaits(q, p))

=============================================================================
