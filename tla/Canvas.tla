------------------------------- MODULE Canvas --------------------------------
(***************************************************************************)
(* An action call of packages/core/src/Canvas.ts with what it goes         *)
(* through: the session signer of a chain and its store, the log with the  *)
(* runtime's consumer, the pubsub service of packages/gossiplog, and        *)
(* another replica.  Calls run concurrently and interleave wherever the    *)
(* code awaits.  Then the connections and the status that Canvas.ts shows: *)
(* libp2p's events and the rounds of pings, which may overlap.             *)
(*                                                                         *)
(* There is one wallet address.  A session is named by the call that       *)
(* created it, which also names its key.  The log of a topic is written by *)
(* this application only, in sequence, so that the ancestors of a message  *)
(* are those before it.                                                    *)
(***************************************************************************)
EXTENDS Integers, Sequences, FiniteSets

CONSTANTS
  Calls,
  Topics,
  Remotes,      \* other peers
  Setups,       \* ways in which application and signer are set up
  MaxTime,      \* bound: the last timestamp
  MaxEvents,    \* bound: restarts of the application, logouts, network changes
  MaxConns,     \* bound: connections to a peer at a time
  MaxRounds     \* bound: rounds of pings under way

SetupType == [
  browser : BOOLEAN,        \* the store of the browser, or that of node
  waits : BOOLEAN,          \* the signer awaits the wallet
  duration : Nat \ {0},     \* sessionDuration
  signsTopic : BOOLEAN,     \* the text that the wallet signs names the topic
  indexHistory : BOOLEAN,
  topicOf : [Calls -> Topics],
  calls : SUBSET Calls,     \* the calls that are made
  remotes : SUBSET Remotes ]

ASSUME ConstantsAssumption ==
  /\ Setups \subseteq SetupType /\ MaxTime \in Nat /\ MaxEvents \in Nat
  /\ MaxConns \in Nat /\ MaxRounds \in Nat

VARIABLES
  setup,
  clock,
  call,      \* where each call is
  cache,     \* SignerStore: the sessions in memory
  stored,    \* localStorage: the session of each topic
  log,       \* the messages of each topic
  started,   \* GossipLogService: whether it publishes and receives
  subscribed,  \* messageLogs: whether the logs of the topics are there
  syncing,   \* syncServices: whether the topics are synced
  wire,      \* <<topic, index>>: messages published; pubsub loses those that are
             \* never handled
  remote,    \* the indices of the messages of the other replica
  raced,     \* history: calls that saw the store change under way
  events,
  open,      \* libp2p: how many connections to each other peer are open
  listed,    \* connections: the status shown of each peer, or "none"
  status,    \* whether the application is shown as connected
  rounds,    \* the rounds of pings under way: peers to answer, subscribers
  late       \* history: peers listed by a ping that was settled after the last
             \* connection to them was closed

links == <<open, listed, status, rounds, late>>
service == <<started, subscribed, syncing>>
calling == <<clock, call, cache, stored, log, service, wire, remote, raced, events>>
vars == <<setup, calling, links>>
store == <<cache, stored>>
net == <<service, wire, remote>>

None == [by |-> "none"]
Sessions == [by : Calls, topic : Topics, from : 0..MaxTime]

-----------------------------------------------------------------------------
(* The store of the signer *)

\* Mutant: the store of node as in the browser.
SlotShared(t) == "address"

\* The store of node has a slot for each topic and address, that of the browser
\* one for the address.
Slot(t) == IF setup.browser THEN "address" ELSE t

\* get: in memory, and in the browser also in localStorage.
Get(t) == IF cache[Slot(t)] = None THEN stored[t] ELSE cache[Slot(t)]

\* set
Set(t, s) ==
  /\ cache' = [cache EXCEPT ![Slot(t)] = s]
  /\ stored' = IF setup.browser THEN [stored EXCEPT ![t] = s] ELSE stored

\* getSession: a stored session that is valid at that time.
ValidAt(s, time) == s # None /\ s.from <= time /\ time <= s.from + setup.duration

-----------------------------------------------------------------------------
(* Messages *)

\* getConsumer: what $sessions holds after the messages at some indices.
SessionsOf(t, indices) == {log[t][i].session : i \in {j \in indices : log[t][j].type = "session"}}

Expires(s) == s.from + setup.duration

\* verifySession: the text signed is made again for the topic; that of a SIWE
\* message leaves the topic out.
Verifies(t, s) == setup.signsTopic => s.topic = t

\* Mutant: a session that ends with the action is over.
ConsumesStrictly(t, message, indices) ==
  IF message.type = "session" THEN Verifies(t, message.session)
  ELSE \E s \in SessionsOf(t, indices) :
         s.by = message.session.by /\ Expires(s) > message.time

\* getConsumer: the session of a session message is verified for the topic; that
\* of an action, found by the key of its signature, is there and not over.
Consumes(t, message, indices) ==
  IF message.type = "session" THEN Verifies(t, message.session)
  ELSE \E s \in SessionsOf(t, indices) :
         s.by = message.session.by /\ Expires(s) >= message.time

Indices(t) == 1..Len(log[t])

-----------------------------------------------------------------------------
(* Calls *)

Topic(c) == setup.topicOf[c]
UnderWay(c) == call[c].at \in {"called", "signing", "found", "session", "action"}
Goes(c, state) == call' = [call EXCEPT ![c] = state]
Ends(c, how) == Goes(c, [at |-> how])

\* The log is subscribed before the node starts, which it does at once unless the
\* application is opened offline.
Init ==
  /\ setup \in Setups /\ clock = 0
  /\ call = [c \in Calls |-> [at |-> "idle"]]
  /\ cache = [k \in Topics \cup {"address"} |-> None]
  /\ stored = [t \in Topics |-> None]
  /\ log = [t \in Topics |-> <<>>] /\ remote = [t \in Topics |-> {}]
  /\ started \in BOOLEAN /\ subscribed = TRUE /\ syncing = TRUE /\ wire = {}
  /\ raced = {} /\ events = 0
  /\ open = [q \in Remotes |-> 0] /\ listed = [q \in Remotes |-> "none"]
  /\ status = "disconnected" /\ rounds = <<>> /\ late = {}

\* Only a call that is yet to be made will read the clock.
Tick ==
  /\ clock < MaxTime /\ clock' = clock + 1
  /\ \E c \in setup.calls : call[c].at = "idle"
  /\ UNCHANGED <<setup, links, call, store, log, net, raced, events>>

\* The timestamp is taken; getSession awaits the address.
Call(c) ==
  /\ call[c].at = "idle" /\ c \in setup.calls
  /\ Goes(c, [at |-> "called", time |-> clock])
  /\ UNCHANGED <<setup, links, clock, store, log, net, raced, events>>

\* A new session is stored over the one there is.
Create(c) ==
  LET s == [by |-> c, topic |-> Topic(c), from |-> call[c].time]
  IN /\ Set(Topic(c), s)
     /\ Goes(c, [at |-> "found", time |-> call[c].time, session |-> s])
     /\ raced' = raced \cup {d \in Calls \ {c} : UnderWay(d)}

\* getSession: the session in the store, else a new one, which the wallet has to
\* sign.
GetSession(c) ==
  /\ call[c].at = "called"
  /\ LET s == Get(Topic(c)) IN
     IF ValidAt(s, call[c].time)
       THEN /\ Goes(c, [at |-> "found", time |-> call[c].time, session |-> s])
            /\ cache' = [cache EXCEPT ![Slot(Topic(c))] = s]
            /\ UNCHANGED <<stored, raced>>
     ELSE IF setup.waits
       THEN Goes(c, [at |-> "signing", time |-> call[c].time]) /\ UNCHANGED <<store, raced>>
       ELSE Create(c)
  /\ UNCHANGED <<setup, links, clock, log, net, events>>

WalletSigns(c) ==
  /\ call[c].at = "signing" /\ Create(c)
  /\ UNCHANGED <<setup, links, clock, log, net, events>>

WalletRefuses(c) ==
  /\ call[c].at = "signing" /\ Ends(c, "refused")
  /\ UNCHANGED <<setup, links, clock, store, log, net, raced, events>>

Published(t, indices) ==
  wire' = IF started /\ subscribed THEN wire \cup ({t} \X indices) ELSE wire

\* The $sessions that match and end after the action: none, and the session is
\* to be appended; or the message of one is published once more, not awaited:
\* without a subscription that is a rejection nobody handles.
QuerySessions(c) ==
  /\ call[c].at = "found"
  /\ LET t == Topic(c)
         s == call[c].session
         found == {i \in Indices(t) :
                     /\ log[t][i].type = "session" /\ log[t][i].session = s
                     /\ Expires(s) > call[c].time}
     IN IF found = {}
          THEN call' = [call EXCEPT ![c].at = "session"] /\ UNCHANGED wire
          ELSE /\ call' = [call EXCEPT ![c].at = "action"]
               /\ \E i \in found : Published(t, {i})
  /\ UNCHANGED <<setup, links, clock, store, log, service, remote, raced, events>>

\* append of the pubsub service: "no subscription for topic", or append of the
\* log, for a message that is signed if signs: it is consumed, stored and
\* published, or throws.
AppendMessage(c, signs, message, next) ==
  LET t == Topic(c) IN
  /\ IF ~subscribed
       THEN Ends(c, "unsubscribed") /\ UNCHANGED <<log, wire>>
     ELSE IF signs /\ Consumes(t, message, Indices(t))
       THEN /\ Goes(c, next)
            /\ log' = [log EXCEPT ![t] = Append(@, message)]
            /\ Published(t, {Len(log[t]) + 1})
       ELSE Ends(c, "failed") /\ UNCHANGED <<log, wire>>
  /\ UNCHANGED <<service, remote>>

\* sign: "only sign our own current sessions"
AppendSession(c) ==
  /\ call[c].at = "session"
  /\ AppendMessage(c, Get(Topic(c)) = call[c].session,
                   [type |-> "session", session |-> call[c].session],
                   [call[c] EXCEPT !.at = "action"])
  /\ UNCHANGED <<setup, links, clock, store, raced, events>>

\* sign: the stored session, which may be another by now, is valid at the time of
\* the action, and its key signs.
AppendAction(c) ==
  /\ call[c].at = "action"
  /\ LET s == Get(Topic(c)) IN
     AppendMessage(c, ValidAt(s, call[c].time),
                   [type |-> "action", session |-> s, time |-> call[c].time, by |-> c],
                   [at |-> "done"])
  /\ UNCHANGED <<setup, links, clock, store, raced, events>>

-----------------------------------------------------------------------------
(* Restarts, logouts, and the network *)

Event == setup.calls # {} /\ events < MaxEvents /\ events' = events + 1

\* The application is opened anew, offline or not: the log and localStorage are
\* there.
Restart ==
  /\ Event
  /\ cache' = [k \in DOMAIN cache |-> None]
  /\ call' = [c \in Calls |-> IF UnderWay(c) THEN [at |-> "lost"] ELSE call[c]]
  /\ started' \in BOOLEAN /\ subscribed' = TRUE /\ syncing' = TRUE
  /\ UNCHANGED <<setup, links, clock, stored, log, wire, remote, raced>>

\* clear
Logout(t) ==
  /\ Event
  /\ cache' = [k \in DOMAIN cache |-> IF setup.browser \/ k = t THEN None ELSE cache[k]]
  /\ stored' = [stored EXCEPT ![t] = None]
  /\ raced' = raced \cup {c \in Calls : UnderWay(c)}
  /\ UNCHANGED <<setup, links, clock, call, log, net>>

\* start and afterStart of the pubsub service, by libp2p.start: what is subscribed
\* is published and synced from now on.
Start ==
  /\ setup.calls # {} /\ ~started /\ started' = TRUE
  /\ UNCHANGED <<setup, links, clock, call, store, log, subscribed, syncing, wire, remote,
                 raced, events>>

\* beforeStop, by libp2p.stop: the sync services end and are forgotten.
BeforeStop ==
  /\ setup.calls # {} /\ started /\ syncing /\ syncing' = FALSE
  /\ UNCHANGED <<setup, links, clock, call, store, log, started, subscribed, wire, remote,
                 raced, events>>

\* stop, which forgets the logs as well: a later start finds nothing to subscribe.
Stop ==
  /\ started /\ ~syncing /\ started' = FALSE /\ subscribed' = FALSE
  /\ UNCHANGED <<setup, links, clock, call, store, log, syncing, wire, remote, raced, events>>

\* handleMessage of the other replica.  With history indexed the message waits
\* in the mempool for its parents; without, it is consumed as it comes, and what
\* the consumer throws on is not stored.
HandleMessage(t, i) ==
  /\ <<t, i>> \in wire
  /\ setup.indexHistory => 1..(i - 1) \subseteq remote[t]
  /\ wire' = wire \ {<<t, i>>}
  /\ remote' = IF Consumes(t, log[t][i], remote[t])
                 THEN [remote EXCEPT ![t] = @ \cup {i}] ELSE remote
  /\ UNCHANGED <<setup, links, clock, call, store, log, service, raced, events>>


\* A merkle sync brings the other replica what it lacks, in order.
Sync(t) ==
  /\ started /\ syncing /\ remote[t] # Indices(t)
  /\ remote' = [remote EXCEPT ![t] = Indices(t)]
  /\ UNCHANGED <<setup, links, clock, call, store, log, service, wire, raced, events>>

-----------------------------------------------------------------------------
(* Connections *)

\* updateStatus
StatusOf(shown) == IF \E q \in Remotes : shown[q] = "online" THEN "connected" ELSE "disconnected"

\* peer:connect for the first connection of a peer, then connection:open, which
\* lists a peer that is not.
Open(q) ==
  /\ q \in setup.remotes /\ open[q] < MaxConns
  /\ open' = [open EXCEPT ![q] = @ + 1]
  /\ listed' = IF listed[q] = "none" THEN [listed EXCEPT ![q] = "connecting"] ELSE listed
  /\ late' = late \ {q}
  /\ UNCHANGED <<setup, calling, status, rounds>>

\* Mutant: the status waits for the next pings.
CloseQuietly(q) ==
  /\ open[q] > 0 /\ open' = [open EXCEPT ![q] = @ - 1]
  /\ listed' = IF open[q] = 1 THEN [listed EXCEPT ![q] = "none"] ELSE listed
  /\ UNCHANGED <<setup, calling, rounds, status, late>>

\* peer:disconnect for the last one, which takes the peer off the list, then
\* connection:close.
Close(q) ==
  /\ open[q] > 0 /\ open' = [open EXCEPT ![q] = @ - 1]
  /\ listed' = IF open[q] = 1 THEN [listed EXCEPT ![q] = "none"] ELSE listed
  /\ status' = StatusOf(listed')
  /\ UNCHANGED <<setup, calling, rounds, late>>

\* The timer pings every connected peer, whether or not the last round is over,
\* and notes who subscribes now.
StartPings ==
  /\ Len(rounds) < MaxRounds
  /\ LET peers == {q \in Remotes : open[q] > 0}
     IN \E subscribers \in SUBSET peers :
          peers # {} /\ rounds' = Append(rounds, [pinged |-> peers, subscribers |-> subscribers])
  /\ UNCHANGED <<setup, calling, open, listed, status, late>>

\* A ping is answered or fails, and lists the peer, though it may be disconnected.
Ping(k, q) ==
  /\ q \in rounds[k].pinged
  /\ rounds' = [rounds EXCEPT ![k].pinged = @ \ {q}]
  /\ \E shown \in {IF q \in rounds[k].subscribers THEN "online" ELSE "waiting", "offline"} :
       listed' = [listed EXCEPT ![q] = shown]
  /\ late' = IF open[q] = 0 THEN late \cup {q} ELSE late
  /\ UNCHANGED <<setup, calling, open, status>>

\* All pings of a round are settled.
Settle(k) ==
  /\ rounds[k].pinged = {}
  /\ rounds' = [i \in 1..(Len(rounds) - 1) |-> IF i < k THEN rounds[i] ELSE rounds[i + 1]]
  /\ status' = StatusOf(listed)
  /\ UNCHANGED <<setup, calling, open, listed, late>>

Next ==
  \/ Tick \/ Restart \/ Start \/ BeforeStop \/ Stop
  \/ \E c \in Calls :
       \/ Call(c) \/ GetSession(c) \/ WalletSigns(c) \/ WalletRefuses(c)
       \/ QuerySessions(c) \/ AppendSession(c) \/ AppendAction(c)
  \/ \E t \in Topics :
       Logout(t) \/ Sync(t) \/ \E i \in Indices(t) : HandleMessage(t, i)
  \/ StartPings
  \/ \E q \in Remotes : Open(q) \/ Close(q) \/ \E k \in DOMAIN rounds : Ping(k, q)
  \/ \E k \in DOMAIN rounds : Settle(k)

\* Syncs are retried while the network is up.
Spec == Init /\ [][Next]_vars /\ \A t \in Topics : WF_vars(Sync(t))

-----------------------------------------------------------------------------
(* Properties *)

\* FailsOnlyIfRaced.  A call that the wallet does not refuse, in an application
\* whose libp2p node was not stopped, fails only if the store changed while it was
\* under way, by another call or a logout: neither the last moment of a session,
\* nor a restart between its creation and its message, nor a call that a stopped
\* service failed in between, nor sessions of other topics make a call fail.
FailsOnlyIfRaced == \A c \in Calls : call[c].at = "failed" => c \in raced

\* SessionFits.  SessionSigner.ts:21: "getSession must return a Session
\* authorized for that topic [...] that is valid for the given timestamp".
SessionFits ==
  \A c \in Calls : call[c].at \in {"found", "session", "action"} =>
    /\ call[c].session.topic = Topic(c)
    /\ ValidAt(call[c].session, call[c].time)


\* StatusSettled.  docs/7-networking.md:45: "The `connections` object lists peers
\* that you are directly connected to": those, and the peers a ping of whom was
\* settled too late.  :50: "As long as at least one peer is online, your
\* application will show as connected", and not otherwise, whenever no pings are
\* under way.
StatusSettled ==
  /\ rounds = <<>> => status = StatusOf(listed)
  /\ {q \in Remotes : listed[q] # "none"} = {q \in Remotes : open[q] > 0} \cup late

=============================================================================
