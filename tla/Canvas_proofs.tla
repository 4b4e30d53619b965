---------------------------- MODULE Canvas_proofs ----------------------------
(***************************************************************************)
(* Proofs about Canvas, for every set of calls, topics, peers and setups:  *)
(* the session that a call is given fits it, a call fails only when the    *)
(* store changed while it was under way, or where the node was stopped;    *)
(* and who is listed is connected or was listed late, and the status       *)
(* agrees with the list.                                                   *)
(***************************************************************************)
EXTENDS Canvas, SequenceTheorems, TLAPS

-----------------------------------------------------------------------------
(* Types *)

Times == 0..MaxTime
Holding == {"found", "session", "action"}
Over == {"idle", "lost", "refused", "failed", "unsubscribed", "done"}

CallStates ==
  [at : Over] \cup [at : {"called", "signing"}, time : Times]
    \cup [at : Holding, time : Times, session : Sessions]

MessageType ==
  [type : {"session"}, session : Sessions]
    \cup [type : {"action"}, session : Sessions, time : Times, by : Calls]

Shown == {"none", "connecting", "online", "waiting", "offline"}

\* The variables have their types.
TypeOK ==
  /\ setup \in Setups /\ clock \in Times
  /\ call \in [Calls -> CallStates]
  /\ cache \in [Topics \cup {"address"} -> Sessions \cup {None}]
  /\ stored \in [Topics -> Sessions \cup {None}]
  /\ log \in [Topics -> Seq(MessageType)]
  /\ started \in BOOLEAN /\ subscribed \in BOOLEAN /\ syncing \in BOOLEAN
  /\ raced \subseteq Calls

LinksOK ==
  /\ open \in [Remotes -> Nat] /\ listed \in [Remotes -> Shown]
  /\ status \in {"connected", "disconnected"}
  /\ rounds \in Seq([pinged : SUBSET Remotes, subscribers : SUBSET Remotes])
  /\ late \subseteq Remotes

-----------------------------------------------------------------------------
(* The status of the connections *)

\* Who was listed late is not connected.
Apart == \A q \in late : open[q] = 0

LinksInv == LinksOK /\ StatusSettled /\ Apart

LEMMA InitLinks == Init => LinksInv
  BY DEF Init, LinksInv, LinksOK, Apart, StatusSettled, Apart, StatusOf, Shown

\* What a step does to the connections: nothing, or one of libp2p's events.
LinkStep ==
  \/ UNCHANGED links
  \/ StartPings
  \/ \E q \in Remotes : Open(q) \/ Close(q) \/ \E k \in DOMAIN rounds : Ping(k, q)
  \/ \E k \in DOMAIN rounds : Settle(k)

LEMMA NextLinks == [Next]_vars => LinkStep
  BY DEF Next, vars, LinkStep, Tick, Restart, Start, BeforeStop, Stop, Call, GetSession, WalletSigns,
         WalletRefuses, QuerySessions, AppendSession, AppendAction, Logout, Sync, HandleMessage

LEMMA LinksKept == LinksInv /\ LinkStep => LinksInv'
  <1> SUFFICES ASSUME LinksInv, LinkStep PROVE LinksInv'
    OBVIOUS
  <1>t. LinksOK
    BY DEF LinksInv
  <1>l. /\ \A p \in Remotes : listed[p] # "none" <=> open[p] > 0 \/ p \in late
        /\ \A p \in late : open[p] = 0
    BY DEF LinksInv, StatusSettled, Apart
  <1>1. CASE UNCHANGED links
    BY <1>1 DEF links, LinksInv, LinksOK, Apart, StatusSettled, StatusOf
  <1>2. CASE StartPings
    <2>1. PICK subscribers \in SUBSET Remotes, peers \in SUBSET Remotes :
            rounds' = Append(rounds, [pinged |-> peers, subscribers |-> subscribers])
      BY <1>2 DEF StartPings
    <2>2. /\ rounds' \in Seq([pinged : SUBSET Remotes, subscribers : SUBSET Remotes])
          /\ rounds' # <<>>
      BY <1>t, <2>1, AppendProperties, SMTT(30) DEF LinksOK
    <2> QED
      BY <1>t, <1>2, <2>2 DEF StartPings, LinksInv, LinksOK, Apart, StatusSettled
  <1>3. ASSUME NEW q \in Remotes, Open(q) PROVE LinksInv'
    <2>1. open' \in [Remotes -> Nat] /\ listed' \in [Remotes -> Shown]
      BY <1>t, <1>3 DEF Open, LinksOK, Shown
    <2>2. \A p \in Remotes : listed'[p] = "online" <=> listed[p] = "online"
      BY <1>t, <1>3 DEF Open, LinksOK
    <2>3. /\ \A p \in Remotes \ {q} : listed'[p] = listed[p] /\ open'[p] = open[p]
          /\ listed'[q] # "none" /\ open'[q] > 0
      BY <1>t, <1>3 DEF Open, LinksOK
    <2>4. {p \in Remotes : listed'[p] # "none"} = {p \in Remotes : open'[p] > 0} \cup late'
      BY <1>t, <1>3, <1>l, <2>3 DEF Open, LinksOK
    <2> QED
      BY <1>t, <1>3, <2>1, <2>2, <2>4 DEF Open, LinksInv, LinksOK, Apart, StatusSettled, StatusOf
  <1>4. ASSUME NEW q \in Remotes, Close(q) PROVE LinksInv'
    <2>1. open' \in [Remotes -> Nat] /\ listed' \in [Remotes -> Shown]
      BY <1>t, <1>4 DEF Close, LinksOK, Shown
    <2>2. /\ \A p \in Remotes \ {q} : listed'[p] = listed[p] /\ open'[p] = open[p]
          /\ listed'[q] # "none" <=> open'[q] > 0
          /\ q \notin late
      BY <1>t, <1>4, <1>l DEF Close, LinksOK
    <2>3. {p \in Remotes : listed'[p] # "none"} = {p \in Remotes : open'[p] > 0} \cup late'
      BY <1>t, <1>4, <1>l, <2>2 DEF Close, LinksOK
    <2> QED
      BY <1>t, <1>4, <2>1, <2>3 DEF Close, LinksInv, LinksOK, Apart, StatusSettled, StatusOf
  <1>5. ASSUME NEW q \in Remotes, NEW k \in DOMAIN rounds, Ping(k, q) PROVE LinksInv'
    <2>1. listed' \in [Remotes -> Shown]
      BY <1>t, <1>5 DEF Ping, LinksOK, Shown
    <2>2. rounds' \in Seq([pinged : SUBSET Remotes, subscribers : SUBSET Remotes])
      <3> DEFINE Round == [pinged : SUBSET Remotes, subscribers : SUBSET Remotes]
                 round == [rounds[k] EXCEPT !.pinged = @ \ {q}]
      <3>1. /\ Len(rounds) \in Nat /\ k \in 1..Len(rounds)
            /\ rounds \in [1..Len(rounds) -> Round] /\ rounds[k] \in Round
        <4>1. rounds \in Seq(Round)
          BY <1>t DEF LinksOK
        <4> HIDE DEF Round
        <4> QED
          BY <1>5, <4>1
      <3>2. round \in Round
        BY <3>1
      <3>3. rounds' = [rounds EXCEPT ![k] = round]
        BY <3>1, <1>5 DEF Ping
      <3> HIDE DEF Round, round
      <3>4. rounds' \in [1..Len(rounds) -> Round]
        BY <3>1, <3>2, <3>3
      <3>5. rounds' \in Seq(Round)
        BY <3>1, <3>4
      <3> QED
        BY <3>5 DEF Round
    <2>3. rounds' # <<>>
      <3>1. Len(rounds') = Len(rounds) /\ k \in 1..Len(rounds) /\ Len(rounds) \in Nat
        BY <1>t, <1>5 DEF Ping, LinksOK
      <3> QED
        BY <3>1
    <2>4. /\ \A p \in Remotes \ {q} : listed'[p] = listed[p]
          /\ listed'[q] # "none" /\ open' = open
      BY <1>t, <1>5 DEF Ping, LinksOK
    <2>5. {p \in Remotes : listed'[p] # "none"} = {p \in Remotes : open'[p] > 0} \cup late'
      BY <1>t, <1>5, <1>l, <2>4 DEF Ping, LinksOK
    <2> QED
      BY <1>t, <1>5, <2>1, <2>2, <2>3, <2>5 DEF Ping, LinksInv, LinksOK, Apart, StatusSettled
  <1>6. ASSUME NEW k \in DOMAIN rounds, Settle(k) PROVE LinksInv'
    <2>1. rounds' \in Seq([pinged : SUBSET Remotes, subscribers : SUBSET Remotes])
      <3>1. Len(rounds) - 1 \in Nat
        BY <1>t, <1>6 DEF LinksOK
      <3>2. ASSUME NEW i \in 1..(Len(rounds) - 1)
            PROVE  (IF i < k THEN rounds[i] ELSE rounds[i + 1])
                     \in [pinged : SUBSET Remotes, subscribers : SUBSET Remotes]
        <4>1. Len(rounds) \in Nat /\ i \in 1..Len(rounds) /\ i + 1 \in 1..Len(rounds)
          BY <1>t, <1>6, <3>1 DEF LinksOK
        <4> QED
          BY <1>t, <4>1, ElementOfSeq DEF LinksOK
      <3> QED
        BY <1>6, <3>1, <3>2 DEF Settle
    <2> QED
      BY <1>t, <1>6, <2>1 DEF Settle, LinksInv, LinksOK, Apart, StatusSettled, StatusOf
  <1> QED
    BY <1>1, <1>2, <1>3, <1>4, <1>5, <1>6 DEF LinkStep

\* The peers that are connected and those whose ping was settled too late are
\* listed, and no others; while no pings are under way the application is shown as
\* connected exactly if one of them is shown as online, also after rounds that
\* overlapped.
THEOREM AlwaysSettled == Spec => []StatusSettled
  <1>1. LinksInv /\ [Next]_vars => LinksInv'
    BY NextLinks, LinksKept
  <1>2. LinksInv => StatusSettled
    BY DEF LinksInv
  <1> QED
    BY InitLinks, <1>1, <1>2, PTL DEF Spec

-----------------------------------------------------------------------------
(* Sessions and calls: the inductive invariant *)

\* The store of the signer tells the topics apart that calls are made on: that
\* of the browser has one place for all topics in memory, so there is only one.
StoreTellsApart ==
  setup.browser => \A c, d \in setup.calls : Topic(c) = Topic(d)

Fits(t, s) == s # None => s.topic = t

\* Whatever the store has for a topic that calls are made on is of that topic.
StoreFits ==
  \A c \in setup.calls : Fits(Topic(c), cache[Slot(Topic(c))]) /\ Fits(Topic(c), stored[Topic(c)])

Logged(t, s) == \E i \in Indices(t) : log[t][i].type = "session" /\ log[t][i].session = s

\* A session is held until its call is over; unless the store changed, it is
\* still what the store has, and before the action is appended it is in the log.
CallFits(c) ==
  /\ call[c].at # "idle" => c \in setup.calls
  /\ call[c].at \in Holding =>
       /\ call[c].session.topic = Topic(c) /\ ValidAt(call[c].session, call[c].time)
       /\ c \in raced \/ Get(Topic(c)) = call[c].session
  /\ call[c].at = "action" => Logged(Topic(c), call[c].session)
  /\ call[c].at = "failed" => c \in raced

CallsInv == TypeOK /\ (StoreTellsApart => StoreFits /\ \A c \in Calls : CallFits(c))

LEMMA NoneIsNoSession == None \notin Sessions
  <1>1. "by" \in DOMAIN None /\ "topic" \notin DOMAIN None
    BY DEF None
  <1>2. \A s \in Sessions : "topic" \in DOMAIN s
    BY DEF Sessions
  <1> QED
    BY <1>1, <1>2

\* The setup and what is derived from it do not change.
LEMMA SetupTyped ==
  ASSUME TypeOK, NEW c \in Calls
  PROVE  /\ Topic(c) \in Topics /\ setup.browser \in BOOLEAN /\ setup.duration \in Nat
         /\ Slot(Topic(c)) \in Topics \cup {"address"}
  <1>1. setup \in SetupType
    BY ConstantsAssumption DEF TypeOK
  <1> QED
    BY <1>1 DEF SetupType, Topic, Slot

LEMMA CallsMade == TypeOK => setup.calls \subseteq Calls
  BY ConstantsAssumption DEF TypeOK, SetupType

LEMMA SetupKept ==
  ASSUME setup' = setup, NEW c, NEW t, NEW s, NEW time
  PROVE  /\ Topic(c)' = Topic(c) /\ Slot(t)' = Slot(t)
         /\ ValidAt(s, time)' <=> ValidAt(s, time)
         /\ StoreTellsApart' <=> StoreTellsApart
  BY DEF Topic, Slot, ValidAt, StoreTellsApart

LEMMA CallState ==
  ASSUME TypeOK, NEW c \in Calls
  PROVE  /\ call[c].at \in {"called", "signing"} => call[c].time \in Times
         /\ call[c].at \in Holding => /\ call[c] \in [at : Holding, time : Times, session : Sessions]
                                      /\ call[c].time \in Times /\ call[c].session \in Sessions
  BY DEF TypeOK, CallStates, Over, Holding

LEMMA GetType ==
  ASSUME TypeOK, NEW c \in Calls
  PROVE  /\ Get(Topic(c)) \in Sessions \cup {None}
         /\ \A time : ValidAt(Get(Topic(c)), time) => Get(Topic(c)) \in Sessions
  BY SetupTyped DEF TypeOK, Get, ValidAt

-----------------------------------------------------------------------------
(* Types of the calls, the store and the log are kept *)

LEMMA GoesType ==
  ASSUME TypeOK, NEW c \in Calls, NEW state \in CallStates, Goes(c, state)
  PROVE  call' \in [Calls -> CallStates]
  BY DEF TypeOK, Goes

LEMMA EndsType ==
  ASSUME TypeOK, NEW c \in Calls, NEW how \in Over, Ends(c, how)
  PROVE  call' \in [Calls -> CallStates]
  <1>1. [at |-> how] \in CallStates
    BY DEF CallStates
  <1> QED
    BY <1>1, GoesType DEF Ends

\* What a store of a session for the topic of a call comes to.
Stores(c, s) ==
  /\ cache' = [cache EXCEPT ![Slot(Topic(c))] = s]
  /\ stored' = stored \/ stored' = [stored EXCEPT ![Topic(c)] = s]

LEMMA StoresType ==
  ASSUME TypeOK, NEW c \in Calls, NEW s \in Sessions, Stores(c, s)
  PROVE  /\ cache' \in [Topics \cup {"address"} -> Sessions \cup {None}]
         /\ stored' \in [Topics -> Sessions \cup {None}]
  BY SetupTyped DEF TypeOK, Stores

NewSession(c) == [by |-> c, topic |-> Topic(c), from |-> call[c].time]

LEMMA CreateEffect ==
  ASSUME TypeOK, NEW c \in Calls, call[c].at \in {"called", "signing"}, Create(c)
  PROVE  /\ NewSession(c) \in Sessions /\ Stores(c, NewSession(c))
         /\ call[c].time \in Times
         /\ Goes(c, [at |-> "found", time |-> call[c].time, session |-> NewSession(c)])
         /\ call' \in [Calls -> CallStates]
         /\ raced' = raced \cup {d \in Calls \ {c} : UnderWay(d)}
         /\ cache' \in [Topics \cup {"address"} -> Sessions \cup {None}]
         /\ stored' \in [Topics -> Sessions \cup {None}]
  <1>1. call[c].time \in Times
    BY CallState
  <1>2. NewSession(c) \in Sessions
    BY <1>1, SetupTyped DEF NewSession, Sessions, Times
  <1>3. Stores(c, NewSession(c))
    BY DEF Create, Set, Stores, NewSession
  <1>4. Goes(c, [at |-> "found", time |-> call[c].time, session |-> NewSession(c)])
    BY DEF Create, NewSession
  <1>5. [at |-> "found", time |-> call[c].time, session |-> NewSession(c)] \in CallStates
    BY <1>1, <1>2 DEF CallStates, Holding
  <1>6. raced' = raced \cup {d \in Calls \ {c} : UnderWay(d)}
    BY DEF Create
  <1> QED
    BY <1>1, <1>2, <1>3, <1>4, <1>5, <1>6, GoesType, StoresType

LEMMA AppendType ==
  ASSUME TypeOK, NEW c \in Calls, NEW message, NEW signs \in BOOLEAN, NEW next \in CallStates,
         signs => message \in MessageType, AppendMessage(c, signs, message, next)
  PROVE  /\ call' \in [Calls -> CallStates]
         /\ log' = log \/ log' = [log EXCEPT ![Topic(c)] = Append(@, message)]
         /\ log' \in [Topics -> Seq(MessageType)]
         /\ UNCHANGED service
  <1>1. call' \in [Calls -> CallStates]
    BY GoesType, EndsType DEF AppendMessage, Over
  <1>2. log' = log \/ (signs /\ log' = [log EXCEPT ![Topic(c)] = Append(@, message)])
    BY DEF AppendMessage
  <1>3. signs => Append(log[Topic(c)], message) \in Seq(MessageType)
    BY SetupTyped, AppendProperties DEF TypeOK
  <1>4. log' \in [Topics -> Seq(MessageType)]
    BY <1>2, <1>3, SetupTyped DEF TypeOK
  <1> QED
    BY <1>1, <1>2, <1>4 DEF AppendMessage

LEMMA TypesKept == TypeOK /\ [Next]_vars => TypeOK'
  <1> SUFFICES ASSUME TypeOK, [Next]_vars PROVE TypeOK'
    OBVIOUS
  <1>1. CASE Tick
    BY <1>1, ConstantsAssumption DEF Tick, TypeOK, Times, links, store, net, service
  <1>2. CASE Restart
    <2>1. \A c \in Calls : call'[c] \in CallStates
      BY <1>2 DEF Restart, TypeOK, CallStates, Over
    <2>2. call' \in [Calls -> CallStates]
      BY <1>2, <2>1 DEF Restart
    <2>3. cache' \in [Topics \cup {"address"} -> Sessions \cup {None}]
      BY <1>2 DEF Restart, TypeOK
    <2> QED
      BY <1>2, <2>2, <2>3 DEF Restart, TypeOK, links
  <1>3. CASE Start \/ BeforeStop \/ Stop
    BY <1>3 DEF Start, BeforeStop, Stop, TypeOK, links, store, service
  <1>4. ASSUME NEW c \in Calls, Call(c) PROVE TypeOK'
    <2>1. [at |-> "called", time |-> clock] \in CallStates
      BY DEF CallStates, TypeOK
    <2> QED
      BY <1>4, <2>1, GoesType DEF Call, TypeOK, links, store, net, service
  <1>5. ASSUME NEW c \in Calls, GetSession(c) PROVE TypeOK'
    <2> DEFINE s == Get(Topic(c))
    <2>1. call[c].time \in Times /\ call[c].at = "called"
      BY <1>5, CallState DEF GetSession
    <2>2. CASE ValidAt(s, call[c].time)
      <3>1. s \in Sessions
        BY <2>2, GetType
      <3>2. [at |-> "found", time |-> call[c].time, session |-> s] \in CallStates
        BY <2>1, <3>1 DEF CallStates, Holding
      <3>3. Stores(c, s) /\ Goes(c, [at |-> "found", time |-> call[c].time, session |-> s])
            /\ raced' = raced
        BY <1>5, <2>2 DEF GetSession, Stores
      <3> HIDE DEF s
      <3> QED
        BY <1>5, <3>1, <3>2, <3>3, GoesType, StoresType DEF GetSession, TypeOK, links, net, service
    <2>3. CASE ~ValidAt(s, call[c].time) /\ setup.waits
      <3>1. [at |-> "signing", time |-> call[c].time] \in CallStates
        BY <2>1 DEF CallStates
      <3> QED
        BY <1>5, <2>3, <3>1, GoesType DEF GetSession, TypeOK, links, net, service, store
    <2>4. CASE ~ValidAt(s, call[c].time) /\ ~setup.waits
      <3>1. Create(c)
        BY <1>5, <2>4 DEF GetSession
      <3> QED
        BY <1>5, <2>1, <3>1, CreateEffect DEF GetSession, TypeOK, links, net, service
    <2> QED
      BY <2>2, <2>3, <2>4
  <1>6. ASSUME NEW c \in Calls, WalletSigns(c) PROVE TypeOK'
    BY <1>6, CreateEffect DEF WalletSigns, TypeOK, links, net, service
  <1>7. ASSUME NEW c \in Calls, WalletRefuses(c) PROVE TypeOK'
    BY <1>7, EndsType DEF WalletRefuses, TypeOK, links, net, service, store, Over
  <1>8. ASSUME NEW c \in Calls, QuerySessions(c) PROVE TypeOK'
    <2>1. call[c] \in [at : Holding, time : Times, session : Sessions]
      BY <1>8, CallState DEF QuerySessions, Holding
    <2>2. /\ [call[c] EXCEPT !.at = "session"] \in CallStates
          /\ [call[c] EXCEPT !.at = "action"] \in CallStates
      BY <2>1 DEF CallStates, Holding
    <2>3. \/ call' = [call EXCEPT ![c] = [call[c] EXCEPT !.at = "session"]]
          \/ call' = [call EXCEPT ![c] = [call[c] EXCEPT !.at = "action"]]
      BY <1>8 DEF QuerySessions, TypeOK
    <2>4. call' \in [Calls -> CallStates]
      BY <2>2, <2>3 DEF TypeOK
    <2> QED
      BY <1>8, <2>4 DEF QuerySessions, TypeOK, links, store, service
  <1>9. ASSUME NEW c \in Calls, AppendSession(c) PROVE TypeOK'
    <2>1. call[c] \in [at : Holding, time : Times, session : Sessions]
      BY <1>9, CallState DEF AppendSession, Holding
    <2>2. /\ [type |-> "session", session |-> call[c].session] \in MessageType
          /\ [call[c] EXCEPT !.at = "action"] \in CallStates
      BY <2>1 DEF MessageType, CallStates, Holding
    <2>3. /\ call' \in [Calls -> CallStates] /\ log' \in [Topics -> Seq(MessageType)]
          /\ UNCHANGED service
      BY <1>9, <2>2, AppendType DEF AppendSession
    <2> QED
      BY <1>9, <2>3 DEF AppendSession, TypeOK, links, store, service
  <1>10. ASSUME NEW c \in Calls, AppendAction(c) PROVE TypeOK'
    <2> DEFINE s == Get(Topic(c))
               message == [type |-> "action", session |-> s, time |-> call[c].time, by |-> c]
    <2>1. call[c].time \in Times
      BY <1>10, CallState DEF AppendAction, Holding
    <2>2. [at |-> "done"] \in CallStates
      BY DEF CallStates, Over
    <2>3. ASSUME ValidAt(s, call[c].time) PROVE message \in MessageType
      BY <2>1, <2>3, GetType DEF MessageType
    <2>4. AppendMessage(c, ValidAt(s, call[c].time), message, [at |-> "done"])
      BY <1>10 DEF AppendAction
    <2>6. ValidAt(s, call[c].time) \in BOOLEAN
      BY DEF ValidAt
    <2> HIDE DEF message, s
    <2>5. /\ call' \in [Calls -> CallStates] /\ log' \in [Topics -> Seq(MessageType)]
          /\ UNCHANGED service
      BY <2>2, <2>3, <2>4, <2>6, AppendType
    <2> QED
      BY <1>10, <2>5 DEF AppendAction, TypeOK, links, store, service
  <1>11. ASSUME NEW t \in Topics, Logout(t) PROVE TypeOK'
    <2>1. cache' \in [Topics \cup {"address"} -> Sessions \cup {None}]
      BY <1>11 DEF Logout, TypeOK
    <2>2. stored' \in [Topics -> Sessions \cup {None}]
      BY <1>11 DEF Logout, TypeOK
    <2> QED
      BY <1>11, <2>1, <2>2 DEF Logout, TypeOK, links, net, service
  <1>12. ASSUME NEW t \in Topics, Sync(t) PROVE TypeOK'
    BY <1>12 DEF Sync, TypeOK, links, store, service
  <1>13. ASSUME NEW t \in Topics, NEW i, HandleMessage(t, i) PROVE TypeOK'
    BY <1>13 DEF HandleMessage, TypeOK, links, store, service
  <1>14. ASSUME UNCHANGED <<setup, calling>> PROVE TypeOK'
    BY <1>14 DEF TypeOK, calling, service
  <1>15. CASE StartPings
    BY <1>14, <1>15 DEF StartPings
  <1>16. ASSUME NEW q \in Remotes, Open(q) \/ Close(q) \/ \E k \in DOMAIN rounds : Ping(k, q)
         PROVE TypeOK'
    BY <1>14, <1>16 DEF Open, Close, Ping
  <1>17. ASSUME NEW k \in DOMAIN rounds, Settle(k) PROVE TypeOK'
    BY <1>14, <1>17 DEF Settle
  <1>18. CASE UNCHANGED vars
    BY <1>14, <1>18 DEF vars
  <1> QED
    BY <1>1, <1>2, <1>3, <1>4, <1>5, <1>6, <1>7, <1>8, <1>9, <1>10, <1>11, <1>12, <1>13,
       <1>15, <1>16, <1>17, <1>18 DEF Next

-----------------------------------------------------------------------------
(* What a step does to the store and to the calls *)

\* Two calls that share a place of the store are on one topic.
LEMMA OneSlotOneTopic ==
  ASSUME TypeOK, StoreTellsApart, NEW c \in setup.calls, NEW d \in setup.calls,
         Slot(Topic(c)) = Slot(Topic(d))
  PROVE  Topic(c) = Topic(d)
  BY DEF StoreTellsApart, Slot

\* Storing a session of the topic of a call keeps the store as it should be.
LEMMA StoresFits ==
  ASSUME TypeOK, StoreTellsApart, StoreFits, setup' = setup, setup.calls \subseteq Calls,
         NEW c \in setup.calls, NEW s \in Sessions, s.topic = Topic(c), Stores(c, s)
  PROVE  /\ StoreFits'
         /\ \A d \in setup.calls : Topic(d) = Topic(c) => Get(Topic(d))' = s
         /\ \A d \in setup.calls : Topic(d) # Topic(c) => Get(Topic(d))' = Get(Topic(d))
  <1>1. \A d \in setup.calls : Topic(d)' = Topic(d) /\ Slot(Topic(d))' = Slot(Topic(d))
    BY DEF Topic, Slot
  <1>2. ASSUME NEW d \in setup.calls
        PROVE  /\ Topic(d) = Topic(c) =>
                    /\ cache'[Slot(Topic(d))] = s
                    /\ stored'[Topic(d)] = stored[Topic(d)] \/ stored'[Topic(d)] = s
               /\ Topic(d) # Topic(c) => /\ cache'[Slot(Topic(d))] = cache[Slot(Topic(d))]
                                         /\ stored'[Topic(d)] = stored[Topic(d)]
    <2>1. /\ Topic(d) \in Topics /\ Slot(Topic(d)) \in Topics \cup {"address"}
          /\ Topic(c) \in Topics /\ Slot(Topic(c)) \in Topics \cup {"address"}
      BY SetupTyped
    <2>2. Topic(d) # Topic(c) => Slot(Topic(d)) # Slot(Topic(c))
      BY OneSlotOneTopic
    <2> QED
      BY <2>1, <2>2 DEF TypeOK, Stores
  <1>3. ASSUME NEW d \in setup.calls
        PROVE  Fits(Topic(d), cache'[Slot(Topic(d))]) /\ Fits(Topic(d), stored'[Topic(d)])
    BY <1>2 DEF StoreFits, Fits
  <1>4. StoreFits'
    BY <1>1, <1>3 DEF StoreFits, Fits
  <1>5. s # None
    BY NoneIsNoSession
  <1>6. \A d \in setup.calls :
          Get(Topic(d))' = IF cache'[Slot(Topic(d))] = None THEN stored'[Topic(d)]
                           ELSE cache'[Slot(Topic(d))]
    BY <1>1 DEF Get, None
  <1> QED
    BY <1>2, <1>4, <1>5, <1>6 DEF Get

\* A call that a step does not take stays as it should be, if the log loses
\* nothing and the store keeps what the call has from it, or the call is raced.
LEMMA CallKept ==
  ASSUME NEW d \in Calls, CallFits(d), setup' = setup, call'[d] = call[d],
         raced \subseteq raced',
         call[d].at \in Holding => d \in raced' \/ Get(Topic(d))' = Get(Topic(d)),
         call[d].at = "action" =>
           \A t, s : t = Topic(d) /\ Logged(t, s) => Logged(t, s)'
  PROVE  CallFits(d)'
  <1>1. Topic(d)' = Topic(d)
    BY DEF Topic
  <1>2. call[d].at \in Holding =>
          (ValidAt(call[d].session, call[d].time)' <=> ValidAt(call[d].session, call[d].time))
    BY DEF ValidAt, None
  <1>3. call[d].at = "action" => Logged(Topic(d), call[d].session)'
    <2> SUFFICES ASSUME call[d].at = "action" PROVE Logged(Topic(d), call[d].session)'
      OBVIOUS
    <2>1. PICK t, s : t = Topic(d) /\ s = call[d].session
      OBVIOUS
    <2>2. Logged(t, s)'
      BY <2>1 DEF CallFits
    <2> QED
      BY <1>1, <2>1, <2>2 DEF Logged, Indices
  <1>4. call[d].at \in Holding => d \in raced' \/ Get(Topic(d))' = (call[d].session)'
    BY DEF CallFits
  <1>5. call'[d].at \in Holding =>
          /\ call'[d].session.topic = Topic(d)' /\ ValidAt(call[d].session, call[d].time)'
          /\ d \in raced' \/ Get(Topic(d))' = call'[d].session
    BY <1>1, <1>2, <1>4 DEF CallFits
  <1>6. /\ call'[d].at # "idle" => d \in setup'.calls
        /\ call'[d].at = "failed" => d \in raced'
    BY DEF CallFits
  <1> QED
    BY <1>3, <1>5, <1>6 DEF CallFits

\* The log only grows.
LEMMA LoggedKept ==
  ASSUME TypeOK, NEW c \in Calls, NEW message \in MessageType,
         log' = log \/ log' = [log EXCEPT ![Topic(c)] = Append(@, message)],
         NEW t \in Topics, NEW s
  PROVE  /\ Logged(t, s) => Logged(t, s)'
         /\ log' # log /\ t = Topic(c) /\ message.type = "session" /\ message.session = s
              => Logged(t, s)'
  <1>1. log[t] \in Seq(MessageType)
    BY DEF TypeOK
  <1>2. CASE log' = log
    BY <1>2 DEF Logged, Indices
  <1>3. CASE log' = [log EXCEPT ![Topic(c)] = Append(@, message)]
    <2>1. log'[t] = IF t = Topic(c) THEN Append(log[t], message) ELSE log[t]
      BY <1>3 DEF TypeOK
    <2>2. /\ Len(log[t]) \in Nat /\ Len(Append(log[t], message)) = Len(log[t]) + 1
          /\ \A i \in 1..Len(log[t]) : Append(log[t], message)[i] = log[t][i]
          /\ Append(log[t], message)[Len(log[t]) + 1] = message
      BY <1>1, AppendProperties
    <2> QED
      BY <2>1, <2>2 DEF Logged, Indices
  <1> QED
    BY <1>2, <1>3

\* A call that fails ends; it is raced if it should not have.
LEMMA EndFits ==
  ASSUME TypeOK, NEW c \in Calls, c \in setup.calls, setup' = setup, raced \subseteq raced',
         NEW how \in Over, Ends(c, how), how = "failed" => c \in raced
  PROVE  CallFits(c)'
  <1>1. call'[c] = [at |-> how]
    BY DEF Ends, Goes, TypeOK
  <1>2. call'[c].at = how /\ call'[c].at \notin Holding /\ call'[c].at # "action"
    BY <1>1 DEF Over, Holding
  <1> QED
    BY <1>2 DEF CallFits

\* A session of the topic that is valid and stored is held as it should be.
LEMMA FoundFits ==
  ASSUME TypeOK, NEW c \in Calls, c \in setup.calls, setup' = setup,
         NEW s \in Sessions, s.topic = Topic(c), ValidAt(s, call[c].time),
         Goes(c, [at |-> "found", time |-> call[c].time, session |-> s]),
         Get(Topic(c))' = s
  PROVE  CallFits(c)'
  <1> DEFINE new == [at |-> "found", time |-> call[c].time, session |-> s]
  <1>1. call'[c] = new
    BY DEF Goes, TypeOK
  <1>2. Topic(c)' = Topic(c)
    BY DEF Topic
  <1>3. ValidAt(s, call[c].time) <=> ValidAt(call'[c].session, call'[c].time)
    BY <1>1
  <1>4. ValidAt(call[c].session, call[c].time)'
    BY <1>1 DEF ValidAt, None
  <1> QED
    BY <1>1, <1>2, <1>4 DEF CallFits, Holding

LEMMA StoreUnchanged ==
  ASSUME StoreFits, setup' = setup, UNCHANGED store
  PROVE  StoreFits' /\ \A d \in Calls : Get(Topic(d))' = Get(Topic(d))
  BY DEF StoreFits, store, Fits, Slot, Topic, Get, None

\* One step of a call that neither stores a session nor logs a message, and of
\* everything else that leaves calls, store and log alone.
LEMMA QuietKept ==
  ASSUME TypeOK, StoreTellsApart, StoreFits, \A d \in Calls : CallFits(d),
         setup' = setup, UNCHANGED store, log' = log, raced' = raced,
         NEW C \in SUBSET Calls, \A d \in Calls \ C : call'[d] = call[d],
         \A d \in C : CallFits(d)'
  PROVE  StoreFits' /\ \A d \in Calls : CallFits(d)'
  <1>1. \A t, s : Logged(t, s) => Logged(t, s)'
    BY DEF Logged, Indices
  <1> QED
    BY <1>1, StoreUnchanged, CallKept

\* A step that logs a message.
LEMMA LogKept ==
  ASSUME TypeOK, StoreTellsApart, StoreFits, \A d \in Calls : CallFits(d),
         setup' = setup, UNCHANGED store, raced' = raced,
         NEW c \in Calls, NEW message \in MessageType,
         log' = log \/ log' = [log EXCEPT ![Topic(c)] = Append(@, message)],
         \A d \in Calls \ {c} : call'[d] = call[d],
         CallFits(c)'
  PROVE  StoreFits' /\ \A d \in Calls : CallFits(d)'
  <1>1. \A d \in Calls : \A t, s : t = Topic(d) /\ Logged(t, s) => Logged(t, s)'
    BY SetupTyped, LoggedKept
  <1>2. ASSUME NEW d \in Calls, d # c PROVE CallFits(d)'
    BY <1>1, <1>2, StoreUnchanged, CallKept
  <1> QED
    BY <1>2, StoreUnchanged

LEMMA CreateFits ==
  ASSUME TypeOK, StoreTellsApart, StoreFits, \A d \in Calls : CallFits(d),
         setup' = setup, log' = log,
         NEW c \in Calls, call[c].at \in {"called", "signing"}, Create(c)
  PROVE  StoreFits' /\ \A d \in Calls : CallFits(d)'
  <1>1. c \in setup.calls
    BY DEF CallFits
  <1> DEFINE s == NewSession(c)
  <1>2. /\ s \in Sessions /\ Stores(c, s) /\ call[c].time \in Times
        /\ Goes(c, [at |-> "found", time |-> call[c].time, session |-> s])
        /\ raced' = raced \cup {d \in Calls \ {c} : UnderWay(d)}
    BY CreateEffect
  <1>3. s.topic = Topic(c) /\ s.from = call[c].time
    BY DEF NewSession
  <1>4. ValidAt(s, call[c].time)
    BY <1>2, <1>3, SetupTyped, NoneIsNoSession DEF ValidAt, Times
  <1> HIDE DEF s
  <1>5. setup.calls \subseteq Calls
    BY CallsMade
  <1>6. PICK x : x = s
    OBVIOUS
  <1>7. StoreFits' /\ Get(Topic(c))' = x
    BY <1>1, <1>2, <1>3, <1>5, <1>6, StoresFits
  <1>8. CallFits(c)'
    BY <1>1, <1>2, <1>3, <1>4, <1>6, <1>7, FoundFits
  <1>9. ASSUME NEW d \in Calls, d # c PROVE CallFits(d)'
    <2>1. call'[d] = call[d]
      BY <1>2, <1>9 DEF Goes, TypeOK
    <2>2. call[d].at \in Holding => d \in raced'
      BY <1>2, <1>9 DEF Holding, UnderWay
    <2>3. \A t, y : Logged(t, y) => Logged(t, y)'
      BY DEF Logged, Indices
    <2>4. raced \subseteq raced'
      BY <1>2
    <2> QED
      BY <2>1, <2>2, <2>3, <2>4, CallKept
  <1> QED
    BY <1>7, <1>8, <1>9

LEMMA GetSessionFits ==
  ASSUME TypeOK, StoreTellsApart, StoreFits, \A d \in Calls : CallFits(d),
         NEW c \in Calls, GetSession(c)
  PROVE  StoreFits' /\ \A d \in Calls : CallFits(d)'
  <1>1. call[c].at = "called" /\ c \in setup.calls /\ setup' = setup /\ log' = log
    BY DEF GetSession, CallFits
  <1> DEFINE s == Get(Topic(c))
  <1>2. CASE ValidAt(s, call[c].time)
    <2>1. s \in Sessions /\ s # None
      BY <1>2, GetType, NoneIsNoSession
    <2>2. s.topic = Topic(c)
      BY <1>1, <2>1 DEF StoreFits, Fits, Get
    <2>3. /\ Stores(c, s) /\ raced' = raced
          /\ Goes(c, [at |-> "found", time |-> call[c].time, session |-> s])
      BY <1>2 DEF GetSession, Stores
    <2>4. PICK x : x = s
      OBVIOUS
    <2> HIDE DEF s
    <2>5. setup.calls \subseteq Calls
      BY CallsMade
    <2>6. /\ StoreFits'
          /\ \A d \in setup.calls : Topic(d) = Topic(c) => Get(Topic(d))' = x
          /\ \A d \in setup.calls : Topic(d) # Topic(c) => Get(Topic(d))' = Get(Topic(d))
      BY <1>1, <2>1, <2>2, <2>3, <2>4, <2>5, StoresFits
    <2>7. CallFits(c)'
      BY <1>1, <1>2, <2>1, <2>2, <2>3, <2>4, <2>6, FoundFits
    <2>8. ASSUME NEW d \in Calls, d # c PROVE CallFits(d)'
      <3>1. call'[d] = call[d]
        BY <2>3, <2>8 DEF Goes, TypeOK
      <3>2. ASSUME call[d].at \in Holding PROVE Get(Topic(d))' = Get(Topic(d))
        <4>1. d \in setup.calls
          BY <3>2 DEF CallFits, Holding
        <4>2. CASE Topic(d) # Topic(c)
          BY <2>6, <4>1, <4>2
        <4>3. CASE Topic(d) = Topic(c)
          BY <2>4, <2>6, <4>1, <4>3 DEF s
        <4> QED
          BY <4>2, <4>3
      <3>3. \A t, y : Logged(t, y) => Logged(t, y)'
        BY <1>1 DEF Logged, Indices
      <3> QED
        BY <1>1, <2>3, <3>1, <3>2, <3>3, CallKept
    <2> QED
      BY <2>6, <2>7, <2>8
  <1>3. CASE ~ValidAt(s, call[c].time) /\ setup.waits
    <2>1. Goes(c, [at |-> "signing", time |-> call[c].time]) /\ UNCHANGED <<store, raced>>
      BY <1>3 DEF GetSession
    <2>2. call'[c] = [at |-> "signing", time |-> call[c].time]
      BY <2>1 DEF Goes, TypeOK
    <2>3. CallFits(c)'
      BY <1>1, <2>2 DEF CallFits, Holding
    <2>4. \A d \in Calls \ {c} : call'[d] = call[d]
      BY <2>1 DEF Goes, TypeOK
    <2>5. {c} \in SUBSET Calls /\ (\A d \in {c} : CallFits(d)') /\ UNCHANGED store /\ raced' = raced
      BY <2>1, <2>3
    <2> QED
      BY <1>1, <2>4, <2>5, QuietKept
  <1>4. CASE ~ValidAt(s, call[c].time) /\ ~setup.waits
    <2>1. Create(c)
      BY <1>4 DEF GetSession
    <2> QED
      BY <1>1, <2>1, CreateFits
  <1> QED
    BY <1>2, <1>3, <1>4

-----------------------------------------------------------------------------
(* The steps and the theorems *)

LEMMA AppendSessionFits ==
  ASSUME TypeOK, StoreTellsApart, StoreFits, \A d \in Calls : CallFits(d),
         NEW c \in Calls, AppendSession(c)
  PROVE  StoreFits' /\ \A d \in Calls : CallFits(d)'
  <1> DEFINE message == [type |-> "session", session |-> call[c].session]
             next == [call[c] EXCEPT !.at = "action"]
  <1>1. /\ call[c].at = "session" /\ c \in setup.calls
        /\ setup' = setup /\ UNCHANGED store /\ raced' = raced
    BY DEF AppendSession, CallFits
  <1>2. call[c] \in [at : Holding, time : Times, session : Sessions]
    BY <1>1, CallState DEF Holding
  <1>3. message \in MessageType
    BY <1>2 DEF MessageType
  <1>4. call[c].session.topic = Topic(c) /\ ValidAt(call[c].session, call[c].time)
        /\ (c \in raced \/ Get(Topic(c)) = call[c].session)
    BY <1>1 DEF CallFits, Holding
  <1>a. AppendMessage(c, Get(Topic(c)) = call[c].session, message, next)
    BY DEF AppendSession
  <1>5. CASE subscribed /\ Get(Topic(c)) = call[c].session
    <2>2. Consumes(Topic(c), message, Indices(Topic(c)))
      BY <1>4 DEF Consumes, Verifies
    <2>3. Goes(c, next) /\ log' = [log EXCEPT ![Topic(c)] = Append(@, message)]
      BY <1>a, <1>5, <2>2 DEF AppendMessage
    <2>4. /\ call'[c] = next /\ next.at = "action"
          /\ next.session = call[c].session /\ next.time = call[c].time
          /\ \A d \in Calls \ {c} : call'[d] = call[d]
      BY <1>2, <2>3 DEF Goes, TypeOK
    <2>5. PICK t \in Topics, s \in Sessions : t = Topic(c) /\ s = call[c].session
      BY <1>1, CallState, SetupTyped DEF Holding
    <2>6. Logged(t, s)'
      <3>1. log'[t] = Append(log[t], message)
        BY <2>3, <2>5 DEF TypeOK
      <3>2. log[t] \in Seq(MessageType)
        BY DEF TypeOK
      <3>3. log' # log
        <4>1. /\ Len(log[t]) \in Nat /\ Len(log'[t]) = Len(log[t]) + 1
          BY <1>3, <3>1, <3>2, AppendProperties
        <4> QED
          BY <4>1
      <3>4. message.type = "session" /\ message.session = s
        BY <2>5
      <3> HIDE DEF message
      <3> QED
        BY <1>3, <2>3, <2>5, <3>3, <3>4, LoggedKept
    <2>7. CallFits(c)'
      <3>1. Topic(c)' = t
        BY <1>1, <2>5 DEF Topic
      <3>2. Logged(Topic(c), call[c].session)'
        BY <2>4, <2>5, <2>6, <3>1 DEF Logged, Indices
      <3>3. ValidAt(call[c].session, call[c].time)'
        BY <1>1, <1>4, <2>4 DEF ValidAt, None
      <3>4. Get(Topic(c))' = Get(Topic(c))
        BY <1>1, StoreUnchanged
      <3> HIDE DEF next
      <3> QED
        BY <1>1, <1>4, <2>4, <2>5, <3>1, <3>2, <3>3, <3>4 DEF CallFits, Holding
    <2> HIDE DEF message
    <2> QED
      BY <1>1, <1>3, <2>3, <2>4, <2>7, LogKept
  <1>6. CASE ~(subscribed /\ Get(Topic(c)) = call[c].session)
    <2>0. Consumes(Topic(c), message, Indices(Topic(c)))
      BY <1>4 DEF Consumes, Verifies
    <2>1. PICK how \in {"failed", "unsubscribed"} :
            /\ Ends(c, how) /\ log' = log
            /\ how = "failed" => Get(Topic(c)) # call[c].session
      BY <1>a, <1>6, <2>0 DEF AppendMessage
    <2>2. CallFits(c)'
      BY <1>1, <1>4, <2>1, EndFits DEF Over
    <2>3. \A d \in Calls \ {c} : call'[d] = call[d]
      BY <2>1 DEF Ends, Goes, TypeOK
    <2> HIDE DEF message
    <2> QED
      BY <1>1, <1>3, <2>1, <2>2, <2>3, LogKept
  <1> QED
    BY <1>5, <1>6

LEMMA AppendActionFits ==
  ASSUME TypeOK, StoreTellsApart, StoreFits, \A d \in Calls : CallFits(d),
         NEW c \in Calls, AppendAction(c)
  PROVE  StoreFits' /\ \A d \in Calls : CallFits(d)'
  <1> DEFINE s == Get(Topic(c))
             message == [type |-> "action", session |-> s, time |-> call[c].time, by |-> c]
  <1>1. /\ call[c].at = "action" /\ c \in setup.calls
        /\ setup' = setup /\ UNCHANGED store /\ raced' = raced
    BY DEF AppendAction, CallFits
  <1>2. call[c].time \in Times /\ call[c].session \in Sessions
    BY <1>1, CallState DEF Holding
  <1>3. /\ ValidAt(call[c].session, call[c].time)
        /\ c \in raced \/ s = call[c].session
        /\ Logged(Topic(c), call[c].session)
    BY <1>1 DEF CallFits, Holding
  <1>4. ASSUME c \notin raced
        PROVE  ValidAt(s, call[c].time) /\ Consumes(Topic(c), message, Indices(Topic(c)))
    <2>1. s = call[c].session /\ ValidAt(s, call[c].time)
      BY <1>3, <1>4
    <2>2. s \in SessionsOf(Topic(c), Indices(Topic(c)))
      BY <1>3, <2>1 DEF Logged, SessionsOf
    <2>3. Expires(s) >= call[c].time
      BY <2>1 DEF ValidAt, Expires
    <2> HIDE DEF s
    <2>4. message.type = "action" /\ message.session = s /\ message.time = call[c].time
      OBVIOUS
    <2> QED
      BY <2>1, <2>2, <2>3, <2>4 DEF Consumes
  <1>a. AppendMessage(c, ValidAt(s, call[c].time), message, [at |-> "done"])
    BY DEF AppendAction
  <1>5. CASE /\ subscribed /\ ValidAt(s, call[c].time)
             /\ Consumes(Topic(c), message, Indices(Topic(c)))
    <2>1. message \in MessageType
      BY <1>2, <1>5, GetType DEF MessageType
    <2>2. Goes(c, [at |-> "done"]) /\ log' = [log EXCEPT ![Topic(c)] = Append(@, message)]
      BY <1>a, <1>5 DEF AppendMessage
    <2>3. PICK m : m = message
      OBVIOUS
    <2> HIDE DEF message, s
    <2>4. Ends(c, "done")
      BY <2>2 DEF Ends
    <2>5. CallFits(c)'
      BY <1>1, <2>4, EndFits DEF Over
    <2>6. \A d \in Calls \ {c} : call'[d] = call[d]
      BY <2>2 DEF Goes, TypeOK
    <2> QED
      BY <1>1, <2>1, <2>2, <2>3, <2>5, <2>6, LogKept
  <1>6. CASE ~(/\ subscribed /\ ValidAt(s, call[c].time)
               /\ Consumes(Topic(c), message, Indices(Topic(c))))
    <2>1. PICK how \in {"failed", "unsubscribed"} :
            /\ Ends(c, how) /\ log' = log
            /\ how = "failed" => ~(/\ ValidAt(s, call[c].time)
                                   /\ Consumes(Topic(c), message, Indices(Topic(c))))
      BY <1>a, <1>6 DEF AppendMessage
    <2>2. how = "failed" => c \in raced
      BY <1>4, <2>1
    <2>3. CallFits(c)'
      BY <1>1, <2>1, <2>2, EndFits DEF Over
    <2>4. /\ \A d \in Calls \ {c} : call'[d] = call[d]
          /\ {c} \in SUBSET Calls /\ \A d \in {c} : CallFits(d)'
      BY <2>1, <2>3 DEF Ends, Goes, TypeOK
    <2> QED
      BY <1>1, <2>1, <2>4, QuietKept
  <1> QED
    BY <1>5, <1>6

LEMMA InitCalls == Init => CallsInv
  <1> SUFFICES ASSUME Init PROVE CallsInv
    OBVIOUS
  <1>1. /\ [at |-> "idle"] \in CallStates /\ 0 \in Times
    BY ConstantsAssumption DEF CallStates, Over, Times
  <1>2. TypeOK
    BY <1>1 DEF Init, TypeOK
  <1>3. \A c \in Calls : CallFits(c)
    BY DEF Init, CallFits, Holding
  <1>4. StoreFits
    BY <1>2, CallsMade, SetupTyped DEF Init, StoreFits, Fits
  <1> QED
    BY <1>2, <1>3, <1>4 DEF CallsInv

LEMMA CallsKept == CallsInv /\ [Next]_vars => CallsInv'
  <1> SUFFICES ASSUME CallsInv, [Next]_vars PROVE CallsInv'
    OBVIOUS
  <1>t. TypeOK /\ TypeOK'
    BY TypesKept DEF CallsInv
  <1>s. setup' = setup /\ (StoreTellsApart' <=> StoreTellsApart)
    <2>1. setup' = setup
      BY DEF Next, vars, Tick, Restart, Start, BeforeStop, Stop, Call, GetSession, WalletSigns,
             WalletRefuses, QuerySessions, AppendSession, AppendAction, Logout, Sync,
             HandleMessage, StartPings, Open, Close, Ping, Settle
    <2> QED
      BY <2>1, SetupKept
  <1> SUFFICES ASSUME StoreTellsApart
               PROVE  StoreFits' /\ \A d \in Calls : CallFits(d)'
    BY <1>t, <1>s DEF CallsInv
  <1>i. StoreFits /\ \A d \in Calls : CallFits(d)
    BY DEF CallsInv
  <1>q. ASSUME UNCHANGED <<call, store, log, raced>>
        PROVE  StoreFits' /\ \A d \in Calls : CallFits(d)'
    <2>1. {} \in SUBSET Calls /\ \A d \in {} : CallFits(d)'
      OBVIOUS
    <2>2. \A d \in Calls \ {} : call'[d] = call[d]
      BY <1>q
    <2> QED
      BY <1>q, <1>t, <1>s, <1>i, <2>1, <2>2, QuietKept
  <1>1. CASE Tick
    BY <1>1, <1>q DEF Tick
  <1>2. CASE Restart
    <2>1. /\ cache' = [k \in DOMAIN cache |-> None] /\ stored' = stored
          /\ call' = [c \in Calls |-> IF UnderWay(c) THEN [at |-> "lost"] ELSE call[c]]
          /\ log' = log /\ raced' = raced
      BY <1>2 DEF Restart
    <2>2. StoreFits'
      <3>1. ASSUME NEW d \in setup.calls
            PROVE  Fits(Topic(d), cache'[Slot(Topic(d))]) /\ Fits(Topic(d), stored'[Topic(d)])
        BY <1>t, <1>i, <2>1, <3>1, CallsMade, SetupTyped DEF TypeOK, StoreFits, Fits
      <3> QED
        BY <1>s, <3>1 DEF StoreFits, Fits, Topic, Slot
    <2>3. ASSUME NEW d \in Calls PROVE CallFits(d)'
      <3>1. CASE UnderWay(d)
        <4>1. call'[d] = [at |-> "lost"] /\ d \in setup.calls
          BY <1>i, <2>1, <3>1 DEF CallFits, UnderWay
        <4> QED
          BY <1>s, <4>1 DEF CallFits, Holding
      <3>2. CASE ~UnderWay(d)
        <4>1. call'[d] = call[d] /\ call[d].at \notin Holding /\ call[d].at # "action"
          BY <2>1, <3>2 DEF UnderWay, Holding
        <4> QED
          BY <1>s, <1>i, <2>1, <4>1, CallKept
      <3> QED
        BY <3>1, <3>2
    <2> QED
      BY <2>2, <2>3
  <1>3. CASE Start \/ BeforeStop \/ Stop
    BY <1>3, <1>q DEF Start, BeforeStop, Stop
  <1>4. ASSUME NEW c \in Calls, Call(c) PROVE StoreFits' /\ \A d \in Calls : CallFits(d)'
    <2>1. /\ c \in setup.calls /\ call' = [call EXCEPT ![c] = [at |-> "called", time |-> clock]]
          /\ UNCHANGED store /\ log' = log /\ raced' = raced
      BY <1>4 DEF Call, Goes
    <2>2. call'[c] = [at |-> "called", time |-> clock]
      BY <1>t, <2>1 DEF TypeOK
    <2>3. CallFits(c)'
      BY <1>s, <2>1, <2>2 DEF CallFits, Holding
    <2>4. /\ \A d \in Calls \ {c} : call'[d] = call[d]
          /\ {c} \in SUBSET Calls /\ \A d \in {c} : CallFits(d)'
      BY <1>t, <2>1, <2>3 DEF TypeOK
    <2> QED
      BY <1>t, <1>s, <1>i, <2>1, <2>4, QuietKept
  <1>5. ASSUME NEW c \in Calls, GetSession(c) PROVE StoreFits' /\ \A d \in Calls : CallFits(d)'
    BY <1>5, <1>t, <1>i, GetSessionFits
  <1>6. ASSUME NEW c \in Calls, WalletSigns(c) PROVE StoreFits' /\ \A d \in Calls : CallFits(d)'
    BY <1>6, <1>t, <1>s, <1>i, CreateFits DEF WalletSigns
  <1>7. ASSUME NEW c \in Calls, WalletRefuses(c)
        PROVE  StoreFits' /\ \A d \in Calls : CallFits(d)'
    <2>1. /\ c \in setup.calls /\ Ends(c, "refused")
          /\ UNCHANGED store /\ log' = log /\ raced' = raced
      BY <1>7, <1>i DEF WalletRefuses, CallFits
    <2>2. CallFits(c)'
      BY <1>t, <1>s, <2>1, EndFits DEF Over
    <2>3. /\ \A d \in Calls \ {c} : call'[d] = call[d]
          /\ {c} \in SUBSET Calls /\ \A d \in {c} : CallFits(d)'
      BY <1>t, <2>1, <2>2 DEF TypeOK, Ends, Goes
    <2> QED
      BY <1>t, <1>s, <1>i, <2>1, <2>3, QuietKept
  <1>8. ASSUME NEW c \in Calls, QuerySessions(c)
        PROVE  StoreFits' /\ \A d \in Calls : CallFits(d)'
    <2>1. call[c].at = "found" /\ UNCHANGED store /\ log' = log /\ raced' = raced
      BY <1>8 DEF QuerySessions
    <2>2. call[c] \in [at : Holding, time : Times, session : Sessions]
      BY <1>t, <2>1, CallState DEF Holding
    <2>3. PICK how \in {"session", "action"} :
            /\ call' = [call EXCEPT ![c].at = how]
            /\ how = "action" => Logged(Topic(c), call[c].session)
      BY <1>8 DEF QuerySessions, Logged
    <2>4. /\ call'[c].at = how /\ call'[c].session = call[c].session
          /\ call'[c].time = call[c].time
          /\ \A d \in Calls \ {c} : call'[d] = call[d]
      BY <1>t, <2>2, <2>3 DEF TypeOK
    <2>5. CallFits(c)'
      <3>1. Topic(c)' = Topic(c) /\ Get(Topic(c))' = Get(Topic(c))
        BY <1>s, <1>i, <2>1, StoreUnchanged DEF Topic
      <3>2. ValidAt(call[c].session, call[c].time)'
        BY <1>s, <1>i, <2>1, <2>4 DEF CallFits, Holding, ValidAt, None
      <3>3. how = "action" => Logged(Topic(c), call[c].session)'
        BY <2>1, <2>3, <2>4, <3>1 DEF Logged, Indices
      <3>4. /\ c \in setup.calls /\ call[c].session.topic = Topic(c)
            /\ c \in raced \/ Get(Topic(c)) = call[c].session
        BY <1>i, <2>1 DEF CallFits, Holding
      <3> QED
        BY <1>s, <2>1, <2>4, <3>1, <3>2, <3>3, <3>4 DEF CallFits, Holding
    <2>6. {c} \in SUBSET Calls /\ \A d \in {c} : CallFits(d)'
      BY <2>5
    <2> QED
      BY <1>t, <1>s, <1>i, <2>1, <2>4, <2>6, QuietKept
  <1>9. ASSUME NEW c \in Calls, AppendSession(c)
        PROVE  StoreFits' /\ \A d \in Calls : CallFits(d)'
    BY <1>9, <1>t, <1>i, AppendSessionFits
  <1>10. ASSUME NEW c \in Calls, AppendAction(c)
         PROVE  StoreFits' /\ \A d \in Calls : CallFits(d)'
    BY <1>10, <1>t, <1>i, AppendActionFits
  <1>11. ASSUME NEW t \in Topics, Logout(t)
         PROVE  StoreFits' /\ \A d \in Calls : CallFits(d)'
    <2>1. /\ cache' = [k \in DOMAIN cache |-> IF setup.browser \/ k = t THEN None ELSE cache[k]]
          /\ stored' = [stored EXCEPT ![t] = None]
          /\ raced' = raced \cup {c \in Calls : UnderWay(c)}
          /\ call' = call /\ log' = log
      BY <1>11 DEF Logout
    <2>2. StoreFits'
      <3>1. ASSUME NEW d \in setup.calls
            PROVE  Fits(Topic(d), cache'[Slot(Topic(d))]) /\ Fits(Topic(d), stored'[Topic(d)])
        <4>1. Topic(d) \in Topics /\ Slot(Topic(d)) \in Topics \cup {"address"}
          BY <1>t, CallsMade, SetupTyped
        <4> QED
          BY <1>t, <1>i, <2>1, <4>1 DEF TypeOK, StoreFits, Fits
      <3> QED
        BY <1>s, <3>1 DEF StoreFits, Fits, Topic, Slot
    <2>3. ASSUME NEW d \in Calls PROVE CallFits(d)'
      <3>1. call[d].at \in Holding => d \in raced'
        BY <2>1 DEF UnderWay, Holding
      <3>2. \A u, s : Logged(u, s) => Logged(u, s)'
        BY <2>1 DEF Logged, Indices
      <3> QED
        BY <1>s, <1>i, <2>1, <3>1, <3>2, CallKept
    <2> QED
      BY <2>2, <2>3
  <1>12. ASSUME NEW t \in Topics, Sync(t) \/ \E i \in Indices(t) : HandleMessage(t, i)
         PROVE  StoreFits' /\ \A d \in Calls : CallFits(d)'
    BY <1>12, <1>q DEF Sync, HandleMessage
  <1>13. CASE StartPings
    BY <1>13, <1>q DEF StartPings, calling, store
  <1>14. ASSUME NEW q \in Remotes, Open(q) \/ Close(q) \/ \E k \in DOMAIN rounds : Ping(k, q)
         PROVE  StoreFits' /\ \A d \in Calls : CallFits(d)'
    BY <1>14, <1>q DEF Open, Close, Ping, calling, store
  <1>15. ASSUME NEW k \in DOMAIN rounds, Settle(k)
         PROVE  StoreFits' /\ \A d \in Calls : CallFits(d)'
    BY <1>15, <1>q DEF Settle, calling, store
  <1>16. CASE UNCHANGED vars
    BY <1>16, <1>q DEF vars, calling, store
  <1> QED
    BY <1>1, <1>2, <1>3, <1>4, <1>5, <1>6, <1>7, <1>8, <1>9, <1>10, <1>11, <1>12, <1>13,
       <1>14, <1>15, <1>16 DEF Next

LEMMA CallsInvariant == Spec => []CallsInv
  BY InitCalls, CallsKept, PTL DEF Spec

\* The variables have their types, whatever the setup.
THEOREM CanvasTypes == Spec => [](TypeOK /\ LinksOK)
  <1>1. LinksInv /\ [Next]_vars => LinksInv'
    BY NextLinks, LinksKept
  <1>2. CallsInv /\ LinksInv => TypeOK /\ LinksOK
    BY DEF CallsInv, LinksInv
  <1> QED
    BY InitLinks, <1>1, <1>2, CallsInvariant, PTL DEF Spec

\* Where the store tells the topics apart, the session that a call was given is
\* of its topic and valid at its time, whoever stored one since.
THEOREM SessionsFit == Spec => [](StoreTellsApart => SessionFits)
  <1>1. CallsInv => (StoreTellsApart => SessionFits)
    BY DEF CallsInv, SessionFits, CallFits, Holding
  <1> QED
    BY <1>1, CallsInvariant, PTL

\* Where the store tells the topics apart, a call that fails was raced by a
\* change of the store while it was under way.
THEOREM FailuresAreRaced == Spec => [](StoreTellsApart => FailsOnlyIfRaced)
  <1>1. CallsInv => (StoreTellsApart => FailsOnlyIfRaced)
    BY DEF CallsInv, FailsOnlyIfRaced, CallFits
  <1> QED
    BY <1>1, CallsInvariant, PTL

=============================================================================
