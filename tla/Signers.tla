------------------------------- MODULE Signers --------------------------------
(***************************************************************************)
(* The session signers of the chains, packages/chain-*, around a wallet    *)
(* whose user may choose another account at any time.  getSession reads    *)
(* the account and has it sign in separate requests to the wallet; what it *)
(* returns is stored before anybody verifies it, and the calls of Canvas.ts*)
(* append it, and actions signed with its key.                             *)
(*                                                                         *)
(* A session is named by the call that made it, which also names its key.  *)
(* Sessions have no duration, the default.  Canvas.tla has those that end, *)
(* and the network; here each call knows its application's log only.       *)
(***************************************************************************)
EXTENDS Naturals, FiniteSets

CONSTANTS
  Calls,
  Topics,
  Accounts,    \* of the wallet
  ChainOf,     \* the genesis hash that an account of a Substrate wallet names
  KeyTypeOf,   \* the type of its key
  Setups,
  MaxEvents    \* bound: accounts chosen, logouts, restarts

ASSUME ConstantsAssumption ==
  /\ MaxEvents \in Nat
  /\ \A s \in Setups : DOMAIN s.topicOf = Calls /\ \A c \in Calls : s.topicOf[c] \in Topics

VARIABLES
  setup,     \* the kind of signer, its store, and the topics of the calls
  current,   \* the account chosen in the wallet
  own,       \* the account that the signer was constructed with
  call,      \* where each call is
  started,   \* how many calls were made: their timestamps
  cache,     \* SignerStore, SessionStore: the sessions in memory
  stored,    \* localStorage
  sessions,  \* the sessions in the log of each topic
  actions,   \* the actions in the log of each topic
  seen,      \* history: the accounts that were chosen while a call was under way
  raced,     \* history: calls under way while another stored, or all was cleared
  asked,     \* history: the sessions that the wallet signed
  events

wallet == <<current, own>>
store == <<cache, stored>>
log == <<sessions, actions>>
history == <<seen, raced, asked, events>>
vars == <<setup, wallet, call, started, store, log, history>>

None == [by |-> "none"]

-----------------------------------------------------------------------------
(* Kinds of signers.  follows: the account is read from the wallet in each *)
(* call; chained: and the chain from the account, in another request;      *)
(* waits: getSession awaits the wallet; binds: the wallet signs with the   *)
(* account that is asked for; names: the text that is signed names the     *)
(* topic; typed: the type of the key is read on its own; keyed: the session*)
(* brings the key that verifies it.                                        *)

Kind(name, traits) ==
  [name |-> name,
   has |-> [trait \in {"follows", "chained", "waits", "binds", "names", "typed", "keyed"} |->
              trait \in traits]]

Is(trait) == setup.kind.has[trait]

Ethereum == Kind("SIWESigner", {"waits", "binds"})
Viem == Kind("SIWESignerViem", {"follows", "waits"})
Substrate == Kind("SubstrateSigner", {"follows", "chained", "waits", "names", "typed"})
Solana == Kind("SolanaSigner", {"waits", "names"})
NEAR == Kind("NEARSigner", {"binds", "names"})

\* Mutant: whichever account is chosen signs.
CosmosAminoUnbound == Kind("CosmosSigner-amino", {"follows", "waits", "names"})

CosmosAmino == Kind("CosmosSigner-amino", {"follows", "waits", "binds", "names"})
CosmosEthereum == Kind("CosmosSigner-ethereum", {"follows", "waits", "binds"})
CosmosBytes == Kind("CosmosSigner-bytes", {"follows", "waits", "names", "keyed"})
CosmosBurner == Kind("CosmosSigner-burner", {"waits", "binds"})

AllKinds ==
  {Ethereum, Viem, Substrate, Solana, NEAR, CosmosAmino, CosmosEthereum, CosmosBytes, CosmosBurner}

ASSUME SetupsAssumption == \A s \in Setups : s.kind \in AllKinds /\ s.browser \in BOOLEAN

-----------------------------------------------------------------------------
(* verifySession *)

\* The text is made again, for the topic, where it names that.
SameText(t, s) == Is("names") => s.topic = t

\* The key of the signature is that of the address.
SameAccount(s) == s.signedBy = s.address.account

\* The signature is verified as one of the type that the session names.
SameKeyType(s) == Is("typed") => s.keyType = KeyTypeOf[s.address.account]

Verifies(t, s) == SameText(t, s) /\ (Is("keyed") \/ (SameAccount(s) /\ SameKeyType(s)))

-----------------------------------------------------------------------------
(* The stores.  In the browser a session in memory goes by its address,    *)
(* and localStorage has it by topic and address; in node it goes by both.  *)

\* Mutant: the account is left out of the key.
SlotByTopic(t, a) == <<t, [a EXCEPT !.account = CHOOSE x \in Accounts : TRUE]>>

NodeSlot(t, a) == <<t, a>>

NodeGet(t, a) == LET k == NodeSlot(t, a) IN IF k \in DOMAIN cache THEN cache[k] ELSE None

BrowserGet(t, a) ==
  IF a \in DOMAIN cache THEN cache[a]
  ELSE IF <<t, a>> \in DOMAIN stored THEN stored[<<t, a>>] ELSE None

Get(t, a) == IF setup.browser THEN BrowserGet(t, a) ELSE NodeGet(t, a)

With(map, k, s) == [x \in DOMAIN map \cup {k} |-> IF x = k THEN s ELSE map[x]]
Without(map, keys) == [x \in DOMAIN map \ keys |-> map[x]]

NodeSet(t, a, s) == cache' = With(cache, NodeSlot(t, a), s) /\ UNCHANGED stored

BrowserSet(t, a, s) == cache' = With(cache, a, s) /\ stored' = With(stored, <<t, a>>, s)

\* What get finds in localStorage is put in memory.
Remember(t, a) ==
  /\ cache' = IF setup.browser THEN With(cache, a, Get(t, a)) ELSE cache
  /\ UNCHANGED stored

NodeClear(t) ==
  /\ cache' = Without(cache, {k \in DOMAIN cache : k[1] = t})
  /\ UNCHANGED stored

BrowserClear(t) ==
  /\ cache' = Without(cache, DOMAIN cache)
  /\ stored' = Without(stored, {k \in DOMAIN stored : k[1] = t})

-----------------------------------------------------------------------------
(* getSession *)

Topic(c) == setup.topicOf[c]
UnderWay(c) == call[c].at \in {"called", "chained", "signing", "signed", "found", "session", "action"}
Goes(c, state) == call' = [call EXCEPT ![c] = state]
Moves(c, at) == call' = [call EXCEPT ![c].at = at]
Ends(c, how) == Moves(c, how)

Init ==
  /\ setup \in Setups
  /\ current \in Accounts /\ own = current
  /\ call = [c \in Calls |-> [at |-> "idle"]] /\ started = 0
  /\ cache = [k \in {} |-> None] /\ stored = [k \in {} |-> None]
  /\ sessions = [t \in Topics |-> {}] /\ actions = [t \in Topics |-> {}]
  /\ seen = [c \in Calls |-> {}] /\ raced = {} /\ asked = {} /\ events = 0

Call(c) ==
  /\ call[c].at = "idle"
  /\ started' = started + 1
  /\ Goes(c, [at |-> "called", time |-> started'])
  /\ seen' = [seen EXCEPT ![c] = {current}]
  /\ UNCHANGED <<setup, wallet, store, log, raced, asked, events>>

\* getChainId: of the account chosen now.
GetChainId(c) ==
  /\ call[c].at = "called"
  /\ Goes(c, [at |-> "chained", time |-> call[c].time,
              chain |-> IF Is("chained") THEN ChainOf[current] ELSE "chain"])
  /\ UNCHANGED <<setup, wallet, started, store, log, history>>

Stores(c, s) ==
  /\ IF setup.browser THEN BrowserSet(Topic(c), s.address, s) ELSE NodeSet(Topic(c), s.address, s)
  /\ Goes(c, [at |-> "found", time |-> call[c].time, session |-> s])
  /\ raced' = raced \cup {d \in Calls \ {c} : UnderWay(d)}
  /\ asked' = asked \cup {s}

NewSession(c, a, signedBy) ==
  [by |-> c, topic |-> Topic(c), address |-> a, from |-> call[c].time,
   signedBy |-> signedBy, keyType |-> KeyTypeOf[current]]

\* getAddress, then the store: a session that does not begin later, else a new
\* one.
GetAddress(c) ==
  /\ call[c].at = "chained"
  /\ LET a == [chain |-> call[c].chain, account |-> IF Is("follows") THEN current ELSE own]
         s == Get(Topic(c), a)
     IN IF s # None /\ s.from <= call[c].time
          THEN /\ Remember(Topic(c), a)
               /\ Goes(c, [at |-> "found", time |-> call[c].time, session |-> s])
               /\ UNCHANGED <<raced, asked>>
        ELSE IF Is("waits")
          THEN /\ Goes(c, [at |-> "signing", time |-> call[c].time, address |-> a])
               /\ UNCHANGED <<store, raced, asked>>
        ELSE Stores(c, NewSession(c, a, own))
  /\ UNCHANGED <<setup, wallet, started, log, seen, events>>

\* The wallet signs, with the account it was asked for or with the one chosen.
WalletSigns(c) ==
  /\ call[c].at = "signing"
  /\ Goes(c, [at |-> "signed", time |-> call[c].time, address |-> call[c].address,
              signedBy |-> IF Is("binds") THEN call[c].address.account ELSE current])
  /\ UNCHANGED <<setup, wallet, started, store, log, history>>

WalletRefuses(c) ==
  /\ call[c].at = "signing" /\ Ends(c, "refused")
  /\ UNCHANGED <<setup, wallet, started, store, log, history>>

\* getSubstrateKeyType, and the session is stored.
StoreSession(c) ==
  /\ call[c].at = "signed"
  /\ Stores(c, NewSession(c, call[c].address, call[c].signedBy))
  /\ UNCHANGED <<setup, wallet, started, log, seen, events>>

-----------------------------------------------------------------------------
(* The rest of the call *)

\* Whether $sessions has the session.
QuerySessions(c) ==
  /\ call[c].at = "found"
  /\ Moves(c, IF call[c].session \in sessions[Topic(c)] THEN "action" ELSE "session")
  /\ UNCHANGED <<setup, wallet, started, store, log, history>>

\* sign: only our own current sessions; and the consumer verifies it.
AppendSession(c) ==
  /\ call[c].at = "session"
  /\ LET t == Topic(c)
         s == call[c].session
     IN IF Get(t, s.address) = s /\ Verifies(t, s)
          THEN sessions' = [sessions EXCEPT ![t] = @ \cup {s}] /\ Moves(c, "action")
          ELSE Ends(c, "failed") /\ UNCHANGED sessions
  /\ UNCHANGED <<setup, wallet, started, store, actions, history>>

\* sign: with the key of the session that is stored by now; and the consumer looks
\* for the session of the key.
AppendAction(c) ==
  /\ call[c].at = "action"
  /\ LET t == Topic(c)
         a == call[c].session.address
         s == Get(t, a)
     IN IF s # None /\ s.address = a /\ s.from <= call[c].time /\ s \in sessions[t]
          THEN /\ actions' = [actions EXCEPT ![t] = @ \cup {[by |-> c, address |-> a]}]
               /\ Ends(c, "done")
          ELSE Ends(c, "failed") /\ UNCHANGED actions
  /\ UNCHANGED <<setup, wallet, started, store, sessions, history>>

-----------------------------------------------------------------------------
(* The user *)

Event == events < MaxEvents /\ events' = events + 1

Choose(a) ==
  /\ Event /\ a # current /\ current' = a
  /\ seen' = [c \in Calls |-> IF UnderWay(c) THEN seen[c] \cup {a} ELSE seen[c]]
  /\ UNCHANGED <<setup, own, call, started, store, log, raced, asked>>

\* clear
Clear(t) ==
  /\ Event
  /\ IF setup.browser THEN BrowserClear(t) ELSE NodeClear(t)
  /\ raced' = raced \cup {c \in Calls : UnderWay(c)}
  /\ asked' = {s \in asked : s.topic # t}
  /\ UNCHANGED <<setup, wallet, call, started, log, seen>>

\* The application starts anew, with another signer: localStorage is there.
Restart ==
  /\ Event
  /\ cache' = Without(cache, DOMAIN cache)
  /\ own' = current
  /\ call' = [c \in Calls |-> IF UnderWay(c) THEN [at |-> "lost"] ELSE call[c]]
  /\ asked' = IF setup.browser THEN asked ELSE {}
  /\ UNCHANGED <<setup, current, started, stored, log, seen, raced>>

Next ==
  \/ \E c \in Calls :
       \/ Call(c) \/ GetChainId(c) \/ GetAddress(c) \/ WalletSigns(c) \/ WalletRefuses(c)
       \/ StoreSession(c) \/ QuerySessions(c) \/ AppendSession(c) \/ AppendAction(c)
  \/ \E a \in Accounts : Choose(a)
  \/ \E t \in Topics : Clear(t)
  \/ Restart

Spec == Init /\ [][Next]_vars

-----------------------------------------------------------------------------
(* Properties *)

Addresses == [chain : {ChainOf[a] : a \in Accounts} \cup {"chain"}, account : Accounts]

BindingSigners ==
  {"SIWESigner", "NEARSigner", "CosmosSigner-amino", "CosmosSigner-ethereum", "CosmosSigner-burner"}

\* The account was changed while a call was under way.
Disturbed(c) == \E a, b \in seen[c] : a # b

\* The address of a SolanaSigner is that of its construction (SolanaSigner.ts:52);
\* its account was not the one chosen at any time of the call.
Outdated(s) == setup.kind.name = "SolanaSigner" /\ s.address.account \notin seen[s.by]

\* Authorized.  What getSession makes verifies for the topic, unless the account
\* was changed during the call that made it; and always, with the signers that tell
\* the wallet which account has to sign.  Except what a SolanaSigner makes when the
\* account has changed since it was constructed: that never verifies.
Authorized ==
  \A s \in asked :
    \/ Verifies(s.topic, s)
    \/ setup.kind.name \notin BindingSigners /\ (Disturbed(s.by) \/ Outdated(s))

\* ActsAsChosen.  With a signer that follows the wallet, an action is that of an
\* account that was chosen while its call was under way, whatever sessions of
\* other accounts and topics are stored.
ActsAsChosen ==
  Is("follows") => \A t \in Topics : \A x \in actions[t] : x.address.account \in seen[x.by]

\* AskedOnce.  Unless calls overlap, and until the user logs out, the wallet does not
\* sign a second session of a topic and an address, however often the account
\* changes; in the browser, not after a restart either.
AskedOnce ==
  \A s, other \in asked :
    s # other /\ s.topic = other.topic /\ s.address = other.address =>
      s.by \in raced \/ other.by \in raced

\* The user of the wallet is heeded, and not asked again.
UserHeeded == ActsAsChosen /\ AskedOnce

=============================================================================
