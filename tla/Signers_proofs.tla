--------------------------- MODULE Signers_proofs ----------------------------
(***************************************************************************)
(* Proofs about Signers, for every set of calls, topics, accounts, chains  *)
(* and types of keys, and every way to set a signer of these kinds up:     *)
(* which sessions verify, whom actions are of, and when the wallet is      *)
(* asked again.  And about ATPSigner: what it stores and leaves behind.     *)
(***************************************************************************)
EXTENDS Signers, BlueskySigner, SequenceTheorems, TLAPS

-----------------------------------------------------------------------------
(* The kinds of signers *)

Traits == {"follows", "chained", "waits", "binds", "names", "typed", "keyed"}

LEMMA KindHas ==
  ASSUME NEW name, NEW traits, NEW trait \in Traits
  PROVE  Kind(name, traits).name = name /\ Kind(name, traits).has[trait] = (trait \in traits)
  BY DEF Kind, Traits

KindFits(kind) ==
  /\ kind.name \in BindingSigners <=> kind.has["binds"]
  /\ kind.has["binds"] => ~kind.has["typed"]
  /\ ~kind.has["waits"] => kind.has["binds"] /\ ~kind.has["follows"]
  /\ ~kind.has["binds"] /\ ~kind.has["follows"] => kind.name = "SolanaSigner"

\* Those that bind the account are those that are said to; none of them reads the
\* type of a key on its own, and who signs without a request to the wallet binds;
\* one neither binds the account nor reads it in each call.
LEMMA KindFacts ==
  ASSUME NEW kind \in AllKinds
  PROVE  KindFits(kind)
  <1>1. ASSUME NEW name, NEW traits,
               name \in BindingSigners <=> "binds" \in traits,
               "binds" \in traits => "typed" \notin traits,
               "waits" \notin traits => "binds" \in traits /\ "follows" \notin traits,
               "binds" \notin traits /\ "follows" \notin traits => name = "SolanaSigner"
        PROVE  KindFits(Kind(name, traits))
    <2>1. "follows" \in Traits /\ "waits" \in Traits /\ "binds" \in Traits /\ "typed" \in Traits
      BY DEF Traits
    <2>2. PICK k : k = Kind(name, traits)
      OBVIOUS
    <2>3. /\ k.name = name
          /\ k.has["follows"] = ("follows" \in traits)
          /\ k.has["waits"] = ("waits" \in traits)
          /\ k.has["binds"] = ("binds" \in traits)
          /\ k.has["typed"] = ("typed" \in traits)
      BY <2>1, <2>2, KindHas
    <2>4. KindFits(k)
      BY <1>1, <2>3 DEF KindFits
    <2> QED
      BY <2>2, <2>4
  <1>2. KindFits(Ethereum)
    BY <1>1 DEF Ethereum, BindingSigners
  <1>3. KindFits(Viem)
    BY <1>1 DEF Viem, BindingSigners
  <1>4. KindFits(Substrate)
    BY <1>1 DEF Substrate, BindingSigners
  <1>5. KindFits(Solana)
    BY <1>1 DEF Solana, BindingSigners
  <1>6. KindFits(NEAR)
    BY <1>1 DEF NEAR, BindingSigners
  <1>7. KindFits(CosmosAmino)
    BY <1>1 DEF CosmosAmino, BindingSigners
  <1>8. KindFits(CosmosEthereum)
    BY <1>1 DEF CosmosEthereum, BindingSigners
  <1>9. KindFits(CosmosBytes)
    BY <1>1 DEF CosmosBytes, BindingSigners
  <1>10. KindFits(CosmosBurner)
    BY <1>1 DEF CosmosBurner, BindingSigners
  <1> QED
    BY <1>2, <1>3, <1>4, <1>5, <1>6, <1>7, <1>8, <1>9, <1>10 DEF AllKinds

-----------------------------------------------------------------------------
(* Types *)

SessionType ==
  [by : Calls, topic : Topics, address : Addresses, from : Nat, signedBy : Accounts,
   keyType : {KeyTypeOf[a] : a \in Accounts}]

Chains == {ChainOf[a] : a \in Accounts} \cup {"chain"}
Holding == {"found", "session", "action"}

CallStates ==
  [at : {"idle", "lost"}] \cup [at : {"called"}, time : Nat]
    \cup [at : {"chained"}, time : Nat, chain : Chains]
    \cup [at : {"signing", "refused"}, time : Nat, address : Addresses]
    \cup [at : {"signed"}, time : Nat, address : Addresses, signedBy : Accounts]
    \cup [at : Holding \cup {"done", "failed"}, time : Nat, session : SessionType]

\* The variables have their types.
TypeOK ==
  /\ setup \in Setups
  /\ current \in Accounts /\ own \in Accounts
  /\ call \in [Calls -> CallStates] /\ started \in Nat
  /\ actions \in [Topics -> SUBSET [by : Calls, address : Addresses]]
  /\ seen \in [Calls -> SUBSET Accounts] /\ raced \subseteq Calls
  /\ asked \subseteq SessionType

-----------------------------------------------------------------------------
(* The inductive invariant *)

\* Every session that is stored goes by its address.
StoreFits ==
  /\ \A k \in DOMAIN cache :
       /\ cache[k] \in SessionType
       /\ IF setup.browser THEN k = cache[k].address
          ELSE \E t \in Topics : k = <<t, cache[k].address>>
  /\ \A k \in DOMAIN stored :
       stored[k] \in SessionType /\ \E t \in Topics : k = <<t, stored[k].address>>

InStore == {cache[k] : k \in DOMAIN cache} \cup {stored[k] : k \in DOMAIN stored}

\* A session that begins after a call under way was stored during that call.
LateIsRaced ==
  /\ \A x \in InStore : x.from <= started
  /\ \A c \in Calls : UnderWay(c) =>
       /\ call[c].time <= started
       /\ \A x \in InStore : x.from > call[c].time => c \in raced

\* What the wallet signed is stored, and verifies unless another account than
\* its own was seen; its own was seen, if the signer follows the wallet.
AskedFits ==
  \A s \in asked :
    /\ <<s.topic, s.address>> \in IF setup.browser THEN DOMAIN stored ELSE DOMAIN cache
    /\ call[s.by].at # "idle"
    /\ Verifies(s.topic, s) \/ (~Is("binds") /\ \E x \in seen[s.by] : x # s.address.account)
    /\ Is("follows") => s.address.account \in seen[s.by]

\* A call that waits for the wallet knows of no session to use instead, unless one
\* was stored meanwhile.
Pending(c) ==
  call[c].at \in {"signing", "signed"} =>
    \A s \in asked : s.topic = Topic(c) /\ s.address = call[c].address => c \in raced

\* Whom a call is of was chosen while it was under way.
CallFits(c) ==
  /\ UnderWay(c) => current \in seen[c]
  /\ call[c].at \in {"signing", "signed"} =>
       Is("waits") /\ (Is("follows") => call[c].address.account \in seen[c])
  /\ call[c].at = "signed" =>
       IF Is("binds") THEN call[c].signedBy = call[c].address.account
       ELSE call[c].signedBy \in seen[c]
  /\ call[c].at \in Holding => (Is("follows") => call[c].session.address.account \in seen[c])

ActionsFit ==
  \A t \in Topics : \A x \in actions[t] :
    call[x.by].at # "idle" /\ (Is("follows") => x.address.account \in seen[x.by])

SignersInv ==
  /\ TypeOK /\ StoreFits /\ LateIsRaced /\ AskedFits /\ ActionsFit /\ AskedOnce
  /\ \A c \in Calls : CallFits(c) /\ Pending(c)

-----------------------------------------------------------------------------
(* What the parts of a step need to know *)

LEMMA SetupFacts ==
  ASSUME TypeOK
  PROVE  /\ setup.browser \in BOOLEAN /\ KindFits(setup.kind)
         /\ \A c \in Calls : Topic(c) \in Topics
  BY ConstantsAssumption, SetupsAssumption, KindFacts DEF TypeOK, Topic

LEMMA SetupKept ==
  ASSUME setup' = setup
  PROVE  /\ \A c : Topic(c)' = Topic(c)
         /\ \A trait : Is(trait)' = Is(trait)
         /\ \A t, s : Verifies(t, s)' <=> Verifies(t, s)
  <1>1. /\ \A c : Topic(c)' = Topic(c)
        /\ \A trait : Is(trait)' = Is(trait)
    BY DEF Topic, Is
  <1>2. \A t, s : Verifies(t, s)' <=> Verifies(t, s)
    BY DEF Verifies, SameText, SameAccount, SameKeyType, Is
  <1> QED
    BY <1>1, <1>2

LEMMA NoneIsNoSession == None \notin SessionType
  <1>1. "topic" \notin DOMAIN None
    BY DEF None
  <1>2. \A s \in SessionType : "topic" \in DOMAIN s
    BY DEF SessionType
  <1> QED
    BY <1>1, <1>2

LEMMA CallState ==
  ASSUME TypeOK, NEW c \in Calls
  PROVE  /\ UnderWay(c) => call[c].time \in Nat
         /\ call[c].at = "called" => call[c] \in [at : {"called"}, time : Nat]
         /\ call[c].at = "chained" => call[c] \in [at : {"chained"}, time : Nat, chain : Chains]
         /\ call[c].at = "signing" =>
              call[c] \in [at : {"signing", "refused"}, time : Nat, address : Addresses]
         /\ call[c].at = "signed" =>
              call[c] \in [at : {"signed"}, time : Nat, address : Addresses, signedBy : Accounts]
         /\ call[c].at \in Holding =>
              call[c] \in [at : Holding \cup {"done", "failed"}, time : Nat, session : SessionType]
  BY DEF TypeOK, CallStates, Holding, UnderWay

\* What get finds is stored, and is of the address.
LEMMA GetFinds ==
  ASSUME TypeOK, StoreFits, NEW t, NEW a, Get(t, a) # None
  PROVE  /\ Get(t, a) \in SessionType /\ Get(t, a) \in InStore /\ Get(t, a).address = a
  <1>1. CASE setup.browser
    BY <1>1 DEF Get, BrowserGet, StoreFits, InStore
  <1>2. CASE ~setup.browser
    BY <1>2 DEF Get, NodeGet, NodeSlot, StoreFits, InStore
  <1> QED
    BY <1>1, <1>2

\* What the wallet signed for a topic and an address get finds, or another session.
LEMMA AskedIsFound ==
  ASSUME TypeOK, StoreFits, AskedFits, NEW s \in asked
  PROVE  Get(s.topic, s.address) # None
  <1>1. CASE setup.browser
    <2>1. <<s.topic, s.address>> \in DOMAIN stored
      BY <1>1 DEF AskedFits
    <2> QED
      BY <1>1, <2>1, NoneIsNoSession DEF Get, BrowserGet, StoreFits
  <1>2. CASE ~setup.browser
    BY <1>2, NoneIsNoSession DEF Get, NodeGet, NodeSlot, StoreFits, AskedFits
  <1> QED
    BY <1>1, <1>2

\* A call that a step does not take.
LEMMA CallKept ==
  ASSUME NEW d \in Calls, CallFits(d), Pending(d), setup' = setup, call'[d] = call[d],
         seen[d] \subseteq seen'[d], UnderWay(d) => current' \in seen'[d],
         raced \subseteq raced',
         call[d].at \in {"signing", "signed"} => d \in raced' \/ asked' \subseteq asked
  PROVE  CallFits(d)' /\ Pending(d)'
  <1>1. CallFits(d)'
    BY SetupKept DEF CallFits, UnderWay
  <1>2. Pending(d)'
    BY SetupKept DEF Pending
  <1> QED
    BY <1>1, <1>2

\* A step that asks the wallet for nothing.
LEMMA AskedKept ==
  ASSUME TypeOK, AskedFits, AskedOnce, setup' = setup, asked' \subseteq asked,
         raced \subseteq raced',
         \A s \in asked' : <<s.topic, s.address>> \in
           IF setup.browser THEN DOMAIN stored' ELSE DOMAIN cache',
         \A c \in Calls : call[c].at # "idle" =>
           call'[c].at # "idle" /\ seen[c] \subseteq seen'[c]
  PROVE  AskedFits' /\ AskedOnce'
  <1>1. ASSUME NEW s \in asked'
        PROVE  /\ call'[s.by].at # "idle"
               /\ \/ Verifies(s.topic, s)
                  \/ ~Is("binds") /\ \E x \in seen'[s.by] : x # s.address.account
               /\ Is("follows") => s.address.account \in seen'[s.by]
    <2>1. s \in asked /\ s.by \in Calls
      BY DEF TypeOK, SessionType
    <2> QED
      BY <2>1 DEF AskedFits
  <1>2. AskedFits'
    BY <1>1, SetupKept DEF AskedFits
  <1>3. AskedOnce'
    BY DEF AskedOnce
  <1> QED
    BY <1>2, <1>3

LEMMA ActionsKept ==
  ASSUME TypeOK, ActionsFit, setup' = setup, actions' = actions,
         \A c \in Calls : call[c].at # "idle" =>
           call'[c].at # "idle" /\ seen[c] \subseteq seen'[c]
  PROVE  ActionsFit'
  <1>1. \A t \in Topics : \A x \in actions[t] : x.by \in Calls
    BY DEF TypeOK
  <1> QED
    BY <1>1, SetupKept DEF ActionsFit

-----------------------------------------------------------------------------
(* A call goes on *)

\* A step of one call that stores nothing.
LEMMA MoveKept ==
  ASSUME SignersInv, NEW c \in Calls, NEW state \in CallStates, Goes(c, state),
         UNCHANGED <<setup, current, own, started, seen, raced, asked, store>>,
         call[c].at # "idle", state.at # "idle",
         state.at \in {"called", "chained", "signing", "signed", "found", "session", "action"} =>
           UnderWay(c) /\ state.time = call[c].time,
         CallFits(c)', Pending(c)',
         actions' \in [Topics -> SUBSET [by : Calls, address : Addresses]],
         \A t \in Topics : \A x \in actions'[t] \ actions[t] :
           x.by = c /\ (Is("follows") => x.address.account \in seen[c])
  PROVE  SignersInv'
  <1>t. TypeOK
    BY DEF SignersInv
  <1>1. call'[c] = state /\ \A d \in Calls \ {c} : call'[d] = call[d]
    BY <1>t DEF Goes, TypeOK
  <1>2. TypeOK'
    BY <1>t DEF TypeOK, Goes
  <1>3. StoreFits' /\ InStore' = InStore
    BY DEF SignersInv, StoreFits, InStore, store
  <1>4. \A d \in Calls : UnderWay(d)' => UnderWay(d) /\ call'[d].time = call[d].time
    BY <1>1 DEF UnderWay
  <1>5. LateIsRaced'
    BY <1>3, <1>4 DEF SignersInv, LateIsRaced
  <1>6. \A d \in Calls : call[d].at # "idle" =>
          call'[d].at # "idle" /\ seen[d] \subseteq seen'[d]
    BY <1>1
  <1>7. AskedFits' /\ AskedOnce'
    <2>1. \A s \in asked' : <<s.topic, s.address>> \in
            IF setup.browser THEN DOMAIN stored' ELSE DOMAIN cache'
      BY DEF SignersInv, AskedFits, store
    <2> QED
      BY <1>t, <1>6, <2>1, AskedKept DEF SignersInv
  <1>8. ActionsFit'
    <2> SUFFICES ASSUME NEW t \in Topics, NEW x \in actions'[t]
                 PROVE  /\ call'[x.by].at # "idle"
                        /\ Is("follows") => x.address.account \in seen'[x.by]
      BY SetupKept DEF ActionsFit
    <2>1. CASE x \in actions[t]
      <3>1. x.by \in Calls
        BY <1>t, <2>1 DEF TypeOK
      <3> QED
        BY <1>6, <2>1, <3>1 DEF SignersInv, ActionsFit
    <2>2. CASE x \notin actions[t]
      BY <1>1, <2>2
    <2> QED
      BY <2>1, <2>2
  <1>9. ASSUME NEW d \in Calls, d # c PROVE CallFits(d)' /\ Pending(d)'
    BY <1>1, <1>9, CallKept DEF SignersInv, CallFits
  <1> QED
    BY <1>2, <1>3, <1>5, <1>7, <1>8, <1>9 DEF SignersInv

\* A step of one call that stores a session that the wallet, or the signer, has
\* just signed.
LEMMA StoresFits ==
  ASSUME SignersInv, NEW c \in Calls, NEW s \in SessionType, UnderWay(c), Stores(c, s),
         UNCHANGED <<setup, current, own, started, seen, actions>>,
         s.by = c, s.topic = Topic(c), s.from = call[c].time,
         Verifies(s.topic, s) \/ (~Is("binds") /\ \E x \in seen[c] : x # s.address.account),
         Is("follows") => s.address.account \in seen[c],
         \A x \in asked : x.topic = s.topic /\ x.address = s.address => c \in raced
  PROVE  SignersInv'
  <1> DEFINE state == [at |-> "found", time |-> call[c].time, session |-> s]
             slot == <<s.topic, s.address>>
  <1>t. TypeOK /\ setup.browser \in BOOLEAN /\ s.topic \in Topics
    BY SetupFacts DEF SignersInv
  <1>1. /\ call[c].time \in Nat /\ state \in CallStates
        /\ call' = [call EXCEPT ![c] = state]
        /\ raced' = raced \cup {d \in Calls \ {c} : UnderWay(d)}
        /\ asked' = asked \cup {s}
    BY <1>t, CallState DEF Stores, Goes, CallStates, Holding
  <1>2. call'[c] = state /\ \A d \in Calls \ {c} : call'[d] = call[d]
    BY <1>t, <1>1 DEF TypeOK
  <1>3. TypeOK'
    BY <1>t, <1>1 DEF TypeOK
  <1>4. IF setup.browser
          THEN /\ cache' = With(cache, s.address, s) /\ stored' = With(stored, slot, s)
          ELSE cache' = With(cache, slot, s) /\ stored' = stored
    BY DEF Stores, BrowserSet, NodeSet, NodeSlot
  <1> HIDE DEF state
  <1>5. StoreFits' /\ InStore' \subseteq InStore \cup {s}
    <2>f. StoreFits
      BY DEF SignersInv
    <2>1. CASE setup.browser
      <3>1. /\ DOMAIN cache' = DOMAIN cache \cup {s.address}
            /\ \A k \in DOMAIN cache' : cache'[k] = IF k = s.address THEN s ELSE cache[k]
            /\ DOMAIN stored' = DOMAIN stored \cup {slot}
            /\ \A k \in DOMAIN stored' : stored'[k] = IF k = slot THEN s ELSE stored[k]
        BY <1>4, <2>1 DEF With
      <3> QED
        BY <1>t, <2>1, <2>f, <3>1 DEF StoreFits, InStore
    <2>2. CASE ~setup.browser
      <3>1. /\ DOMAIN cache' = DOMAIN cache \cup {slot}
            /\ \A k \in DOMAIN cache' : cache'[k] = IF k = slot THEN s ELSE cache[k]
            /\ stored' = stored
        BY <1>4, <2>2 DEF With
      <3> QED
        BY <1>t, <2>2, <2>f, <3>1 DEF StoreFits, InStore
    <2> QED
      BY <2>1, <2>2
  <1>6. LateIsRaced'
    <2>1. \A x \in InStore' : x.from <= started
      BY <1>5 DEF SignersInv, LateIsRaced
    <2>2. ASSUME NEW d \in Calls, UnderWay(d)'
          PROVE  /\ call'[d].time <= started
                 /\ \A x \in InStore' : x.from > call'[d].time => d \in raced'
      <3>1. CASE d = c
        <4>1. call'[d].time = call[c].time
          BY <1>2, <3>1 DEF state
        <4>2. ~(s.from > call[c].time)
          BY <1>1
        <4> QED
          BY <1>1, <1>5, <3>1, <4>1, <4>2 DEF SignersInv, LateIsRaced
      <3>2. CASE d # c
        <4>1. UnderWay(d) /\ call'[d] = call[d]
          BY <1>2, <2>2, <3>2 DEF UnderWay
        <4> QED
          BY <1>1, <3>2, <4>1 DEF SignersInv, LateIsRaced
      <3> QED
        BY <3>1, <3>2
    <2> QED
      BY <2>1, <2>2 DEF LateIsRaced
  <1>7. AskedFits'
    <2> SUFFICES ASSUME NEW x \in asked'
                 PROVE  /\ <<x.topic, x.address>> \in
                             IF setup.browser THEN DOMAIN stored' ELSE DOMAIN cache'
                        /\ call'[x.by].at # "idle"
                        /\ \/ Verifies(x.topic, x)
                           \/ ~Is("binds") /\ \E y \in seen[x.by] : y # x.address.account
                        /\ Is("follows") => x.address.account \in seen[x.by]
      BY SetupKept DEF AskedFits
    <2>1. /\ setup.browser => DOMAIN stored' = DOMAIN stored \cup {slot}
          /\ ~setup.browser => DOMAIN cache' = DOMAIN cache \cup {slot}
      BY <1>4 DEF With
    <2>2. CASE x = s
      BY <1>2, <2>1, <2>2 DEF state
    <2>3. CASE x \in asked
      <3>1. x.by \in Calls /\ call'[x.by].at # "idle"
        <4>1. x.by \in Calls
          BY <1>t, <2>3 DEF TypeOK, SessionType
        <4>2. call[x.by].at # "idle"
          BY <2>3 DEF SignersInv, AskedFits
        <4>3. call'[c].at = "found"
          BY <1>2 DEF state
        <4> QED
          BY <1>2, <4>1, <4>2, <4>3
      <3> QED
        BY <2>1, <2>3, <3>1 DEF SignersInv, AskedFits
    <2> QED
      BY <1>1, <2>2, <2>3
  <1>8. AskedOnce'
    BY <1>1 DEF SignersInv, AskedOnce
  <1>9. ActionsFit'
    <2>1. \A d \in Calls : call[d].at # "idle" =>
            call'[d].at # "idle" /\ seen[d] \subseteq seen'[d]
      BY <1>2 DEF state
    <2> QED
      BY <1>t, <2>1, ActionsKept DEF SignersInv
  <1>10. CallFits(c)' /\ Pending(c)'
    <2>1. /\ call'[c].at = "found" /\ call'[c].session = s
          /\ current \in seen[c]
      BY <1>2 DEF state, SignersInv, CallFits
    <2> QED
      BY <2>1, SetupKept DEF CallFits, Pending, Holding
  <1>11. ASSUME NEW d \in Calls, d # c PROVE CallFits(d)' /\ Pending(d)'
    <2>1. call[d].at \in {"signing", "signed"} => d \in raced'
      BY <1>1, <1>11 DEF UnderWay
    <2> QED
      BY <1>1, <1>2, <1>11, <2>1, CallKept DEF SignersInv, CallFits
  <1> QED
    BY <1>3, <1>5, <1>6, <1>7, <1>8, <1>9, <1>10, <1>11 DEF SignersInv

\* GetAddress and StoreSession: the session made verifies, or two accounts were seen.
LEMMA NewFits ==
  ASSUME SignersInv, NEW c \in Calls, UnderWay(c), NEW a \in Addresses, NEW by \in Accounts,
         IF Is("binds") THEN by = a.account ELSE by \in seen[c],
         Stores(c, NewSession(c, a, by)),
         UNCHANGED <<setup, current, own, started, seen, actions>>,
         Is("follows") => a.account \in seen[c],
         \A x \in asked : x.topic = Topic(c) /\ x.address = a => c \in raced
  PROVE  SignersInv'
  <1> DEFINE s == NewSession(c, a, by)
  <1>t. TypeOK /\ KindFits(setup.kind) /\ current \in seen[c]
    BY SetupFacts DEF SignersInv, CallFits
  <1>1. /\ s.by = c /\ s.topic = Topic(c) /\ s.address = a /\ s.from = call[c].time
        /\ s.signedBy = by /\ s.keyType = KeyTypeOf[current]
    BY DEF NewSession
  <1>2. s \in SessionType
    BY <1>t, SetupFacts, CallState DEF NewSession, SessionType, TypeOK
  <1> HIDE DEF s
  <1>3. Verifies(s.topic, s) \/ (~Is("binds") /\ \E x \in seen[c] : x # s.address.account)
    <2>1. SameText(s.topic, s)
      BY DEF SameText
    <2>2. CASE Is("binds")
      <3>1. ~Is("typed")
        BY <1>t, <2>2 DEF KindFits, Is
      <3> QED
        BY <1>1, <2>1, <2>2, <3>1 DEF Verifies, SameAccount, SameKeyType
    <2>3. CASE ~Is("binds") /\ by = a.account /\ current = a.account
      BY <1>1, <2>1, <2>3 DEF Verifies, SameAccount, SameKeyType
    <2>4. CASE ~Is("binds") /\ (by # a.account \/ current # a.account)
      BY <1>t, <1>1, <2>4
    <2> QED
      BY <2>2, <2>3, <2>4
  <1> QED
    BY <1>1, <1>2, <1>3, StoresFits DEF s

LEMMA GetAddressFits ==
  ASSUME SignersInv, NEW c \in Calls, GetAddress(c)
  PROVE  SignersInv'
  <1> DEFINE a == [chain |-> call[c].chain, account |-> IF Is("follows") THEN current ELSE own]
             s == Get(Topic(c), a)
  <1>t. TypeOK /\ KindFits(setup.kind) /\ StoreFits
    BY SetupFacts DEF SignersInv
  <1>1. /\ call[c].at = "chained" /\ UnderWay(c) /\ call[c].time \in Nat
        /\ call[c].chain \in Chains
        /\ UNCHANGED <<setup, current, own, started, actions, seen>>
    BY <1>t, CallState DEF GetAddress, UnderWay, wallet, log
  <1>2. a \in Addresses /\ a.account = IF Is("follows") THEN current ELSE own
    BY <1>t, <1>1 DEF TypeOK, Addresses, Chains
  <1>3. current \in seen[c]
    BY <1>1 DEF SignersInv, CallFits
  <1>4. CASE s # None /\ s.from <= call[c].time
    <2> DEFINE state == [at |-> "found", time |-> call[c].time, session |-> s]
    <2>1. Remember(Topic(c), a) /\ Goes(c, state) /\ UNCHANGED <<raced, asked>>
      BY <1>4 DEF GetAddress
    <2>2. s \in SessionType /\ s.address = a /\ s \in InStore
      BY <1>t, <1>4, GetFinds
    <2>3. PICK x : x = s
      OBVIOUS
    <2>4. stored' = stored /\ cache' = IF setup.browser THEN With(cache, a, x) ELSE cache
      BY <2>1, <2>3 DEF Remember
    <2>5. state \in CallStates /\ state.session = x
      BY <1>1, <2>2, <2>3 DEF CallStates, Holding
    <2>6. /\ state.at = "found" /\ state.time = call[c].time
      OBVIOUS
    <2> HIDE DEF state, s, a
    <2>7. call'[c] = state /\ \A d \in Calls \ {c} : call'[d] = call[d]
      BY <1>t, <2>1 DEF Goes, TypeOK
    <2>8. TypeOK'
      BY <1>t, <1>1, <2>1, <2>5 DEF TypeOK, Goes
    <2>9. StoreFits' /\ InStore' \subseteq InStore
      <3>1. DOMAIN cache \subseteq DOMAIN cache'
        BY <2>4 DEF With
      <3>2. \A k \in DOMAIN cache' :
              \/ k \in DOMAIN cache /\ cache'[k] = cache[k]
              \/ setup.browser /\ k = a /\ cache'[k] = x
        BY <2>4 DEF With
      <3> QED
        BY <1>t, <1>1, <2>2, <2>3, <2>4, <3>2 DEF StoreFits, InStore
    <2>10. LateIsRaced'
      <3>1. \A d \in Calls : UnderWay(d)' => UnderWay(d) /\ call'[d].time = call[d].time
        BY <1>1, <2>6, <2>7 DEF UnderWay
      <3> QED
        BY <1>1, <2>1, <2>9, <3>1 DEF SignersInv, LateIsRaced
    <2>11. \A d \in Calls : call[d].at # "idle" =>
             call'[d].at # "idle" /\ seen[d] \subseteq seen'[d]
      BY <1>1, <2>6, <2>7
    <2>12. AskedFits' /\ AskedOnce'
      <3>1. \A y \in asked' : <<y.topic, y.address>> \in
              IF setup.browser THEN DOMAIN stored' ELSE DOMAIN cache'
        BY <2>1, <2>4 DEF SignersInv, AskedFits
      <3> QED
        BY <1>t, <1>1, <2>1, <2>11, <3>1, AskedKept DEF SignersInv
    <2>13. ActionsFit'
      BY <1>t, <1>1, <2>11, ActionsKept DEF SignersInv
    <2>14. CallFits(c)' /\ Pending(c)'
      <3>1. Is("follows") => x.address.account \in seen[c]
        BY <1>2, <1>3, <2>2, <2>3
      <3> QED
        BY <1>1, <1>3, <2>5, <2>6, <2>7, <3>1, SetupKept DEF CallFits, Pending, Holding
    <2>15. ASSUME NEW d \in Calls, d # c PROVE CallFits(d)' /\ Pending(d)'
      BY <1>1, <2>1, <2>7, <2>15, CallKept DEF SignersInv, CallFits
    <2> QED
      BY <2>8, <2>9, <2>10, <2>12, <2>13, <2>14, <2>15 DEF SignersInv
  <1>5. CASE ~(s # None /\ s.from <= call[c].time)
    <2>1. ASSUME NEW x \in asked, x.topic = Topic(c), x.address = a PROVE c \in raced
      <3>1. s # None
        BY <1>t, <2>1, AskedIsFound DEF SignersInv
      <3>2. s \in SessionType /\ s \in InStore
        BY <1>t, <3>1, GetFinds
      <3>3. s.from \in Nat
        BY <3>2 DEF SessionType
      <3> HIDE DEF s
      <3>4. s.from > call[c].time
        BY <1>1, <1>5, <3>1, <3>3
      <3> QED
        BY <1>1, <3>2, <3>4 DEF SignersInv, LateIsRaced
    <2>2. CASE Is("waits")
      <3> DEFINE state == [at |-> "signing", time |-> call[c].time, address |-> a]
      <3>1. Goes(c, state) /\ UNCHANGED <<store, raced, asked>>
        BY <1>5, <2>2 DEF GetAddress
      <3>2. state \in CallStates
        BY <1>1, <1>2 DEF CallStates
      <3>3. state.at = "signing" /\ state.time = call[c].time /\ state.address = a
        OBVIOUS
      <3>4. PICK b : b = a
        OBVIOUS
      <3> HIDE DEF state, s, a
      <3>5. call'[c] = state
        BY <1>t, <3>1 DEF Goes, TypeOK
      <3>6. CallFits(c)'
        BY <1>1, <1>2, <1>3, <2>2, <3>3, <3>5, SetupKept DEF CallFits, Holding
      <3>7. Pending(c)'
        BY <1>1, <2>1, <3>1, <3>3, <3>4, <3>5, SetupKept DEF Pending
      <3>8. actions' \in [Topics -> SUBSET [by : Calls, address : Addresses]]
        BY <1>t, <1>1 DEF TypeOK
      <3> QED
        BY <1>1, <3>1, <3>2, <3>3, <3>6, <3>7, <3>8, MoveKept
    <2>3. CASE ~Is("waits")
      <3>1. Stores(c, NewSession(c, a, own))
        BY <1>5, <2>3 DEF GetAddress
      <3>2. Is("binds") /\ ~Is("follows") /\ own \in Accounts
        BY <1>t, <2>3 DEF KindFits, Is, TypeOK
      <3>3. PICK b \in Addresses, by \in Accounts : b = a /\ by = own
        BY <1>2, <3>2
      <3> HIDE DEF a, s
      <3>4. b.account = by
        BY <1>2, <3>2, <3>3
      <3> QED
        BY <1>1, <2>1, <3>1, <3>2, <3>3, <3>4, NewFits
    <2> QED
      BY <2>2, <2>3
  <1> QED
    BY <1>4, <1>5

LEMMA CallFitsNew ==
  ASSUME SignersInv, NEW c \in Calls, Call(c)
  PROVE  SignersInv'
  <1> DEFINE state == [at |-> "called", time |-> started + 1]
  <1>t. TypeOK
    BY DEF SignersInv
  <1>1. /\ call[c].at = "idle" /\ started' = started + 1 /\ Goes(c, state)
        /\ seen' = [seen EXCEPT ![c] = {current}]
        /\ UNCHANGED <<setup, current, own, cache, stored, sessions, actions, raced, asked>>
    BY DEF Call, wallet, store, log
  <1>2. /\ call'[c] = state /\ \A d \in Calls \ {c} : call'[d] = call[d]
        /\ seen'[c] = {current} /\ \A d \in Calls \ {c} : seen'[d] = seen[d]
    BY <1>t, <1>1 DEF Goes, TypeOK
  <1>3. TypeOK'
    BY <1>t, <1>1 DEF TypeOK, Goes, CallStates
  <1>4. StoreFits' /\ InStore' = InStore
    BY <1>1 DEF SignersInv, StoreFits, InStore
  <1>5. LateIsRaced'
    <2>1. started \in Nat /\ \A x \in InStore : x.from \in Nat
      BY <1>t DEF TypeOK, SignersInv, StoreFits, InStore, SessionType
    <2>2. \A x \in InStore' : x.from <= started /\ x.from <= started'
      BY <1>1, <1>4, <2>1 DEF SignersInv, LateIsRaced
    <2>3. ASSUME NEW d \in Calls, UnderWay(d)'
          PROVE  /\ call'[d].time <= started'
                 /\ \A x \in InStore' : x.from > call'[d].time => d \in raced'
      <3>1. CASE d = c
        <4>1. call'[d].time = started + 1
          BY <1>2, <3>1
        <4> QED
          BY <1>1, <1>4, <2>1, <2>2, <4>1
      <3>2. CASE d # c
        <4>1. UnderWay(d) /\ call'[d] = call[d]
          BY <1>2, <2>3, <3>2 DEF UnderWay
        <4>2. call[d].time \in Nat
          BY <1>t, <4>1, CallState
        <4> QED
          BY <1>1, <1>4, <2>1, <4>1, <4>2 DEF SignersInv, LateIsRaced
      <3> QED
        BY <3>1, <3>2
    <2> QED
      BY <2>2, <2>3 DEF LateIsRaced
  <1>6. \A d \in Calls : call[d].at # "idle" =>
          call'[d].at # "idle" /\ seen[d] \subseteq seen'[d]
    BY <1>1, <1>2
  <1>7. AskedFits' /\ AskedOnce'
    <2>1. \A s \in asked' : <<s.topic, s.address>> \in
            IF setup.browser THEN DOMAIN stored' ELSE DOMAIN cache'
      BY <1>1 DEF SignersInv, AskedFits
    <2> QED
      BY <1>t, <1>1, <1>6, <2>1, AskedKept DEF SignersInv
  <1>8. ActionsFit'
    BY <1>t, <1>1, <1>6, ActionsKept DEF SignersInv
  <1>9. CallFits(c)' /\ Pending(c)'
    <2>1. call'[c].at = "called" /\ current \in seen'[c]
      BY <1>2
    <2> QED
      BY <1>1, <2>1 DEF CallFits, Pending, Holding
  <1>10. ASSUME NEW d \in Calls, d # c PROVE CallFits(d)' /\ Pending(d)'
    BY <1>1, <1>2, <1>10, CallKept DEF SignersInv, CallFits
  <1> QED
    BY <1>3, <1>4, <1>5, <1>7, <1>8, <1>9, <1>10 DEF SignersInv

LEMMA GetChainIdFits ==
  ASSUME SignersInv, NEW c \in Calls, GetChainId(c)
  PROVE  SignersInv'
  <1>t. TypeOK
    BY DEF SignersInv
  <1>1. PICK chain \in Chains :
          Goes(c, [at |-> "chained", time |-> call[c].time, chain |-> chain])
    BY <1>t DEF GetChainId, TypeOK, Chains
  <1> DEFINE state == [at |-> "chained", time |-> call[c].time, chain |-> chain]
  <1>2. /\ call[c].at = "called" /\ UnderWay(c) /\ call[c].time \in Nat
        /\ UNCHANGED <<setup, current, own, started, seen, raced, asked, store, actions>>
    BY <1>t, CallState DEF GetChainId, UnderWay, wallet, log, history
  <1>3. state \in CallStates
    BY <1>2 DEF CallStates
  <1>4. state.at = "chained" /\ state.time = call[c].time /\ Goes(c, state)
    BY <1>1
  <1> HIDE DEF state
  <1>5. call'[c] = state
    BY <1>t, <1>4 DEF Goes, TypeOK
  <1>6. CallFits(c)' /\ Pending(c)'
    BY <1>2, <1>4, <1>5 DEF SignersInv, CallFits, Pending, Holding
  <1>7. actions' \in [Topics -> SUBSET [by : Calls, address : Addresses]]
    BY <1>t, <1>2 DEF TypeOK
  <1> QED
    BY <1>2, <1>3, <1>4, <1>6, <1>7, MoveKept

LEMMA WalletSignsFits ==
  ASSUME SignersInv, NEW c \in Calls, WalletSigns(c)
  PROVE  SignersInv'
  <1> DEFINE by == IF Is("binds") THEN call[c].address.account ELSE current
             state == [at |-> "signed", time |-> call[c].time, address |-> call[c].address,
                       signedBy |-> by]
  <1>t. TypeOK /\ CallFits(c) /\ Pending(c)
    BY DEF SignersInv
  <1>1. /\ call[c].at = "signing" /\ UnderWay(c) /\ Goes(c, state)
        /\ UNCHANGED <<setup, current, own, started, seen, raced, asked, store, actions>>
    BY DEF WalletSigns, UnderWay, wallet, log, history
  <1>2. call[c].time \in Nat /\ call[c].address \in Addresses
    BY <1>t, <1>1, CallState
  <1>3. by \in Accounts
    BY <1>t, <1>2 DEF TypeOK, Addresses
  <1>4. state \in CallStates
    BY <1>2, <1>3 DEF CallStates
  <1>5. /\ state.at = "signed" /\ state.time = call[c].time
        /\ state.address = call[c].address /\ state.signedBy = by
    OBVIOUS
  <1>6. PICK b : b = by
    OBVIOUS
  <1> HIDE DEF state
  <1>7. call'[c] = state
    BY <1>t, <1>1 DEF Goes, TypeOK
  <1>8. CallFits(c)'
    BY <1>t, <1>1, <1>5, <1>7, SetupKept DEF CallFits, Holding
  <1>9. Pending(c)'
    BY <1>t, <1>1, <1>5, <1>7, SetupKept DEF Pending
  <1>10. actions' \in [Topics -> SUBSET [by : Calls, address : Addresses]]
    BY <1>t, <1>1 DEF TypeOK
  <1> QED
    BY <1>1, <1>4, <1>5, <1>8, <1>9, <1>10, MoveKept

LEMMA WalletRefusesFits ==
  ASSUME SignersInv, NEW c \in Calls, WalletRefuses(c)
  PROVE  SignersInv'
  <1> DEFINE state == [call[c] EXCEPT !.at = "refused"]
  <1>t. TypeOK
    BY DEF SignersInv
  <1>1. /\ call[c].at = "signing" /\ Goes(c, state)
        /\ UNCHANGED <<setup, current, own, started, seen, raced, asked, store, actions>>
    BY DEF WalletRefuses, Ends, Moves, Goes, wallet, log, history
  <1>2. state \in [at : {"signing", "refused"}, time : Nat, address : Addresses]
        /\ state.at = "refused"
    BY <1>t, <1>1, CallState
  <1> HIDE DEF state
  <1>3. state \in CallStates
    BY <1>2 DEF CallStates
  <1>4. call'[c] = state
    BY <1>t, <1>1 DEF Goes, TypeOK
  <1>5. CallFits(c)' /\ Pending(c)'
    BY <1>2, <1>4 DEF CallFits, Pending, Holding, UnderWay
  <1>6. actions' \in [Topics -> SUBSET [by : Calls, address : Addresses]]
    BY <1>t, <1>1 DEF TypeOK
  <1> QED
    BY <1>1, <1>2, <1>3, <1>5, <1>6, MoveKept

\* A call that has its session goes on with it.
LEMMA HoldingKept ==
  ASSUME SignersInv, NEW c \in Calls, call[c].at \in Holding,
         NEW at \in {"session", "action", "done", "failed"}, Moves(c, at),
         UNCHANGED <<setup, current, own, started, seen, raced, asked, store>>,
         actions' \in [Topics -> SUBSET [by : Calls, address : Addresses]],
         \A t \in Topics : \A x \in actions'[t] \ actions[t] :
           x.by = c /\ x.address = call[c].session.address
  PROVE  SignersInv'
  <1> DEFINE state == [call[c] EXCEPT !.at = at]
  <1>t. TypeOK /\ CallFits(c)
    BY DEF SignersInv
  <1>1. Goes(c, state)
    BY DEF Moves, Goes
  <1>2. /\ state \in [at : Holding \cup {"done", "failed"}, time : Nat, session : SessionType]
        /\ state.at = at /\ state.time = call[c].time /\ state.session = call[c].session
    BY <1>t, CallState DEF Holding
  <1> HIDE DEF state
  <1>3. state \in CallStates
    BY <1>2 DEF CallStates
  <1>4. UnderWay(c) /\ call[c].at # "idle"
    BY DEF UnderWay, Holding
  <1>5. call'[c] = state
    BY <1>t, <1>1 DEF Goes, TypeOK
  <1>6. Is("follows") => call[c].session.address.account \in seen[c]
    BY <1>t DEF CallFits
  <1>7. CallFits(c)' /\ Pending(c)'
    BY <1>t, <1>2, <1>4, <1>5, <1>6, SetupKept DEF CallFits, Pending, Holding
  <1>8. \A t \in Topics : \A x \in actions'[t] \ actions[t] :
          x.by = c /\ (Is("follows") => x.address.account \in seen[c])
    BY <1>6
  <1> QED
    BY <1>1, <1>2, <1>3, <1>4, <1>7, <1>8, MoveKept

LEMMA QuerySessionsFits ==
  ASSUME SignersInv, NEW c \in Calls, QuerySessions(c)
  PROVE  SignersInv'
  <1>1. /\ call[c].at \in Holding /\ TypeOK
        /\ UNCHANGED <<setup, current, own, started, seen, raced, asked, store, actions>>
    BY DEF QuerySessions, Holding, SignersInv, wallet, log, history
  <1>2. actions' \in [Topics -> SUBSET [by : Calls, address : Addresses]]
    BY <1>1 DEF TypeOK
  <1>3. Moves(c, "action") \/ Moves(c, "session")
    BY DEF QuerySessions
  <1> QED
    BY <1>1, <1>2, <1>3, HoldingKept

LEMMA AppendSessionFits ==
  ASSUME SignersInv, NEW c \in Calls, AppendSession(c)
  PROVE  SignersInv'
  <1>1. /\ call[c].at \in Holding /\ TypeOK
        /\ UNCHANGED <<setup, current, own, started, seen, raced, asked, store, actions>>
    BY DEF AppendSession, Holding, SignersInv, wallet, history
  <1>2. actions' \in [Topics -> SUBSET [by : Calls, address : Addresses]]
    BY <1>1 DEF TypeOK
  <1>3. Moves(c, "action") \/ Moves(c, "failed")
    BY DEF AppendSession, Ends
  <1> QED
    BY <1>1, <1>2, <1>3, HoldingKept

LEMMA AppendActionFits ==
  ASSUME SignersInv, NEW c \in Calls, AppendAction(c)
  PROVE  SignersInv'
  <1> DEFINE a == call[c].session.address
             new == [by |-> c, address |-> a]
  <1>1. /\ call[c].at \in Holding /\ TypeOK
        /\ UNCHANGED <<setup, current, own, started, seen, raced, asked, store>>
    BY DEF AppendAction, Holding, SignersInv, wallet, history
  <1>2. Moves(c, "done") \/ Moves(c, "failed")
    BY DEF AppendAction, Ends
  <1>3. \/ actions' = actions
        \/ actions' = [actions EXCEPT ![Topic(c)] = @ \cup {new}]
    BY DEF AppendAction
  <1>4. new \in [by : Calls, address : Addresses] /\ new.by = c /\ new.address = a
    BY <1>1, CallState DEF SessionType
  <1> HIDE DEF new
  <1>5. actions' \in [Topics -> SUBSET [by : Calls, address : Addresses]]
    BY <1>1, <1>3, <1>4 DEF TypeOK
  <1>6. \A t \in Topics : \A x \in actions'[t] \ actions[t] : x = new
    BY <1>1, <1>3 DEF TypeOK
  <1> QED
    BY <1>1, <1>2, <1>4, <1>5, <1>6, HoldingKept

LEMMA StoreSessionFits ==
  ASSUME SignersInv, NEW c \in Calls, StoreSession(c)
  PROVE  SignersInv'
  <1>t. TypeOK /\ CallFits(c) /\ Pending(c)
    BY DEF SignersInv
  <1>1. /\ call[c].at = "signed" /\ UnderWay(c)
        /\ UNCHANGED <<setup, current, own, started, seen, actions>>
    BY DEF StoreSession, UnderWay, wallet, log
  <1>2. PICK a \in Addresses, by \in Accounts : a = call[c].address /\ by = call[c].signedBy
    BY <1>t, <1>1, CallState
  <1>3. Stores(c, NewSession(c, a, by))
    BY <1>2 DEF StoreSession
  <1>4. /\ IF Is("binds") THEN by = a.account ELSE by \in seen[c]
        /\ Is("follows") => a.account \in seen[c]
        /\ \A x \in asked : x.topic = Topic(c) /\ x.address = a => c \in raced
    BY <1>t, <1>1, <1>2 DEF CallFits, Pending
  <1> QED
    BY <1>1, <1>3, <1>4, NewFits

-----------------------------------------------------------------------------
(* The user *)

LEMMA ChooseFits ==
  ASSUME SignersInv, NEW a \in Accounts, Choose(a)
  PROVE  SignersInv'
  <1>t. TypeOK
    BY DEF SignersInv
  <1>1. /\ current' = a
        /\ seen' = [c \in Calls |-> IF UnderWay(c) THEN seen[c] \cup {a} ELSE seen[c]]
        /\ UNCHANGED <<setup, own, call, started, cache, stored, actions, raced, asked>>
    BY DEF Choose, store, log
  <1>2. TypeOK'
    BY <1>t, <1>1 DEF TypeOK
  <1>3. StoreFits' /\ InStore' = InStore
    BY <1>1 DEF SignersInv, StoreFits, InStore
  <1>4. LateIsRaced'
    BY <1>1, <1>3 DEF SignersInv, LateIsRaced, UnderWay
  <1>5. \A d \in Calls : seen[d] \subseteq seen'[d] /\ (UnderWay(d) => a \in seen'[d])
    BY <1>1
  <1>6. AskedFits' /\ AskedOnce'
    <2>1. \A s \in asked' : <<s.topic, s.address>> \in
            IF setup.browser THEN DOMAIN stored' ELSE DOMAIN cache'
      BY <1>1 DEF SignersInv, AskedFits
    <2> QED
      BY <1>t, <1>1, <1>5, <2>1, AskedKept DEF SignersInv
  <1>7. ActionsFit'
    BY <1>t, <1>1, <1>5, ActionsKept DEF SignersInv
  <1>8. ASSUME NEW d \in Calls PROVE CallFits(d)' /\ Pending(d)'
    BY <1>1, <1>5, CallKept DEF SignersInv
  <1> QED
    BY <1>2, <1>3, <1>4, <1>6, <1>7, <1>8 DEF SignersInv

\* What is stored after some of it was taken away.
LEMMA LessStored ==
  ASSUME StoreFits, setup' = setup,
         DOMAIN cache' \subseteq DOMAIN cache, \A k \in DOMAIN cache' : cache'[k] = cache[k],
         DOMAIN stored' \subseteq DOMAIN stored, \A k \in DOMAIN stored' : stored'[k] = stored[k]
  PROVE  StoreFits' /\ InStore' \subseteq InStore
  BY DEF StoreFits, InStore

LEMMA ClearFits ==
  ASSUME SignersInv, NEW t \in Topics, Clear(t)
  PROVE  SignersInv'
  <1>t. TypeOK
    BY DEF SignersInv
  <1>1. /\ raced' = raced \cup {c \in Calls : UnderWay(c)}
        /\ asked' = {s \in asked : s.topic # t}
        /\ UNCHANGED <<setup, current, own, call, started, seen, actions>>
    BY DEF Clear, wallet, log
  <1>2. /\ DOMAIN cache' \subseteq DOMAIN cache /\ \A k \in DOMAIN cache' : cache'[k] = cache[k]
        /\ DOMAIN stored' \subseteq DOMAIN stored
        /\ \A k \in DOMAIN stored' : stored'[k] = stored[k]
    BY DEF Clear, BrowserClear, NodeClear, Without
  <1>3. ASSUME NEW u, NEW a, u # t
        PROVE  /\ setup.browser /\ <<u, a>> \in DOMAIN stored => <<u, a>> \in DOMAIN stored'
               /\ ~setup.browser /\ <<u, a>> \in DOMAIN cache => <<u, a>> \in DOMAIN cache'
    <2>1. <<u, a>>[1] # t
      BY <1>3
    <2> QED
      BY <2>1 DEF Clear, BrowserClear, NodeClear, Without
  <1>4. TypeOK'
    BY <1>t, <1>1 DEF TypeOK
  <1>5. StoreFits' /\ InStore' \subseteq InStore
    BY <1>1, <1>2, LessStored DEF SignersInv
  <1>6. LateIsRaced'
    BY <1>1, <1>5 DEF SignersInv, LateIsRaced, UnderWay
  <1>7. AskedFits' /\ AskedOnce'
    <2>1. \A s \in asked' : <<s.topic, s.address>> \in
            IF setup.browser THEN DOMAIN stored' ELSE DOMAIN cache'
      BY <1>t, <1>1, <1>3, SetupFacts DEF SignersInv, AskedFits
    <2> QED
      BY <1>t, <1>1, <2>1, AskedKept DEF SignersInv
  <1>8. ActionsFit'
    BY <1>t, <1>1, ActionsKept DEF SignersInv
  <1>9. ASSUME NEW d \in Calls PROVE CallFits(d)' /\ Pending(d)'
    <2>1. UnderWay(d) => current' \in seen'[d]
      BY <1>1 DEF SignersInv, CallFits
    <2>2. call[d].at \in {"signing", "signed"} => d \in raced'
      BY <1>1 DEF UnderWay
    <2> QED
      BY <1>1, <2>1, <2>2, CallKept DEF SignersInv
  <1> QED
    BY <1>4, <1>5, <1>6, <1>7, <1>8, <1>9 DEF SignersInv

LEMMA RestartFits ==
  ASSUME SignersInv, Restart
  PROVE  SignersInv'
  <1>t. TypeOK
    BY DEF SignersInv
  <1>1. /\ own' = current
        /\ call' = [c \in Calls |-> IF UnderWay(c) THEN [at |-> "lost"] ELSE call[c]]
        /\ asked' = IF setup.browser THEN asked ELSE {}
        /\ UNCHANGED <<setup, current, started, stored, actions, seen, raced>>
    BY DEF Restart, log
  <1>2. DOMAIN cache' = {}
    BY DEF Restart, Without
  <1>3. TypeOK'
    <2>1. [at |-> "lost"] \in CallStates
      BY DEF CallStates
    <2>2. call' \in [Calls -> CallStates]
      BY <1>t, <1>1, <2>1 DEF TypeOK
    <2> QED
      BY <1>t, <1>1, <2>2 DEF TypeOK
  <1>4. StoreFits' /\ InStore' \subseteq InStore
    BY <1>1, <1>2, LessStored DEF SignersInv
  <1>5. \A d \in Calls : ~UnderWay(d)'
    BY <1>1 DEF UnderWay
  <1>6. LateIsRaced'
    BY <1>1, <1>4, <1>5 DEF SignersInv, LateIsRaced
  <1>7. \A d \in Calls : call[d].at # "idle" =>
          call'[d].at # "idle" /\ seen[d] \subseteq seen'[d]
    BY <1>1
  <1>8. AskedFits' /\ AskedOnce'
    <2>1. \A s \in asked' : <<s.topic, s.address>> \in
            IF setup.browser THEN DOMAIN stored' ELSE DOMAIN cache'
      BY <1>1 DEF SignersInv, AskedFits
    <2> QED
      BY <1>t, <1>1, <1>7, <2>1, SetupFacts, AskedKept DEF SignersInv
  <1>9. ActionsFit'
    BY <1>t, <1>1, <1>7, ActionsKept DEF SignersInv
  <1>10. ASSUME NEW d \in Calls PROVE CallFits(d)' /\ Pending(d)'
    BY <1>5 DEF CallFits, Pending, UnderWay, Holding
  <1> QED
    BY <1>3, <1>4, <1>6, <1>8, <1>9, <1>10 DEF SignersInv

-----------------------------------------------------------------------------
(* The invariant, and what follows from it *)

LEMMA SignersInit == Init => SignersInv
  <1> SUFFICES ASSUME Init PROVE SignersInv
    OBVIOUS
  <1>1. TypeOK
    BY DEF Init, TypeOK, CallStates
  <1>2. StoreFits /\ InStore = {}
    BY DEF Init, StoreFits, InStore
  <1>3. \A c \in Calls : call[c].at = "idle"
    BY DEF Init
  <1>4. LateIsRaced /\ AskedFits /\ AskedOnce /\ ActionsFit
    BY <1>2, <1>3 DEF Init, LateIsRaced, UnderWay, AskedFits, AskedOnce, ActionsFit
  <1>5. \A c \in Calls : CallFits(c) /\ Pending(c)
    BY <1>3 DEF CallFits, Pending, UnderWay, Holding
  <1> QED
    BY <1>1, <1>2, <1>4, <1>5 DEF SignersInv

LEMMA SignersStep == SignersInv /\ [Next]_vars => SignersInv'
  <1> SUFFICES ASSUME SignersInv, [Next]_vars PROVE SignersInv'
    OBVIOUS
  <1>1. ASSUME NEW c \in Calls, Call(c) PROVE SignersInv'
    BY <1>1, CallFitsNew
  <1>2. ASSUME NEW c \in Calls, GetChainId(c) PROVE SignersInv'
    BY <1>2, GetChainIdFits
  <1>3. ASSUME NEW c \in Calls, GetAddress(c) PROVE SignersInv'
    BY <1>3, GetAddressFits
  <1>4. ASSUME NEW c \in Calls, WalletSigns(c) PROVE SignersInv'
    BY <1>4, WalletSignsFits
  <1>5. ASSUME NEW c \in Calls, WalletRefuses(c) PROVE SignersInv'
    BY <1>5, WalletRefusesFits
  <1>6. ASSUME NEW c \in Calls, StoreSession(c) PROVE SignersInv'
    BY <1>6, StoreSessionFits
  <1>7. ASSUME NEW c \in Calls, QuerySessions(c) PROVE SignersInv'
    BY <1>7, QuerySessionsFits
  <1>8. ASSUME NEW c \in Calls, AppendSession(c) PROVE SignersInv'
    BY <1>8, AppendSessionFits
  <1>9. ASSUME NEW c \in Calls, AppendAction(c) PROVE SignersInv'
    BY <1>9, AppendActionFits
  <1>10. ASSUME NEW a \in Accounts, Choose(a) PROVE SignersInv'
    BY <1>10, ChooseFits
  <1>11. ASSUME NEW t \in Topics, Clear(t) PROVE SignersInv'
    BY <1>11, ClearFits
  <1>12. CASE Restart
    BY <1>12, RestartFits
  <1>13. CASE UNCHANGED vars
    <2>1. UNCHANGED <<setup, current, own, call, started, cache, stored, actions, seen, raced, asked>>
      BY <1>13 DEF vars, wallet, store, log, history
    <2>2. TypeOK' /\ StoreFits' /\ InStore' = InStore
      BY <2>1 DEF SignersInv, TypeOK, StoreFits, InStore
    <2>3. LateIsRaced' /\ ActionsFit' /\ AskedOnce'
      BY <2>1, <2>2, SetupKept DEF SignersInv, LateIsRaced, UnderWay, ActionsFit, AskedOnce
    <2>4. AskedFits'
      BY <2>1, SetupKept DEF SignersInv, AskedFits
    <2>5. ASSUME NEW d \in Calls PROVE CallFits(d)' /\ Pending(d)'
      BY <2>1, CallKept DEF SignersInv, CallFits
    <2> QED
      BY <2>2, <2>3, <2>4, <2>5 DEF SignersInv
  <1> QED
    BY <1>1, <1>2, <1>3, <1>4, <1>5, <1>6, <1>7, <1>8, <1>9, <1>10, <1>11, <1>12, <1>13 DEF Next

LEMMA SignersHold == Spec => []SignersInv
  BY SignersInit, SignersStep, PTL DEF Spec

\* The variables have their types, whichever signer is used and however its user
\* chooses accounts.
THEOREM SignersTypes == Spec => []TypeOK
  <1>1. SignersInv => TypeOK
    BY DEF SignersInv
  <1> QED
    BY <1>1, SignersHold, PTL

\* verifySession accepts what getSession made, for its topic, unless the account of
\* the wallet changed during the call, or had changed since a SolanaSigner was
\* constructed; and accepts it always, with a signer that names the account to the
\* wallet.
THEOREM AlwaysAuthorized == Spec => []Authorized
  <1>1. SignersInv => Authorized
    <2> SUFFICES ASSUME SignersInv PROVE Authorized
      OBVIOUS
    <2>1. KindFits(setup.kind)
      BY SetupFacts DEF SignersInv
    <2>2. /\ Is("binds") <=> setup.kind.name \in BindingSigners
          /\ Is("binds") \/ Is("follows") \/ setup.kind.name = "SolanaSigner"
      BY <2>1 DEF KindFits, Is
    <2>3. ASSUME NEW s \in asked, ~Verifies(s.topic, s)
          PROVE  ~Is("binds") /\ (Disturbed(s.by) \/ Outdated(s))
      <3>1. ~Is("binds") /\ \E x \in seen[s.by] : x # s.address.account
        BY <2>3 DEF SignersInv, AskedFits
      <3>2. Is("follows") => s.address.account \in seen[s.by]
        BY <2>3 DEF SignersInv, AskedFits
      <3> QED
        BY <2>2, <3>1, <3>2 DEF Disturbed, Outdated
    <2> QED
      BY <2>2, <2>3 DEF Authorized
  <1> QED
    BY <1>1, SignersHold, PTL

\* An action of a signer that follows the wallet is of an account that was chosen
\* during its call, and the wallet signs no second session of a topic and an
\* address unless calls overlap, or the user logs out.
THEOREM UserAlwaysHeeded == Spec => []UserHeeded
  <1>1. SignersInv => UserHeeded
    BY DEF SignersInv, ActionsFit, UserHeeded, ActsAsChosen
  <1> QED
    BY <1>1, SignersHold, PTL

-----------------------------------------------------------------------------
(* The signer of AT Protocol                                               *)

OperationTypes == Registered \cup {"plc_operation", "plc_tombstone"}

\* All operations but the first are updates, or the tombstone.
LogFits ==
  /\ operations \in Seq([type : OperationTypes, key : Nat \ {0}]) /\ operations # <<>>
  /\ \A i \in 2..Len(operations) : operations[i].type \in {"plc_operation", "plc_tombstone"}

\* The agent has its session, unless one could not be resumed after a restart.
LoginFits ==
  /\ session \in BOOLEAN /\ jwt \in BOOLEAN /\ agent \in BOOLEAN /\ restarts \in Nat
  /\ jwt => session \/ restarts > 0
  /\ session => agent \/ (jwt /\ restarts > 0)

\* Some log of the DID, now or before, did not verify.
BadLog == \E n \in DOMAIN operations : ~Bluesky!LogVerifies(SubSeq(operations, 1, n))

Passes(s) == Bluesky!Verifies(s) \/ s.by \in changed

\* What a call holds is of the log that there is, and what it finds is what is kept.
Holds(c) ==
  /\ "at" \in DOMAIN post[c]
  /\ post[c].at \in {"posting", "proving"} =>
       /\ "log" \in DOMAIN post[c] /\ Bluesky!LogVerifies(post[c].log)
       /\ c \in changed \/ post[c].log = operations
  /\ post[c].at = "deleting" =>
       \/ c \in changed
       \/ /\ Bluesky!LogVerifies(post[c].log)
          /\ post[c].signedBy = Bluesky!VerificationMethod(post[c].log)
  /\ post[c].at = "found" =>
       /\ "session" \in DOMAIN post[c] /\ Passes(post[c].session)
       /\ c \in overtaken \/ Bluesky!Get = post[c].session

\* Where it is, whether it has a post, and why it has failed.
Stands(c) ==
  /\ post[c].at \notin {"idle", "loggingIn", "done", "failed", "lost"} => session
  /\ post[c].at = "resuming" => jwt /\ restarts > 0
  /\ c \in posts => post[c].at \in {"proving", "deleting", "lost"} \/ c \in failed
  /\ post[c].at = "failed" =>
       \/ c \in failed \cup changed \cup overtaken \/ ~platform.login \/ BadLog
       \/ "session" \in DOMAIN post[c] /\ post[c].session.by \in changed
       \/ jwt /\ restarts > 0

SignerInv ==
  /\ DOMAIN post = BlueskyCalls /\ posts \subseteq BlueskyCalls
  /\ LogFits /\ LoginFits
  /\ \A s \in {kept, saved} \ {Bluesky!None} : Passes(s)
  /\ \A c \in BlueskyCalls : Holds(c) /\ Stands(c)

-----------------------------------------------------------------------------

\* The key of a log that verifies is that of the last operation.
LEMMA VerifiedKey ==
  ASSUME LogFits, Bluesky!LogVerifies(operations)
  PROVE  Bluesky!VerificationMethod(operations) = Bluesky!Key
  <1> DEFINE n == Len(operations)
             U == Bluesky!Updates(operations)
  <1>1. n \in Nat /\ n > 0 /\ DOMAIN operations = 1..n
    BY DEF LogFits
  <1>2. U # {} /\ U \subseteq 1..n
    BY <1>1 DEF Bluesky!LogVerifies, Bluesky!VerificationMethod, Bluesky!Updates
  <1>3. n \in U
    <2>1. CASE n = 1
      BY <1>1, <1>2, <2>1
    <2>2. CASE n > 1
      <3>1. operations[n].type \in {"plc_operation", "plc_tombstone"}
        BY <1>1, <2>2 DEF LogFits
      <3>2. operations[n].type # "plc_tombstone"
        BY <1>1 DEF Bluesky!LogVerifies, Bluesky!Tombstoned
      <3> QED
        BY <1>1, <3>1, <3>2 DEF Bluesky!Updates
    <2> QED
      BY <1>1, <2>1, <2>2
  <1>4. (CHOOSE i \in U : \A j \in U : j <= i) = n
    <2>1. \A j \in U : j <= n
      BY <1>1, <1>2
    <2>2. \A i \in U : (\A j \in U : j <= i) => i = n
      BY <1>1, <1>2, <1>3
    <2> HIDE DEF n, U
    <2> QED
      BY <1>3, <2>1, <2>2
  <1> QED
    BY <1>2, <1>4 DEF Bluesky!VerificationMethod, Bluesky!Key

LEMMA SignerInit == Bluesky!Init => SignerInv
  <1> SUFFICES ASSUME Bluesky!Init PROVE SignerInv
    OBVIOUS
  <1>1. PICK type \in Registered : operations = <<[type |-> type, key |-> 1]>>
    BY DEF Bluesky!Init
  <1>2. LogFits
    BY <1>1 DEF LogFits, OperationTypes
  <1>3. \A c \in BlueskyCalls : Holds(c) /\ Stands(c)
    BY DEF Bluesky!Init, Holds, Stands
  <1> QED
    BY <1>2, <1>3 DEF Bluesky!Init, SignerInv, LoginFits

-----------------------------------------------------------------------------
(* Steps *)

\* What grows, and what is not undone.
Onward ==
  /\ platform' = platform /\ failed \subseteq failed' /\ changed \subseteq changed'
  /\ overtaken \subseteq overtaken' /\ (jwt => jwt') /\ (restarts > 0 => restarts' > 0)
  /\ BadLog => BadLog'

\* A call that does not move.
LEMMA StandsStill ==
  ASSUME NEW c \in BlueskyCalls, Holds(c), Stands(c), Onward, post'[c] = post[c],
         Bluesky!UnderWay(c) =>
           /\ session => session'
           /\ operations' = operations \/ c \in changed'
           /\ Bluesky!Get' = Bluesky!Get \/ c \in overtaken',
         c \in posts' => c \in posts
  PROVE  Holds(c)' /\ Stands(c)'
  <1>1. Holds(c)'
    BY DEF Holds, Onward, Passes, Bluesky!UnderWay
  <1>2. Stands(c)'
    BY DEF Stands, Onward, Bluesky!UnderWay
  <1> QED
    BY <1>1, <1>2

\* One call moves: what it keeps of the rest.
LEMMA OneMoves ==
  ASSUME SignerInv, NEW c \in BlueskyCalls, Onward, DOMAIN post' = BlueskyCalls,
         \A d \in BlueskyCalls : d # c => post'[d] = post[d],
         operations' = operations, session => session',
         \A d \in BlueskyCalls : d # c /\ Bluesky!UnderWay(d) => Bluesky!Get' = Bluesky!Get \/ d \in overtaken',
         posts' \subseteq posts \cup {c}, LoginFits',
         \A s \in {kept', saved'} \ {Bluesky!None} : s \in {kept, saved} \/ Passes(s)',
         Holds(c)', Stands(c)'
  PROVE  SignerInv'
  <1>1. ASSUME NEW d \in BlueskyCalls, d # c PROVE Holds(d)' /\ Stands(d)'
    BY <1>1, StandsStill DEF SignerInv
  <1>2. \A s \in {kept', saved'} \ {Bluesky!None} : Passes(s)'
    BY DEF SignerInv, Onward, Passes
  <1>3. LogFits'
    BY DEF SignerInv, LogFits
  <1> QED
    BY <1>1, <1>2, <1>3 DEF SignerInv

\* How a call moves.
LEMMA Moved ==
  ASSUME SignerInv, NEW c \in BlueskyCalls, NEW at, Bluesky!Moves(c, at)
  PROVE  /\ DOMAIN post' = BlueskyCalls /\ \A d \in BlueskyCalls : d # c => post'[d] = post[d]
         /\ post'[c].at = at /\ DOMAIN post'[c] = DOMAIN post[c]
         /\ "log" \in DOMAIN post[c] => post'[c].log = post[c].log
         /\ "session" \in DOMAIN post[c] => post'[c].session = post[c].session
  BY DEF SignerInv, Holds, Bluesky!Moves

LEMMA Gone ==
  ASSUME SignerInv, NEW c \in BlueskyCalls, NEW state, Bluesky!Goes(c, state)
  PROVE  /\ DOMAIN post' = BlueskyCalls /\ \A d \in BlueskyCalls : d # c => post'[d] = post[d]
         /\ post'[c] = state
  BY DEF SignerInv, Bluesky!Goes

\* The call fails, with a request of it or for a reason that is one.
LEMMA FailKeeps ==
  ASSUME SignerInv, NEW c \in BlueskyCalls, Bluesky!Moves(c, "failed"), Onward,
         c \in posts => c \in failed',
         operations' = operations, session' = session, jwt' = jwt, restarts' = restarts,
         agent' = agent \/ (agent' = FALSE /\ jwt /\ restarts > 0),
         kept' = kept, saved' = saved, posts' = posts, changed' = changed,
         \/ c \in failed' \cup changed \cup overtaken \/ ~platform.login \/ BadLog
         \/ "session" \in DOMAIN post[c] /\ post[c].session.by \in changed
         \/ jwt /\ restarts > 0
  PROVE  SignerInv'
  <1>1. post'[c].at = "failed" /\ "at" \in DOMAIN post'[c]
    BY Moved DEF SignerInv, Holds
  <1>2. Holds(c)'
    BY <1>1 DEF Holds
  <1>3. Stands(c)'
    BY <1>1, Moved DEF Stands, Onward
  <1>4. LoginFits'
    BY DEF SignerInv, LoginFits
  <1>5. Bluesky!Get' = Bluesky!Get
    BY DEF Onward, Bluesky!Get
  <1> QED
    BY <1>2, <1>3, <1>4, <1>5, Moved, OneMoves

\* The call goes on, and holds nothing yet.
LEMMA GoOnKeeps ==
  ASSUME SignerInv, NEW c \in BlueskyCalls, NEW at, Bluesky!Moves(c, at), Onward,
         at \notin {"posting", "proving", "deleting", "found", "failed"},
         at \notin {"idle", "loggingIn", "done", "lost"} => session',
         at = "resuming" => jwt' /\ restarts' > 0,
         c \in posts => c \in failed,
         operations' = operations, session => session', LoginFits',
         kept' \in {kept, Bluesky!Get}, saved' = saved, posts' = posts
  PROVE  SignerInv'
  <1>1. post'[c].at = at /\ "at" \in DOMAIN post'[c]
    BY Moved DEF SignerInv, Holds
  <1>2. Holds(c)'
    BY <1>1 DEF Holds
  <1>3. Stands(c)'
    BY <1>1 DEF Stands, Onward
  <1>4. Bluesky!Get' = Bluesky!Get
    BY DEF Onward, Bluesky!Get
  <1>5. Bluesky!Get \in {kept, saved}
    BY DEF Bluesky!Get
  <1> QED
    BY <1>2, <1>3, <1>4, <1>5, Moved, OneMoves

LEMMA NotPosted ==
  ASSUME SignerInv, NEW c \in BlueskyCalls, post[c].at \notin {"proving", "deleting", "lost"}, c \in posts
  PROVE  c \in failed
  BY DEF SignerInv, Stands

LEMMA CallKeeps == ASSUME SignerInv, NEW c \in BlueskyCalls, Bluesky!Call(c) PROVE SignerInv'
  <1>1. /\ post[c].at = "idle" /\ platform' = platform /\ operations' = operations /\ kept' = kept
        /\ saved' = saved /\ posts' = posts /\ restarts' = restarts /\ failed' = failed
        /\ changed' = changed /\ overtaken' = overtaken /\ jwt' = jwt
    BY DEF Bluesky!Call, Bluesky!store, Bluesky!login
  <1>2. c \in posts => c \in failed
    BY <1>1, NotPosted
  <1>3. Onward
    BY <1>1 DEF Onward, BadLog
  <1>4. session \in BOOLEAN /\ jwt \in BOOLEAN /\ LoginFits
    BY DEF SignerInv, LoginFits
  <1>5. CASE session
    <2>1. Bluesky!Moves(c, "located") /\ session' = session /\ agent' = agent
      BY <1>5 DEF Bluesky!Call, Bluesky!login
    <2>2. LoginFits'
      BY <1>1, <1>4, <2>1 DEF LoginFits
    <2> QED
      BY <1>1, <1>2, <1>3, <1>5, <2>1, <2>2, GoOnKeeps
  <1>6. CASE ~session /\ jwt
    <2>1. Bluesky!Moves(c, "resuming") /\ session' = TRUE /\ agent' = TRUE
      BY <1>6 DEF Bluesky!Call
    <2>2. LoginFits' /\ restarts > 0
      BY <1>1, <1>4, <1>6, <2>1 DEF LoginFits
    <2> QED
      BY <1>1, <1>2, <1>3, <1>6, <2>1, <2>2, GoOnKeeps
  <1>7. CASE ~session /\ ~jwt /\ platform.login
    <2>1. Bluesky!Moves(c, "loggingIn") /\ session' = session /\ agent' = agent
      BY <1>7 DEF Bluesky!Call, Bluesky!login
    <2>2. LoginFits'
      BY <1>1, <1>4, <2>1 DEF LoginFits
    <2> QED
      BY <1>1, <1>2, <1>3, <2>1, <2>2, GoOnKeeps
  <1>8. CASE ~session /\ ~jwt /\ ~platform.login
    <2>1. Bluesky!Moves(c, "failed") /\ session' = session /\ agent' = agent
      BY <1>8 DEF Bluesky!Call, Bluesky!login
    <2> QED
      BY <1>1, <1>2, <1>3, <1>8, <2>1, FailKeeps
  <1> QED
    BY <1>5, <1>6, <1>7, <1>8

\* A request of the call fails, before it has a post or while it has one.
LEMMA RequestFailsKeeps ==
  ASSUME SignerInv, NEW c \in BlueskyCalls, Bluesky!RequestFails(c),
         platform' = platform, operations' = operations, kept' = kept, saved' = saved,
         posts' = posts, restarts' = restarts, changed' = changed, overtaken' = overtaken,
         session' = session, jwt' = jwt,
         agent' = agent \/ (agent' = FALSE /\ jwt /\ restarts > 0)
  PROVE  SignerInv'
  <1>1. Bluesky!Moves(c, "failed") /\ failed' = failed \cup {c}
    BY DEF Bluesky!RequestFails
  <1>2. Onward
    BY <1>1 DEF Onward, BadLog
  <1> QED
    BY <1>1, <1>2, FailKeeps

LEMMA ResumeKeeps ==
  ASSUME SignerInv, NEW c \in BlueskyCalls, Bluesky!Resume(c) \/ Bluesky!Login(c)
  PROVE  SignerInv'
  <1>1. /\ post[c].at \in {"resuming", "loggingIn"} /\ platform' = platform
        /\ operations' = operations /\ kept' = kept /\ saved' = saved /\ posts' = posts
        /\ restarts' = restarts /\ changed' = changed /\ overtaken' = overtaken
    BY DEF Bluesky!Resume, Bluesky!Login, Bluesky!store
  <1>2. c \in posts => c \in failed
    BY <1>1, NotPosted
  <1>3. LoginFits
    BY DEF SignerInv
  <1>4. CASE Bluesky!Resume(c)
    <2>1. /\ post[c].at = "resuming" /\ session' = session /\ jwt' = jwt
          /\ \/ Bluesky!Moves(c, "located") /\ agent' = agent /\ failed' = failed
             \/ Bluesky!RequestFails(c) /\ agent' = FALSE
      BY <1>4 DEF Bluesky!Resume, Bluesky!AgentResumeFails
    <2>2. session /\ jwt /\ restarts > 0
      BY <2>1 DEF SignerInv, Stands
    <2>3. CASE Bluesky!RequestFails(c) /\ agent' = FALSE
      BY <1>1, <2>1, <2>2, <2>3, RequestFailsKeeps
    <2>4. CASE Bluesky!Moves(c, "located") /\ agent' = agent /\ failed' = failed
      <3>1. Onward /\ LoginFits'
        BY <1>1, <1>3, <2>1, <2>4 DEF Onward, BadLog, LoginFits
      <3> QED
        BY <1>1, <1>2, <2>1, <2>2, <2>4, <3>1, GoOnKeeps
    <2> QED
      BY <2>1, <2>3, <2>4
  <1>5. CASE Bluesky!Login(c)
    <2>1. CASE Bluesky!RequestFails(c) /\ session' = session /\ jwt' = jwt /\ agent' = agent
      BY <1>1, <2>1, RequestFailsKeeps
    <2>2. CASE /\ Bluesky!Moves(c, "located") /\ failed' = failed
               /\ session' = TRUE /\ agent' = TRUE /\ jwt' = (jwt \/ Bluesky!SavesJWTSession)
      <3>1. jwt' \in BOOLEAN /\ (jwt => jwt')
        BY <2>2
      <3>2. Onward
        BY <1>1, <2>2, <3>1 DEF Onward, BadLog
      <3>3. LoginFits'
        BY <1>1, <1>3, <2>2, <3>1 DEF LoginFits
      <3> QED
        BY <1>1, <1>2, <2>2, <3>2, <3>3, GoOnKeeps
    <2> QED
      BY <1>5, <2>1, <2>2 DEF Bluesky!Login, Bluesky!login
  <1> QED
    BY <1>4, <1>5

LEMMA LookUpKeeps == ASSUME SignerInv, NEW c \in BlueskyCalls, Bluesky!LookUp(c) PROVE SignerInv'
  <1>1. /\ post[c].at = "located" /\ platform' = platform /\ operations' = operations
        /\ session' = session /\ jwt' = jwt /\ agent' = agent /\ saved' = saved /\ posts' = posts
        /\ restarts' = restarts /\ failed' = failed /\ changed' = changed /\ overtaken' = overtaken
        /\ kept' = Bluesky!Get
    BY DEF Bluesky!LookUp, Bluesky!login
  <1>2. (c \in posts => c \in failed) /\ session
    BY <1>1, NotPosted DEF SignerInv, Stands
  <1>3. Onward /\ LoginFits'
    BY <1>1 DEF Onward, BadLog, SignerInv, LoginFits
  <1>4. CASE Bluesky!Get = Bluesky!None
    <2>1. Bluesky!Moves(c, "fetching")
      BY <1>4 DEF Bluesky!LookUp
    <2> QED
      BY <1>1, <1>2, <1>3, <2>1, GoOnKeeps
  <1>5. CASE Bluesky!Get # Bluesky!None
    <2>1. Bluesky!Goes(c, [at |-> "found", session |-> Bluesky!Get])
      BY <1>5 DEF Bluesky!LookUp
    <2>2. Bluesky!Get \in {kept, saved} /\ Bluesky!Get' = Bluesky!Get
      BY <1>1 DEF Bluesky!Get
    <2>3. post'[c] = [at |-> "found", session |-> Bluesky!Get]
      BY <2>1, Gone
    <2>4. Passes(Bluesky!Get)
      BY <1>5, <2>2 DEF SignerInv
    <2>5. Holds(c)'
      BY <1>1, <2>2, <2>3, <2>4 DEF Holds, Passes
    <2>6. Stands(c)'
      BY <1>1, <1>2, <2>3 DEF Stands
    <2> QED
      BY <1>1, <1>3, <2>1, <2>2, <2>5, <2>6, Gone, OneMoves
  <1> QED
    BY <1>4, <1>5

\* The log as it is now is one that it was.
LEMMA NowBad ==
  ASSUME LogFits, ~Bluesky!LogVerifies(operations)
  PROVE  BadLog
  <1> DEFINE n == Len(operations)
  <1>1. n \in DOMAIN operations /\ SubSeq(operations, 1, n) = operations
    BY DEF LogFits
  <1> QED
    BY <1>1 DEF BadLog

LEMMA FetchLogKeeps == ASSUME SignerInv, NEW c \in BlueskyCalls, Bluesky!FetchLog(c) PROVE SignerInv'
  <1>1. /\ post[c].at = "fetching" /\ platform' = platform /\ operations' = operations
        /\ session' = session /\ jwt' = jwt /\ agent' = agent /\ kept' = kept /\ saved' = saved
        /\ posts' = posts /\ restarts' = restarts /\ changed' = changed /\ overtaken' = overtaken
    BY DEF Bluesky!FetchLog, Bluesky!login, Bluesky!store
  <1>2. (c \in posts => c \in failed) /\ session
    BY <1>1, NotPosted DEF SignerInv, Stands
  <1>3. CASE Bluesky!RequestFails(c)
    BY <1>1, <1>3, RequestFailsKeeps
  <1>4. CASE ~Bluesky!RequestFails(c)
    <2>1. /\ failed' = failed
          /\ IF Bluesky!LogVerifies(operations)
               THEN Bluesky!Goes(c, [at |-> "posting", log |-> operations])
               ELSE Bluesky!Moves(c, "failed")
      BY <1>4 DEF Bluesky!FetchLog
    <2>2. Onward /\ LoginFits'
      BY <1>1, <2>1 DEF Onward, BadLog, SignerInv, LoginFits
    <2>3. CASE ~Bluesky!LogVerifies(operations)
      BY <1>1, <1>2, <2>1, <2>2, <2>3, NowBad, FailKeeps DEF SignerInv
    <2>4. CASE Bluesky!LogVerifies(operations)
      <3>1. post'[c] = [at |-> "posting", log |-> operations]
        BY <2>1, <2>4, Gone
      <3>2. Holds(c)'
        BY <1>1, <2>4, <3>1 DEF Holds
      <3>3. Stands(c)'
        BY <1>1, <1>2, <2>1, <3>1 DEF Stands
      <3>4. Bluesky!Get' = Bluesky!Get
        BY <1>1 DEF Bluesky!Get
      <3> QED
        BY <1>1, <2>1, <2>2, <2>4, <3>2, <3>3, <3>4, Gone, OneMoves
    <2> QED
      BY <2>3, <2>4
  <1> QED
    BY <1>3, <1>4

LEMMA PostKeeps == ASSUME SignerInv, NEW c \in BlueskyCalls, Bluesky!Post(c) PROVE SignerInv'
  <1>1. /\ post[c].at = "posting" /\ platform' = platform /\ operations' = operations
        /\ session' = session /\ jwt' = jwt /\ agent' = agent /\ kept' = kept /\ saved' = saved
        /\ restarts' = restarts /\ changed' = changed /\ overtaken' = overtaken
    BY DEF Bluesky!Post, Bluesky!login, Bluesky!store
  <1>2. (c \in posts => c \in failed) /\ session
    BY <1>1, NotPosted DEF SignerInv, Stands
  <1>3. CASE Bluesky!RequestFails(c) /\ posts' = posts
    BY <1>1, <1>3, RequestFailsKeeps
  <1>4. CASE ~agent /\ Bluesky!Moves(c, "failed") /\ posts' = posts /\ failed' = failed
    <2>1. Onward
      BY <1>1, <1>4 DEF Onward, BadLog
    <2>2. jwt /\ restarts > 0
      BY <1>2, <1>4 DEF SignerInv, LoginFits
    <2> QED
      BY <1>1, <1>2, <1>4, <2>1, <2>2, FailKeeps
  <1>5. CASE Bluesky!Moves(c, "proving") /\ posts' = posts \cup {c} /\ failed' = failed
    <2>1. Onward /\ LoginFits'
      BY <1>1, <1>5 DEF Onward, BadLog, SignerInv, LoginFits
    <2>2. /\ "at" \in DOMAIN post[c] /\ "log" \in DOMAIN post[c] /\ Bluesky!LogVerifies(post[c].log)
          /\ c \in changed \/ post[c].log = operations
      BY <1>1 DEF SignerInv, Holds
    <2>3. post'[c].at = "proving" /\ DOMAIN post'[c] = DOMAIN post[c] /\ post'[c].log = post[c].log
      BY <1>5, <2>2, Moved
    <2>4. Holds(c)'
      BY <1>1, <2>2, <2>3 DEF Holds
    <2>5. Stands(c)'
      BY <1>1, <1>2, <2>3 DEF Stands
    <2>6. Bluesky!Get' = Bluesky!Get
      BY <1>1 DEF Bluesky!Get
    <2> QED
      BY <1>1, <1>5, <2>1, <2>4, <2>5, <2>6, Moved, OneMoves
  <1> QED
    BY <1>3, <1>4, <1>5 DEF Bluesky!Post

\* The commit of the proof is signed by the key of that time.
LEMMA GetRecordKeeps == ASSUME SignerInv, NEW c \in BlueskyCalls, Bluesky!GetRecord(c) PROVE SignerInv'
  <1>1. /\ post[c].at = "proving" /\ platform' = platform /\ operations' = operations
        /\ session' = session /\ jwt' = jwt /\ agent' = agent /\ kept' = kept /\ saved' = saved
        /\ posts' = posts /\ restarts' = restarts /\ changed' = changed /\ overtaken' = overtaken
    BY DEF Bluesky!GetRecord, Bluesky!login, Bluesky!store
  <1>2. session
    BY <1>1 DEF SignerInv, Stands
  <1>3. CASE Bluesky!RequestFails(c)
    BY <1>1, <1>3, RequestFailsKeeps
  <1>4. CASE /\ failed' = failed
             /\ Bluesky!Goes(c, [at |-> "deleting", log |-> post[c].log, signedBy |-> Bluesky!Key])
    <2>1. Onward /\ LoginFits'
      BY <1>1, <1>4 DEF Onward, BadLog, SignerInv, LoginFits
    <2>2. post'[c] = [at |-> "deleting", log |-> post[c].log, signedBy |-> Bluesky!Key]
      BY <1>4, Gone
    <2>3. c \in changed \/ (post[c].log = operations /\ Bluesky!LogVerifies(operations))
      BY <1>1 DEF SignerInv, Holds
    <2>4. c \in changed \/ Bluesky!VerificationMethod(operations) = Bluesky!Key
      BY <2>3, VerifiedKey DEF SignerInv
    <2>5. Holds(c)'
      BY <1>1, <2>2, <2>3, <2>4 DEF Holds
    <2>6. Stands(c)'
      BY <1>1, <1>2, <2>2 DEF Stands
    <2>7. Bluesky!Get' = Bluesky!Get
      BY <1>1 DEF Bluesky!Get
    <2> QED
      BY <1>1, <1>4, <2>1, <2>5, <2>6, <2>7, Gone, OneMoves
  <1> QED
    BY <1>3, <1>4 DEF Bluesky!GetRecord

\* A call stores its session, and goes past those of the others.
LEMMA DeletePostKeeps == ASSUME SignerInv, NEW c \in BlueskyCalls, Bluesky!DeletePost(c) PROVE SignerInv'
  <1>1. /\ post[c].at = "deleting" /\ platform' = platform /\ operations' = operations
        /\ session' = session /\ jwt' = jwt /\ agent' = agent
        /\ restarts' = restarts /\ changed' = changed
    BY DEF Bluesky!DeletePost, Bluesky!login
  <1>2. session
    BY <1>1 DEF SignerInv, Stands
  <1>3. CASE Bluesky!RequestFails(c) /\ kept' = kept /\ saved' = saved /\ posts' = posts /\ overtaken' = overtaken
    BY <1>1, <1>3, RequestFailsKeeps
  <1>4. CASE posts' = posts \ {c} /\ Bluesky!Stores(c, Bluesky!NewSession(c)) /\ failed' = failed
    <2> DEFINE s == Bluesky!NewSession(c)
    <2>1. /\ kept' = s /\ saved' = (IF platform.browser THEN s ELSE saved)
          /\ Bluesky!Goes(c, [at |-> "found", session |-> s])
          /\ overtaken' = overtaken \cup {d \in BlueskyCalls \ {c} : Bluesky!UnderWay(d)}
      BY <1>4 DEF Bluesky!Stores
    <2>2. /\ s.by = c /\ s.log = post[c].log /\ s.signedBy = post[c].signedBy
          /\ s.method = Bluesky!VerificationMethod(post[c].log)
      BY DEF Bluesky!NewSession
    <2>3. Passes(s)
      BY <1>1, <2>2 DEF SignerInv, Holds, Passes, Bluesky!Verifies
    <2> HIDE DEF s
    <2>4. Onward /\ LoginFits'
      BY <1>1, <1>4, <2>1 DEF Onward, BadLog, SignerInv, LoginFits
    <2>5. Bluesky!Get' = s
      BY <1>1, <2>1, <2>4 DEF Bluesky!Get, Onward
    <2>6. post'[c] = [at |-> "found", session |-> s]
      BY <2>1, Gone
    <2>7. Holds(c)'
      BY <1>1, <2>3, <2>5, <2>6 DEF Holds, Passes
    <2>8. Stands(c)'
      BY <1>1, <1>2, <1>4, <2>6 DEF Stands
    <2>9. \A d \in BlueskyCalls : d # c /\ Bluesky!UnderWay(d) => d \in overtaken'
      BY <2>1
    <2>10. \A t \in {kept', saved'} \ {Bluesky!None} : t \in {kept, saved} \/ Passes(t)'
      BY <1>1, <2>1, <2>3 DEF Passes
    <2> QED
      BY <1>1, <1>4, <2>1, <2>4, <2>7, <2>8, <2>9, <2>10, Gone, OneMoves
  <1> QED
    BY <1>3, <1>4 DEF Bluesky!DeletePost, Bluesky!store

LEMMA AppendSessionKeeps ==
  ASSUME SignerInv, NEW c \in BlueskyCalls, Bluesky!AppendSession(c) PROVE SignerInv'
  <1>1. /\ post[c].at = "found" /\ platform' = platform /\ operations' = operations
        /\ session' = session /\ jwt' = jwt /\ agent' = agent /\ kept' = kept /\ saved' = saved
        /\ posts' = posts /\ restarts' = restarts /\ failed' = failed /\ changed' = changed
        /\ overtaken' = overtaken
    BY DEF Bluesky!AppendSession, Bluesky!login, Bluesky!store
  <1>2. c \in posts => c \in failed
    BY <1>1, NotPosted
  <1>3. Onward /\ LoginFits'
    BY <1>1 DEF Onward, BadLog, SignerInv, LoginFits
  <1>4. /\ "session" \in DOMAIN post[c] /\ Passes(post[c].session)
        /\ c \in overtaken \/ Bluesky!Get = post[c].session
    BY <1>1 DEF SignerInv, Holds
  <1>5. CASE Bluesky!Get = post[c].session /\ Bluesky!Verifies(post[c].session)
    <2>1. Bluesky!Moves(c, "done")
      BY <1>5 DEF Bluesky!AppendSession
    <2> QED
      BY <1>1, <1>2, <1>3, <2>1, GoOnKeeps
  <1>6. CASE ~(Bluesky!Get = post[c].session /\ Bluesky!Verifies(post[c].session))
    <2>1. Bluesky!Moves(c, "failed")
      BY <1>6 DEF Bluesky!AppendSession
    <2>2. c \in overtaken \/ post[c].session.by \in changed
      BY <1>4, <1>6 DEF Passes
    <2> QED
      BY <1>1, <1>2, <1>3, <1>4, <2>1, <2>2, FailKeeps
  <1> QED
    BY <1>5, <1>6

\* A log that did not verify did not, whatever comes after.
LEMMA ChangesDIDKeeps ==
  ASSUME SignerInv, NEW type \in {"plc_operation", "plc_tombstone"}, Bluesky!ChangesDID(type)
  PROVE  SignerInv'
  <1> DEFINE new == [type |-> type, key |-> Len(operations) + 1]
  <1>1. /\ operations' = Append(operations, new)
        /\ changed' = changed \cup {c \in BlueskyCalls : Bluesky!UnderWay(c)}
        /\ platform' = platform /\ post' = post /\ session' = session /\ jwt' = jwt /\ agent' = agent
        /\ kept' = kept /\ saved' = saved /\ posts' = posts /\ restarts' = restarts
        /\ failed' = failed /\ overtaken' = overtaken
    BY DEF Bluesky!ChangesDID, Bluesky!login, Bluesky!store
  <1>2. operations \in Seq([type : OperationTypes, key : Nat \ {0}]) /\ Len(operations) \in Nat
    BY DEF SignerInv, LogFits
  <1>3. new \in [type : OperationTypes, key : Nat \ {0}] /\ new.type = type
    BY <1>2 DEF OperationTypes
  <1> HIDE DEF new
  <1>4. LogFits'
    <2>1. /\ operations' \in Seq([type : OperationTypes, key : Nat \ {0}]) /\ operations' # <<>>
          /\ Len(operations') = Len(operations) + 1
          /\ operations'[Len(operations) + 1] = new
          /\ \A i \in 1..Len(operations) : operations'[i] = operations[i]
      BY <1>1, <1>2, <1>3, AppendProperties
    <2>2. ASSUME NEW i \in 2..Len(operations')
          PROVE  operations'[i].type \in {"plc_operation", "plc_tombstone"}
      <3>1. i = Len(operations) + 1 \/ i \in 2..Len(operations)
        BY <1>2, <2>1
      <3>2. \A j \in 2..Len(operations) : j \in 1..Len(operations)
        BY <1>2
      <3> QED
        BY <1>3, <2>1, <3>1, <3>2 DEF SignerInv, LogFits
    <2> QED
      BY <2>1, <2>2 DEF LogFits
  <1>5. BadLog => BadLog'
    <2> SUFFICES ASSUME NEW n \in DOMAIN operations,
                        ~Bluesky!LogVerifies(SubSeq(operations, 1, n))
                 PROVE  BadLog'
      BY DEF BadLog
    <2>1. n \in 1..Len(operations) /\ n \in DOMAIN operations'
      BY <1>1, <1>2, <1>3
    <2>2. SubSeq(operations', 1, n) = SubSeq(operations, 1, n)
      BY <1>1, <1>2, <1>3, <2>1
    <2> QED
      BY <2>1, <2>2 DEF BadLog
  <1>6. Onward /\ LoginFits'
    BY <1>1, <1>5 DEF Onward, SignerInv, LoginFits
  <1>7. Bluesky!Get' = Bluesky!Get
    BY <1>1 DEF Bluesky!Get
  <1>8. \A c \in BlueskyCalls : Holds(c)' /\ Stands(c)'
    BY <1>1, <1>6, <1>7, StandsStill DEF SignerInv
  <1>9. \A s \in {kept', saved'} \ {Bluesky!None} : Passes(s)'
    BY <1>1 DEF SignerInv, Passes
  <1> QED
    BY <1>1, <1>4, <1>6, <1>8, <1>9 DEF SignerInv

LEMMA RestartKeeps == ASSUME SignerInv, Bluesky!Restart PROVE SignerInv'
  <1>1. /\ platform' = platform /\ operations' = operations /\ jwt' = jwt /\ saved' = saved
        /\ posts' = posts /\ failed' = failed /\ changed' = changed /\ overtaken' = overtaken
        /\ restarts' = restarts + 1 /\ session' = FALSE /\ agent' = FALSE /\ kept' = Bluesky!None
        /\ post' = [c \in BlueskyCalls |-> IF Bluesky!UnderWay(c) THEN [at |-> "lost"] ELSE post[c]]
    BY DEF Bluesky!Restart
  <1>2. LogFits'
    BY <1>1 DEF SignerInv, LogFits
  <1>3. LoginFits' /\ Onward
    <2>1. restarts \in Nat /\ restarts' \in Nat /\ restarts' > 0 /\ jwt \in BOOLEAN
      BY <1>1 DEF SignerInv, LoginFits
    <2> QED
      BY <1>1, <2>1 DEF Onward, BadLog, LoginFits
  <1>4. ASSUME NEW c \in BlueskyCalls PROVE Holds(c)' /\ Stands(c)'
    <2>1. CASE Bluesky!UnderWay(c)
      <3>1. post'[c] = [at |-> "lost"]
        BY <1>1, <2>1
      <3> QED
        BY <3>1 DEF Holds, Stands
    <2>2. CASE ~Bluesky!UnderWay(c)
      <3>1. post'[c] = post[c]
        BY <1>1, <2>2
      <3> QED
        BY <1>1, <1>3, <2>2, <3>1, StandsStill DEF SignerInv
    <2> QED
      BY <2>1, <2>2
  <1>5. \A s \in {kept', saved'} \ {Bluesky!None} : Passes(s)'
    BY <1>1 DEF SignerInv, Passes
  <1> QED
    BY <1>1, <1>2, <1>3, <1>4, <1>5 DEF SignerInv

LEMMA SignerKept == ASSUME SignerInv, [Bluesky!Next]_(Bluesky!vars) PROVE SignerInv'
  <1>1. CASE UNCHANGED Bluesky!vars
    BY <1>1 DEF Bluesky!vars, Bluesky!login, Bluesky!store, SignerInv, LogFits, LoginFits, BadLog,
                Passes, Holds, Stands, Bluesky!Get
  <1>2. CASE Bluesky!Next
    BY <1>2, CallKeeps, ResumeKeeps, LookUpKeeps, FetchLogKeeps, PostKeeps, GetRecordKeeps,
       DeletePostKeeps, AppendSessionKeeps, ChangesDIDKeeps, RestartKeeps DEF Bluesky!Next
  <1> QED
    BY <1>1, <1>2

\* A call of the signer of AT Protocol stores a session that verifies, leaves no
\* post behind and fails with no session for a reason only (chain-atp/src/
\* ATPSigner.ts), with any number of calls, operations of the DID, requests that
\* fail, and restarts.
THEOREM ATPSignsSoundly == Bluesky!Spec => []SignsSoundly
  <1>1. ASSUME SignerInv PROVE SignsSoundly
    <2>1. Bluesky!SoundUnlessChanged
      BY <1>1 DEF SignerInv, Passes, Bluesky!SoundUnlessChanged
    <2>2. Bluesky!PostsOwned
      BY <1>1 DEF SignerInv, Stands, Bluesky!PostsOwned, Bluesky!UnderWay
    <2>3. Bluesky!FailsByItself
      BY <1>1 DEF SignerInv, Stands, BadLog, Bluesky!FailsByItself
    <2> QED
      BY <2>1, <2>2, <2>3 DEF SignsSoundly, Bluesky!SignsSoundly
  <1> QED
    BY <1>1, SignerInit, SignerKept, PTL DEF Bluesky!Spec
=============================================================================
