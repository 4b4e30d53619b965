------------------------------ MODULE ATPSigner -------------------------------
(***************************************************************************)
(* packages/chain-atp: a session is authorized by a post to the user's     *)
(* repository on a Bluesky server.  getSession logs in, fetches the        *)
(* operation log of the user's DID, posts, waits, fetches the proof that   *)
(* the post is in the repository, and deletes it.  Requests may fail, and  *)
(* meanwhile the user may be given another key.                            *)
(*                                                                         *)
(* There is one user and one topic.  A session is named by the call that   *)
(* made it.                                                                *)
(***************************************************************************)
EXTENDS Naturals, Sequences, FiniteSets

CONSTANTS
  Calls,
  Setups,        \* whether it is a browser, and whether options.login is given
  Registered,    \* the operations that may have created the user's DID
  MaxOperations, \* bound: operations of the DID
  MaxFailures,   \* bound: requests that fail
  MaxRestarts    \* bound: restarts of the application

VARIABLES
  setup,
  operations,  \* the log of the DID; an operation is named by its type and key
  call,
  session,     \* #session: whether there is one
  jwt,         \* localStorage: whether there is one
  agent,       \* whether the agent has a session
  cache,       \* the session in memory
  stored,      \* the session in localStorage
  posts,       \* the calls whose posts are in the repository
  restarts,
  failed,      \* history: calls of which a request failed
  changed,     \* history: calls during which the DID changed
  raced        \* history: calls during which another stored its session

login == <<session, jwt, agent>>
store == <<cache, stored>>
vars == <<setup, operations, call, login, store, posts, restarts, failed, changed, raced>>

None == [by |-> "none"]
Null == 0   \* keys are 1, 2, ...

-----------------------------------------------------------------------------
(* verifyLog and verifySession *)

Key == operations[Len(operations)].key
Tombstoned(ops) == \E i \in DOMAIN ops : ops[i].type = "plc_tombstone"
Updates(ops) == {i \in DOMAIN ops : ops[i].type = "plc_operation"}

\* Mutant: the key of the first update.
FirstMethod(ops) ==
  IF Updates(ops) = {} THEN Null
  ELSE ops[CHOOSE i \in Updates(ops) : \A j \in Updates(ops) : i <= j].key

\* The key that the last update names; a create operation names one in a
\* comparison that has no effect.  An operation log with a tombstone is invalid.
VerificationMethod(ops) ==
  IF Updates(ops) = {} THEN Null
  ELSE ops[CHOOSE i \in Updates(ops) : \A j \in Updates(ops) : j <= i].key

\* Whether verifyLog returns.
LogVerifies(ops) == ~Tombstoned(ops) /\ VerificationMethod(ops) # Null

Verifies(s) ==
  /\ LogVerifies(s.log)
  /\ VerificationMethod(s.log) = s.method
  /\ s.signedBy = s.method

-----------------------------------------------------------------------------
(* Calls *)

UnderWay(c) == call[c].at \notin {"idle", "done", "failed", "lost"}
Goes(c, state) == call' = [call EXCEPT ![c] = state]
Moves(c, at) == call' = [call EXCEPT ![c].at = at]

\* A request fails, and the call with it.
RequestFails(c) ==
  /\ Cardinality(failed) < MaxFailures
  /\ failed' = failed \cup {c}
  /\ Moves(c, "failed")

Init ==
  /\ setup \in Setups
  /\ \E type \in Registered : operations = <<[type |-> type, key |-> 1]>>
  /\ call = [c \in Calls |-> [at |-> "idle"]]
  /\ session = FALSE /\ jwt = FALSE /\ agent = FALSE
  /\ cache = None /\ stored = None
  /\ posts = {} /\ restarts = 0
  /\ failed = {} /\ changed = {} /\ raced = {}

\* getAddress: the session there is, that of localStorage, or a new one.
Call(c) ==
  /\ call[c].at = "idle"
  /\ IF session THEN Moves(c, "located") /\ UNCHANGED login
     ELSE IF jwt
       THEN Moves(c, "resuming") /\ session' = TRUE /\ agent' = TRUE /\ UNCHANGED jwt
     ELSE IF setup.login THEN Moves(c, "loggingIn") /\ UNCHANGED login
     ELSE Moves(c, "failed") /\ UNCHANGED login
  /\ UNCHANGED <<setup, operations, store, posts, restarts, failed, changed, raced>>

\* BskyAgent: a session that cannot be resumed is dropped.
AgentResumeFails == agent' = FALSE

Resume(c) ==
  /\ call[c].at = "resuming"
  /\ \/ Moves(c, "located") /\ UNCHANGED <<agent, failed>>
     \/ RequestFails(c) /\ AgentResumeFails
  /\ UNCHANGED <<setup, operations, session, jwt, store, posts, restarts, changed, raced>>

\* saveJWTSession does nothing in node.
SavesJWTSession == setup.browser

Login(c) ==
  /\ call[c].at = "loggingIn"
  /\ \/ /\ Moves(c, "located")
        /\ session' = TRUE /\ agent' = TRUE /\ jwt' = (jwt \/ SavesJWTSession)
        /\ UNCHANGED failed
     \/ RequestFails(c) /\ UNCHANGED login
  /\ UNCHANGED <<setup, operations, store, posts, restarts, changed, raced>>

\* get: in memory, or in the browser in localStorage.
Get == IF cache = None /\ setup.browser THEN stored ELSE cache

LookUp(c) ==
  /\ call[c].at = "located"
  /\ cache' = Get
  /\ IF Get = None THEN Moves(c, "fetching")
     ELSE Goes(c, [at |-> "found", session |-> Get])
  /\ UNCHANGED <<setup, operations, login, stored, posts, restarts, failed, changed, raced>>

\* The log of the DID is fetched, and verified.
FetchLog(c) ==
  /\ call[c].at = "fetching"
  /\ \/ /\ IF LogVerifies(operations)
             THEN Goes(c, [at |-> "posting", log |-> operations])
             ELSE Moves(c, "failed")
        /\ UNCHANGED failed
     \/ RequestFails(c)
  /\ UNCHANGED <<setup, operations, login, store, posts, restarts, changed, raced>>

Post(c) ==
  /\ call[c].at = "posting"
  /\ \/ /\ IF agent THEN Moves(c, "proving") /\ posts' = posts \cup {c}
                    ELSE Moves(c, "failed") /\ UNCHANGED posts
        /\ UNCHANGED failed
     \/ RequestFails(c) /\ UNCHANGED posts
  /\ UNCHANGED <<setup, operations, login, store, restarts, changed, raced>>

\* The proof holds a commit of the repository, with a signature by the key of
\* that time.
GetRecord(c) ==
  /\ call[c].at = "proving"
  /\ \/ /\ Goes(c, [at |-> "deleting", log |-> call[c].log, signedBy |-> Key])
        /\ UNCHANGED failed
     \/ RequestFails(c)
  /\ UNCHANGED <<setup, operations, login, store, posts, restarts, changed, raced>>

NewSession(c) ==
  [by |-> c, log |-> call[c].log, method |-> VerificationMethod(call[c].log),
   signedBy |-> call[c].signedBy]

\* set
Stores(c, s) ==
  /\ cache' = s
  /\ stored' = IF setup.browser THEN s ELSE stored
  /\ Goes(c, [at |-> "found", session |-> s])
  /\ raced' = raced \cup {d \in Calls \ {c} : UnderWay(d)}

\* Then the session is stored.
DeletePost(c) ==
  /\ call[c].at = "deleting"
  /\ \/ posts' = posts \ {c} /\ Stores(c, NewSession(c)) /\ UNCHANGED failed
     \/ RequestFails(c) /\ UNCHANGED <<store, posts, raced>>
  /\ UNCHANGED <<setup, operations, login, restarts, changed>>

\* The session is signed, if it is the current one, and verified by the consumer.
AppendSession(c) ==
  /\ call[c].at = "found"
  /\ Moves(c, IF Get = call[c].session /\ Verifies(call[c].session) THEN "done" ELSE "failed")
  /\ UNCHANGED <<setup, operations, login, store, posts, restarts, failed, changed, raced>>

-----------------------------------------------------------------------------
(* The DID, and restarts *)

ChangesDID(type) ==
  /\ Len(operations) < MaxOperations /\ ~Tombstoned(operations)
  /\ operations' = Append(operations, [type |-> type, key |-> Len(operations) + 1])
  /\ changed' = changed \cup {c \in Calls : UnderWay(c)}
  /\ UNCHANGED <<setup, call, login, store, posts, restarts, failed, raced>>

Restart ==
  /\ restarts < MaxRestarts /\ restarts' = restarts + 1
  /\ session' = FALSE /\ agent' = FALSE /\ cache' = None
  /\ call' = [c \in Calls |-> IF UnderWay(c) THEN [at |-> "lost"] ELSE call[c]]
  /\ UNCHANGED <<setup, operations, jwt, stored, posts, failed, changed, raced>>

Next ==
  \/ \E c \in Calls :
       \/ Call(c) \/ Resume(c) \/ Login(c) \/ LookUp(c) \/ FetchLog(c) \/ Post(c)
       \/ GetRecord(c) \/ DeletePost(c) \/ AppendSession(c)
  \/ \E type \in {"plc_operation", "plc_tombstone"} : ChangesDID(type)
  \/ Restart

Spec == Init /\ [][Next]_vars

-----------------------------------------------------------------------------
(* Properties *)

\* SoundUnlessChanged.  The requests of getSession go to two servers, one after the
\* other.  What is stored is a session that verifies, unless the DID changed in
\* between.
SoundUnlessChanged ==
  \A s \in {cache, stored} \ {None} : Verifies(s) \/ s.by \in changed

\* PostsOwned.  A post outlives its call only if a request failed or the
\* application stopped under way.
PostsOwned == \A c \in posts : UnderWay(c) \/ c \in failed \/ call[c].at = "lost"

\* FailsByItself.  SessionSigner.ts:15: getSession is responsible for returning a
\* session, if need be by user authorization to create one: a call fails because of
\* what happened while it was under way, or when the session it found was made, or
\* because the log of the DID did not verify; or, after a restart, because an
\* earlier call could not resume the agent's session.
FailsByItself ==
  \A c \in Calls : call[c].at = "failed" =>
    \/ c \in failed \cup changed \cup raced \/ ~setup.login
    \/ \E n \in DOMAIN operations : ~LogVerifies(SubSeq(operations, 1, n))
    \/ "session" \in DOMAIN call[c] /\ call[c].session.by \in changed
    \/ jwt /\ restarts > 0

\* The session stored is sound, no post is left behind without a reason, and no
\* call fails without one.
SignsSoundly == SoundUnlessChanged /\ PostsOwned /\ FailsByItself

=============================================================================
