------------------------------ MODULE GossipLog ------------------------------
(***************************************************************************)
(* One replica of a Canvas GossipLog (packages/gossiplog): the message     *)
(* tree, the set of heads, the ancestor index and the mempool, and the     *)
(* write transactions append, insert and sync that change them.            *)
(*                                                                         *)
(* Writes are serialised by every storage backend (a queue, an exclusive   *)
(* lock, or LMDB's single writer), so one transaction is open at a time.   *)
(* Inside it every awaited storage call is a step of its own: the process  *)
(* may stop between any two of them, and apply may throw at any of them.   *)
(*                                                                         *)
(* A message is an identifier; its parents are fixed when it is signed and *)
(* determine its clock.  Keys sort by clock first (schema.ts:63).          *)
(***************************************************************************)
EXTENDS Integers, Sequences, FiniteSets

CONSTANTS
  Ids,      \* message identifiers that can be in use at the same time
  Configs   \* the configurations a replica may be opened with

\* How a replica is opened, and what it meets.
ConfigType == [
  indexAncestors : BOOLEAN,  \* init.indexAncestors
  rollback : BOOLEAN,        \* the store aborts a throwing transaction (LMDB)
  durable : BOOLEAN,         \* the store outlives the process (LMDB, IndexedDB)
  applyMayThrow : BOOLEAN,   \* init.apply may throw
  closedPeers : BOOLEAN ]    \* peers hold every parent of what they hold

ASSUME ConstantsAssumption ==
  /\ IsFiniteSet(Ids)
  /\ Configs \subseteq {c \in ConfigType : c.rollback => c.durable}

VARIABLES
  config,     \* chosen when the log is opened
  \* what exists in the network
  created,    \* identifiers that have been signed
  shared,     \* messages that some other replica may hold or refer to
  parents,    \* the parents of each created message
  clock,      \* its clock, one more than the clocks of its parents
  \* the store, as the open transaction sees it
  messages,   \* keys of the message tree
  heads,      \* keys of the heads store
  indexed,    \* keys of the ancestor index
  committed,  \* the store as of the last commit
  \* the mempool, in the memory of the process
  pending,    \* Mempool.values: messages that wait for a parent
  missing,    \* Mempool.missingParents
  waiting,    \* Mempool.waitingChildren
  \* the open write transaction
  op,         \* which method opened it, or "idle"
  source,     \* sync: the keys of the peer's tree
  stack,      \* the nested calls of #insert
  \* history
  applied     \* messages apply returned for

network == <<config, created, shared, parents, clock>>
store   == <<messages, heads, indexed>>
mempool == <<pending, missing, waiting>>
vars == <<network, store, committed, mempool, op, source, stack, applied>>

-----------------------------------------------------------------------------
(* Helpers *)

IndexAncestors == config.indexAncestors
Rollback == config.rollback
Durable == config.durable
ApplyMayThrow == config.applyMayThrow
ClosedPeers == config.closedPeers

Phases == {"apply", "store", "head", "prune", "index", "observe"}

\* A call of #insert: where it stands, and the parents it still has to
\* remove from heads or the mempool children it still has to visit.
Frame == [id : Ids, at : Phases, todo : SUBSET Ids]

NewFrame(id) == [id |-> id, at |-> "apply", todo |-> {}]

Depth == Len(stack)
Top == stack[Depth]
Moved(at, todo) == [stack EXCEPT ![Depth] = [id |-> Top.id, at |-> at, todo |-> todo]]
Advance(at, todo) == stack' = Moved(at, todo)

Idle == op = "idle"

\* getNextClock: one more than the clock of the latest parent.
IsLatest(c, P) == \A p \in P : clock[p] <= c

Absent(m) == parents[m] \ messages

\* The entries of the ancestor index that #getAncestors reads to compute the
\* second row of links of m: those of the parents whose clock is just below.
IndexReads(m) ==
  IF clock[m] < 3 THEN {} ELSE {p \in parents[m] : clock[p] = clock[m] - 1}

\* Those that it may read for the rows after, which go on from the second: which of
\* them, the rows decide (AncestorIndex).
FurtherReads(m) ==
  IF clock[m] < 5 THEN {} ELSE {a \in messages : 2 <= clock[a] /\ clock[a] <= clock[m] - 2}

Snapshot == [messages |-> messages, heads |-> heads, indexed |-> indexed]

-----------------------------------------------------------------------------
Init ==
  /\ config \in Configs
  /\ created = {} /\ shared = {}
  /\ parents = [m \in Ids |-> {}]
  /\ clock = [m \in Ids |-> 0]
  /\ messages = {} /\ heads = {} /\ indexed = {}
  /\ committed = Snapshot
  /\ pending = {}
  /\ missing = [m \in Ids |-> {}]
  /\ waiting = [m \in Ids |-> {}]
  /\ op = "idle" /\ source = {} /\ stack = <<>>
  /\ applied = {}

\* A new message is signed with these parents (AbstractGossipLog.ts:249-254).
Sign(m, P) ==
  /\ m \notin created
  /\ created' = created \cup {m}
  /\ parents' = [parents EXCEPT ![m] = P]
  /\ \E c \in {0} \cup {clock[p] : p \in P} :
       IsLatest(c, P) /\ clock' = [clock EXCEPT ![m] = c + 1]

\* Another replica signs a message over messages it may hold.
RemoteAppend(m) ==
  /\ Idle
  /\ \E P \in SUBSET shared : Sign(m, P)
  /\ shared' = shared \cup {m}
  /\ UNCHANGED <<config, store, committed, mempool, op, source, stack, applied>>

\* append: the current heads become the parents of a new message.
AppendMessage(m) ==
  /\ Idle
  /\ Sign(m, heads)
  /\ op' = "append"
  /\ stack' = <<NewFrame(m)>>
  /\ UNCHANGED <<config, shared, store, committed, mempool, source, applied>>

\* Mutant: the set of children of a parent is replaced, not extended.
MempoolAddReplaces(m) ==
  /\ pending' = pending \cup {m}
  /\ missing' = [missing EXCEPT ![m] = Absent(m)]
  /\ waiting' = [p \in Ids |-> IF p \in Absent(m) THEN {m} ELSE waiting[p]]

\* Mempool.add: m waits for the parents that are not in the log.
MempoolAdd(m) ==
  /\ pending' = pending \cup {m}
  /\ missing' = [missing EXCEPT ![m] = Absent(m)]
  /\ waiting' = [p \in Ids |-> IF p \in Absent(m) THEN waiting[p] \cup {m} ELSE waiting[p]]

\* insert: with a parent missing and an ancestor index, m only goes to the
\* mempool; without the index it goes to the mempool and into the log.
InsertDefer(m) ==
  /\ Idle /\ m \in shared
  /\ Absent(m) # {} /\ IndexAncestors
  /\ MempoolAdd(m)
  /\ UNCHANGED <<network, store, committed, op, source, stack, applied>>

\* Mutant: the parents are not looked up.
InsertUnchecked(m) ==
  /\ Idle /\ m \in shared
  /\ UNCHANGED mempool
  /\ op' = "insert"
  /\ stack' = <<NewFrame(m)>>
  /\ UNCHANGED <<network, store, committed, source, applied>>

InsertNow(m) ==
  /\ Idle /\ m \in shared
  /\ IF Absent(m) = {} THEN UNCHANGED mempool ELSE ~IndexAncestors /\ MempoolAdd(m)
  /\ op' = "insert"
  /\ stack' = <<NewFrame(m)>>
  /\ UNCHANGED <<network, store, committed, source, applied>>

\* sync: a write transaction that walks the tree of a peer.
SyncOpen(S) ==
  /\ Idle
  /\ S \subseteq shared
  /\ ClosedPeers => \A m \in S : parents[m] \subseteq S
  /\ S \ messages # {}
  /\ op' = "sync"
  /\ source' = S
  /\ UNCHANGED <<network, store, committed, mempool, stack, applied>>

\* The driver yields the keys the log lacks, in key order.
SyncYields(m) ==
  /\ op = "sync" /\ stack = <<>>
  /\ m \in source \ messages
  /\ \A n \in source \ messages : clock[m] <= clock[n]

\* Mutant: sync inserts what the driver yields, parents or not.
SyncInsertUnchecked(m) ==
  /\ SyncYields(m)
  /\ stack' = <<NewFrame(m)>>
  /\ UNCHANGED <<network, store, committed, mempool, op, source, applied>>

SyncInsert(m) ==
  /\ SyncYields(m)
  /\ IndexAncestors => Absent(m) = {}
  /\ stack' = <<NewFrame(m)>>
  /\ UNCHANGED <<network, store, committed, mempool, op, source, applied>>

-----------------------------------------------------------------------------
(* The transaction body: #insert, one action per awaited call *)

Apply ==
  /\ stack # <<>> /\ Top.at = "apply"
  /\ applied' = applied \cup {Top.id}
  /\ Advance("store", {})
  /\ UNCHANGED <<network, store, committed, mempool, op, source>>

SetMessage ==
  /\ stack # <<>> /\ Top.at = "store"
  /\ messages' = messages \cup {Top.id}
  /\ Advance("head", {})
  /\ UNCHANGED <<network, heads, indexed, committed, mempool, op, source, applied>>

\* Mutant: only the outermost call of #insert records a head.
SetHeadOutermost ==
  /\ stack # <<>> /\ Top.at = "head"
  /\ heads' = IF Depth = 1 THEN heads \cup {Top.id} ELSE heads
  /\ Advance("prune", parents[Top.id])
  /\ UNCHANGED <<network, messages, indexed, committed, mempool, op, source, applied>>

SetHead ==
  /\ stack # <<>> /\ Top.at = "head"
  /\ heads' = heads \cup {Top.id}
  /\ Advance("prune", parents[Top.id])
  /\ UNCHANGED <<network, messages, indexed, committed, mempool, op, source, applied>>

\* heads.delete(parent), once for every parent
PruneHead(p) ==
  /\ stack # <<>> /\ Top.at = "prune" /\ p \in Top.todo
  /\ heads' = heads \ {p}
  /\ Advance("prune", Top.todo \ {p})
  /\ UNCHANGED <<network, messages, indexed, committed, mempool, op, source, applied>>

Pruned ==
  /\ stack # <<>> /\ Top.at = "prune" /\ Top.todo = {}
  /\ Advance("index", {})
  /\ UNCHANGED <<network, store, committed, mempool, op, source, applied>>

\* ancestors.set, and the first part of Mempool.observe, which takes the
\* children of this message out of waitingChildren.
SetAncestors ==
  /\ stack # <<>> /\ Top.at = "index"
  /\ IF IndexAncestors
       THEN IndexReads(Top.id) \subseteq indexed /\ indexed' = indexed \cup {Top.id}
       ELSE UNCHANGED indexed
  /\ Advance("observe", waiting[Top.id])
  /\ waiting' = [waiting EXCEPT ![Top.id] = {}]
  /\ UNCHANGED <<network, messages, heads, committed, pending, missing, op, source, applied>>

\* Mempool.observe visits a child that still waits for another parent ...
ObserveBlocked(c) ==
  /\ stack # <<>> /\ Top.at = "observe" /\ c \in Top.todo \cap pending
  /\ missing[c] \ {Top.id} # {}
  /\ missing' = [missing EXCEPT ![c] = @ \ {Top.id}]
  /\ Advance("observe", Top.todo \ {c})
  /\ UNCHANGED <<network, store, committed, pending, waiting, op, source, applied>>

\* Mutant: a child is released by the first parent that arrives.
ObserveReadyEarly(c) ==
  /\ stack # <<>> /\ Top.at = "observe" /\ c \in Top.todo \cap pending
  /\ pending' = pending \ {c}
  /\ missing' = [missing EXCEPT ![c] = {}]
  /\ stack' = Append(Moved("observe", Top.todo \ {c}), NewFrame(c))
  /\ UNCHANGED <<network, store, committed, waiting, op, source, applied>>

\* ... and one that waits for nothing else, which #insert then inserts.
ObserveReady(c) ==
  /\ stack # <<>> /\ Top.at = "observe" /\ c \in Top.todo \cap pending
  /\ missing[c] \ {Top.id} = {}
  /\ pending' = pending \ {c}
  /\ missing' = [missing EXCEPT ![c] = {}]
  /\ stack' = Append(Moved("observe", Top.todo \ {c}), NewFrame(c))
  /\ UNCHANGED <<network, store, committed, waiting, op, source, applied>>

Return ==
  /\ stack # <<>> /\ Top.at = "observe" /\ Top.todo = {}
  /\ stack' = SubSeq(stack, 1, Depth - 1)
  /\ UNCHANGED <<network, store, committed, mempool, op, source, applied>>

-----------------------------------------------------------------------------
(* The end of the transaction *)

Commit ==
  /\ ~Idle /\ stack = <<>>
  /\ op = "sync" => source \subseteq messages
  /\ op' = "idle" /\ source' = {}
  /\ committed' = Snapshot
  /\ shared' = shared \cup messages
  /\ UNCHANGED <<config, created, parents, clock, store, mempool, stack, applied>>

\* Mutant: the store brings back the messages and not the heads.
AbortKeepsHeads ==
  /\ op' = "idle" /\ source' = {} /\ stack' = <<>>
  /\ IF Rollback
       THEN /\ messages' = committed.messages
            /\ indexed' = committed.indexed
            /\ UNCHANGED <<committed, heads>>
       ELSE /\ committed' = Snapshot
            /\ UNCHANGED store
  /\ shared' = shared \cup committed'.messages
  /\ UNCHANGED <<config, created, parents, clock>>

\* The callback throws.  LMDB restores the store; the memory and IndexedDB
\* backends leave what was written.  The mempool is nobody's to restore.
Abort ==
  /\ op' = "idle" /\ source' = {} /\ stack' = <<>>
  /\ IF Rollback
       THEN /\ messages' = committed.messages
            /\ heads' = committed.heads
            /\ indexed' = committed.indexed
            /\ UNCHANGED committed
       ELSE /\ committed' = Snapshot
            /\ UNCHANGED store
  /\ shared' = shared \cup committed'.messages
  /\ UNCHANGED <<config, created, parents, clock>>

ApplyThrows ==
  /\ ApplyMayThrow
  /\ stack # <<>> /\ Top.at = "apply"
  /\ Abort
  /\ UNCHANGED <<mempool, applied>>

\* #getAncestors finds no entry for a message, or may find none, or Mempool.observe
\* no value for a child (Mempool.ts:57).
Broken ==
  \/ /\ Top.at = "index" /\ IndexAncestors
     /\ ~(IndexReads(Top.id) \cup FurtherReads(Top.id) \subseteq indexed)
  \/ Top.at = "observe" /\ ~(Top.todo \subseteq pending)

InternalThrows ==
  /\ stack # <<>> /\ Broken
  /\ Abort
  /\ UNCHANGED <<mempool, applied>>

SyncThrows ==
  /\ IndexAncestors
  /\ \E m \in source : SyncYields(m) /\ Absent(m) # {}
  /\ Abort
  /\ UNCHANGED <<mempool, applied>>

\* The process stops and starts again on the same store.
Crash ==
  /\ Durable
  /\ ~Idle \/ pending # {}
  /\ Abort
  /\ pending' = {}
  /\ missing' = [m \in Ids |-> {}]
  /\ waiting' = [m \in Ids |-> {}]
  /\ UNCHANGED applied

-----------------------------------------------------------------------------
Body ==
  \/ Apply \/ SetMessage \/ SetHead \/ Pruned \/ SetAncestors \/ Return
  \/ \E m \in Ids : PruneHead(m) \/ ObserveBlocked(m) \/ ObserveReady(m)

Next ==
  \/ \E m \in Ids : RemoteAppend(m) \/ AppendMessage(m) \/ InsertDefer(m) \/ InsertNow(m) \/ SyncInsert(m)
  \/ \E S \in SUBSET Ids : SyncOpen(S)
  \/ Body
  \/ Commit
  \/ ApplyThrows \/ InternalThrows \/ SyncThrows
  \/ Crash

Spec == Init /\ [][Next]_vars

-----------------------------------------------------------------------------
(* Properties *)

\* A stop never leaves half of a transaction in the store: LMDB drops it, and
\* an in-memory store is gone with the process.
Atomic == Rollback \/ ~Durable

\* No transaction throws.
Quiet == ~ApplyMayThrow /\ (IndexAncestors => ClosedPeers)

Stores == [messages : SUBSET Ids, heads : SUBSET Ids, indexed : SUBSET Ids]

\* The variables have their types (the maps of Mempool.ts:11-23 and the
\* stores of node/index.ts:88-92).
TypeOK ==
  /\ config \in Configs
  /\ created \subseteq Ids /\ shared \subseteq Ids
  /\ parents \in [Ids -> SUBSET Ids]
  /\ clock \in [Ids -> Nat]
  /\ messages \subseteq Ids /\ heads \subseteq Ids /\ indexed \subseteq Ids
  /\ committed \in Stores
  /\ pending \subseteq Ids
  /\ missing \in [Ids -> SUBSET Ids]
  /\ waiting \in [Ids -> SUBSET Ids]
  /\ op \in {"idle", "append", "insert", "sync"}
  /\ source \subseteq Ids
  /\ stack \in Seq(Frame)
  /\ applied \subseteq Ids

\* A log with an ancestor index never holds a message without its parents, at
\* any step of any transaction: insert (AbstractGossipLog.ts:286-306), the
\* mempool cascade (470-472) and sync (493-505) together admit no orphan.
\* An LMDB replica keeps this only as long as no transaction throws.
CausalConfig == IndexAncestors /\ (Rollback => Quiet)
CausallyClosed == CausalConfig => \A m \in messages : parents[m] \subseteq messages

\* With an ancestor index, apply returns for a message only after it has
\* returned for each of its parents (README.md:32).
DeliveredAfterParents ==
  [][IndexAncestors => \A m \in applied' \ applied : parents[m] \subseteq applied]_vars

\* No tip is lost: a message of the log is a head, or a child of it is in the
\* log, whatever order messages arrive in (heads.set and heads.delete,
\* AbstractGossipLog.ts:438-441).  The message whose head entry is about to
\* be written is exempt.  A lost tip would never be merged by an append.
InFlight == {stack[i].id : i \in {j \in 1..Depth : stack[j].at = "head"}}
TipsCovered ==
  Atomic => \A m \in messages \ InFlight : m \in heads \/ \E c \in messages : m \in parents[c]

\* The three stores that #insert writes one after the other (434-468) never
\* disagree: heads and ancestor entries are of messages in the log, also
\* after an abort or a stop between two writes.
StoresAgree ==
  /\ heads \subseteq messages /\ indexed \subseteq messages
  /\ committed.heads \subseteq committed.messages
  /\ committed.indexed \subseteq committed.messages

\* Mempool.observe never meets a child it has no entry for (the assertions of
\* Mempool.ts:57 and 62): a child that waits, or that a suspended observe
\* still has to visit, is pending and misses exactly that parent.  Where a
\* stop can leave a message without its ancestor entry (IndexedDB with an
\* index), #insert may throw before it reaches observe, and this is not so.
MempoolSafe == Atomic \/ ~IndexAncestors
MempoolAsserts ==
  MempoolSafe =>
  /\ \A p \in Ids : \A c \in waiting[p] : c \in pending /\ p \in missing[c]
  /\ \A i \in 1..Depth :
       stack[i].at = "observe" =>
         \A c \in stack[i].todo : c \in pending /\ stack[i].id \in missing[c]

\* Nothing is stranded: between transactions a message in the mempool has a
\* parent that is not in the log, or is itself in a log without an index, and
\* is registered with each parent it misses (Mempool.ts:27-69).
NothingStranded ==
  Idle /\ Quiet /\ Atomic =>
    \A c \in pending :
      /\ Absent(c) # {}
      /\ missing[c] = Absent(c)
      /\ \A p \in missing[c] : c \in waiting[p]

\* Between transactions every message of an indexed log has its ancestor entry
\* (AbstractGossipLog.ts:443-468), so a lookup never fails (398-400).
IndexComplete == Idle /\ IndexAncestors /\ Atomic => indexed = messages

\* Nothing is persisted that apply did not return for (README.md:185).
PersistedApplied == messages \cup committed.messages \subseteq applied

\* The stores, the mempool and what was applied are consistent with each other
\* at every step, also after aborts and stops: the three stores of #insert
\* (AbstractGossipLog.ts:434-468), the two maps of the mempool
\* (Mempool.ts:11-23), and what apply returned for (428-432).
Consistent == TypeOK /\ StoresAgree /\ MempoolAsserts /\ IndexComplete /\ PersistedApplied

\* Without an index, an orphan of the log waits in the mempool for each parent
\* it lacks, so that the last of them to arrive applies it once more
\* (AbstractGossipLog.ts:301-303).
OrphansWait ==
  Idle /\ ClosedPeers /\ ~Durable =>
    \A m \in messages : \A p \in Absent(m) : m \in pending /\ m \in waiting[p]

\* The log as the outside sees it: transactions are atomic where the store
\* can abort them, and visible message by message where it cannot.
Abstract == INSTANCE CausalLog WITH
  signed <- created,
  log <- IF ~CausalConfig THEN {} ELSE IF Rollback THEN committed.messages ELSE messages

\* An indexed replica implements the abstract causal log: the log only grows,
\* by messages whose parents it has (append, insert and sync,
\* AbstractGossipLog.ts:245-321 and 480-521, with all they call).
ImplementsCausalLog == Abstract!Spec

=============================================================================
