------------------------------ MODULE Iteration -------------------------------
(***************************************************************************)
(* Who reads the log while it is written, in the three stores              *)
(* (gossiplog/src/node, memory and browser, index.ts): read and write take *)
(* turns, of a queue or of a lock; iterate goes through entries, which     *)
(* takes a place in the queue and does not wait for its turn.              *)
(*                                                                         *)
(* A message is a number, and messages are in the order of their ids.      *)
(***************************************************************************)
EXTENDS Integers, Sequences, FiniteSets

CONSTANTS
  Kinds,      \* of stores: "node", "memory", "browser"
  Iterators,
  Readers,
  Writers,
  Inserts,    \* of a writer: the messages it sets, in order
  Inners,     \* of each iterator: the writers its consumer awaits within the loop
  Stored      \* the messages there are

Positive == Nat \ {0}

\* No one is of two sorts, and messages are numbered from 1.
Apart ==
  /\ Iterators \cap Readers = {} /\ Iterators \cap Writers = {} /\ Readers \cap Writers = {}
  /\ Stored \subseteq Positive /\ Inserts \in [Writers -> Seq(Positive)]

VARIABLES
  kind,
  inner,   \* one of Inners
  store,   \* messages that are stored
  queue,   \* who waits for a turn, in the order in which they asked
  held,    \* whose turn it is
  txn,     \* messages.store.txn of the browser: whose transaction, or None
  phase,   \* of everyone
  left,    \* messages a writer has yet to set
  base,    \* messages there were when a reader or an iterator started
  seen     \* messages an iterator has yielded, those a reader has found

vars == <<kind, inner, store, queue, held, txn, phase, left, base, seen>>

None == "none"
Reading == "reading"
Everyone == Iterators \cup Readers \cup Writers

Without(who) == SelectSeq(queue, LAMBDA x : x # who)
Last(s) == IF s = <<>> THEN 0 ELSE s[Len(s)]
Elements(s) == {s[j] : j \in DOMAIN s}

-----------------------------------------------------------------------------
Init ==
  /\ kind \in Kinds /\ inner \in Inners
  /\ store = Stored /\ queue = <<>> /\ held = {} /\ txn = None
  /\ phase = [x \in Everyone |-> "idle"]
  /\ left = Inserts
  /\ base = [x \in Iterators \cup Readers |-> {}]
  /\ seen = [x \in Iterators \cup Readers |-> <<>>]

To(x, how) == phase' = [phase EXCEPT ![x] = how]

\* A turn is one task's in memory; in the browser, any number of readers'; with
\* LMDB, one writer's.
Shares(x) == kind = "browser" /\ x \notin Writers
MayHold(x) == held = {} \/ (Shares(x) /\ \A y \in held : Shares(y))

Grant ==
  /\ queue # <<>> /\ MayHold(Head(queue))
  /\ held' = held \cup {Head(queue)} /\ queue' = Tail(queue)
  /\ UNCHANGED <<kind, inner, store, txn, phase, left, base, seen>>

Ask(x) == queue' = Append(queue, x) /\ UNCHANGED held
Release(x) == queue' = Without(x) /\ held' = held \ {x}

-----------------------------------------------------------------------------
(* entries *)

Started(i) == \A w \in inner[i] : phase[w] \notin {"asked", "writing", "setting"}

\* It asks, and goes on.  In the browser it takes the transaction that is there.
Iterate(i) ==
  /\ phase[i] = "idle" /\ To(i, "open")
  /\ base' = [base EXCEPT ![i] = store]
  /\ IF kind = "node" THEN UNCHANGED <<queue, held>> ELSE Ask(i)
  /\ txn' = IF kind = "browser" /\ txn = None THEN Reading ELSE txn
  /\ UNCHANGED <<kind, inner, store, left, seen>>

\* Mutant: the finally leaves the place in the queue.
EndsHolding(i, how) ==
  /\ To(i, how)
  /\ txn' = None
  /\ UNCHANGED <<kind, inner, store, queue, held, left, base, seen>>

\* Its finally.
Ends(i, how) ==
  /\ To(i, how) /\ Release(i)
  /\ txn' = None
  /\ UNCHANGED <<kind, inner, store, left, base, seen>>

\* Mutant: the read-only transaction is renewed for each node.
ViewNow(i) == store

\* With LMDB it reads what there was, otherwise what there is.
View(i) == IF kind = "node" THEN base[i] ELSE store
Ahead(i) == {m \in View(i) : m > Last(seen[i])}

HasTransaction == kind = "browser" => txn # None

Yield(i) ==
  /\ phase[i] = "open" /\ Started(i) /\ HasTransaction
  /\ \E m \in Ahead(i) :
       /\ \A n \in Ahead(i) : m <= n
       /\ seen' = [seen EXCEPT ![i] = Append(@, m)]
  /\ UNCHANGED <<kind, inner, store, queue, held, txn, phase, left, base>>

Finish(i) ==
  /\ phase[i] = "open" /\ Started(i) /\ HasTransaction /\ Ahead(i) = {}
  /\ Ends(i, "done")

\* The consumer leaves the loop.
Break(i) ==
  /\ phase[i] = "open" /\ Started(i) /\ seen[i] # <<>>
  /\ Ends(i, "left")

\* Another has taken the transaction away, or it has ended because the consumer
\* awaited something.
Throw(i) ==
  /\ phase[i] = "open" /\ Started(i) /\ kind = "browser"
  /\ txn = None \/ (txn = Reading /\ seen[i] # <<>>)
  /\ Ends(i, "failed")

-----------------------------------------------------------------------------
(* read *)

AskRead(r) ==
  /\ phase[r] = "idle" /\ To(r, "asked")
  /\ IF kind = "node" THEN UNCHANGED <<queue, held>> ELSE Ask(r)
  /\ UNCHANGED <<kind, inner, store, txn, left, base, seen>>

BeginRead(r) ==
  /\ phase[r] = "asked" /\ (kind = "node" \/ r \in held) /\ To(r, "reading")
  /\ base' = [base EXCEPT ![r] = store]
  /\ UNCHANGED <<kind, inner, store, queue, held, txn, left, seen>>

\* What it reads last.
EndRead(r) ==
  /\ phase[r] = "reading" /\ To(r, "done") /\ Release(r)
  /\ seen' = [seen EXCEPT ![r] = <<View(r)>>]
  /\ UNCHANGED <<kind, inner, store, txn, left, base>>

-----------------------------------------------------------------------------
(* write *)

Free(w) == \A i \in Iterators : w \in inner[i] => phase[i] = "open" /\ seen[i] # <<>>

AskWrite(w) ==
  /\ phase[w] = "idle" /\ Free(w) /\ To(w, "asked") /\ Ask(w)
  /\ UNCHANGED <<kind, inner, store, txn, left, base, seen>>

BeginWrite(w) ==
  /\ phase[w] = "asked" /\ w \in held /\ To(w, "writing")
  /\ UNCHANGED <<kind, inner, store, queue, held, txn, left, base, seen>>

Sets(w) == phase[w] = "writing" /\ left[w] # <<>>

\* messages.set, in memory.
Set(w) ==
  /\ Sets(w) /\ kind = "memory"
  /\ store' = store \cup {Head(left[w])}
  /\ left' = [left EXCEPT ![w] = Tail(@)]
  /\ UNCHANGED <<kind, inner, queue, held, txn, phase, base, seen>>

\* messages.set, in the browser, opens a transaction if there is none.
BeginSet(w) ==
  /\ Sets(w) /\ kind = "browser" /\ txn = None
  /\ txn' = w /\ To(w, "setting")
  /\ UNCHANGED <<kind, inner, store, queue, held, left, base, seen>>

EndSet(w) ==
  /\ phase[w] = "setting" /\ txn = w
  /\ txn' = None /\ To(w, "writing")
  /\ store' = store \cup {Head(left[w])}
  /\ left' = [left EXCEPT ![w] = Tail(@)]
  /\ UNCHANGED <<kind, inner, queue, held, base, seen>>

\* The transaction it finds is a reader's, or its own was taken away.
FailSet(w) ==
  /\ \/ Sets(w) /\ txn = Reading /\ UNCHANGED txn
     \/ phase[w] = "setting" /\ txn # w /\ txn' = None
  /\ To(w, "failed") /\ Release(w)
  /\ UNCHANGED <<kind, inner, store, left, base, seen>>

\* LMDB stores all of them, at once.
Commit(w) ==
  /\ phase[w] = "writing" /\ kind = "node"
  /\ store' = store \cup Elements(left[w])
  /\ left' = [left EXCEPT ![w] = <<>>]
  /\ To(w, "done") /\ Release(w)
  /\ UNCHANGED <<kind, inner, txn, base, seen>>

EndWrite(w) ==
  /\ phase[w] = "writing" /\ kind # "node" /\ left[w] = <<>>
  /\ To(w, "done") /\ Release(w)
  /\ UNCHANGED <<kind, inner, store, txn, left, base, seen>>

Iterates(i) == Yield(i) \/ Finish(i) \/ Break(i) \/ Throw(i)
Reads(r) == BeginRead(r) \/ EndRead(r)
Writes(w) ==
  BeginWrite(w) \/ Set(w) \/ BeginSet(w) \/ EndSet(w) \/ FailSet(w) \/ Commit(w) \/ EndWrite(w)

Next ==
  \/ Grant
  \/ \E i \in Iterators : Iterate(i) \/ Iterates(i)
  \/ \E r \in Readers : AskRead(r) \/ Reads(r)
  \/ \E w \in Writers : AskWrite(w) \/ Writes(w)

\* Turns are given, what has started goes on, and a consumer goes through the
\* loop unless it waits for a writer.
Fairness ==
  /\ WF_vars(Grant)
  /\ \A i \in Iterators : WF_vars(Iterates(i))
  /\ \A r \in Readers : WF_vars(Reads(r))
  /\ \A w \in Writers : WF_vars(Writes(w))

Spec == Init /\ [][Next]_vars /\ Fairness

-----------------------------------------------------------------------------
(* Properties *)

\* iterate yields messages in the order of their ids (gossiplog/test/
\* messages.test.ts:47-49), and whenever it ends by itself it has left out none
\* that was there when it started, although the log was written meanwhile; with
\* LMDB it yields just those.
YieldsAll ==
  \A i \in Iterators :
    /\ \A j, k \in DOMAIN seen[i] : j < k => seen[i][j] < seen[i][k]
    /\ Elements(seen[i]) \subseteq store
    /\ kind = "node" => Elements(seen[i]) \subseteq base[i]
    /\ phase[i] = "done" => base[i] \subseteq Elements(seen[i])

\* What a callback of read finds last is what it found first: the heads, the
\* messages and the ancestors it reads are of one moment (AbstractGossipLog.ts:
\* 81-84).
ReadsAgree == \A r \in Readers : phase[r] = "done" => seen[r] = <<base[r]>>

\* Who reads the log while it is written reads all there is, of one moment.
ReadsSound == YieldsAll /\ ReadsAgree

\* Every write has its turn and ends, though readers and iterators come and go;
\* but not one that a consumer of iterate awaits within its loop, in memory or
\* in the browser: it waits for the turn that the loop holds.
WritesEnd ==
  \A w \in Writers : phase[w] = "asked" ~>
    \/ phase[w] \in {"done", "failed"}
    \/ kind # "node" /\ \E i \in Iterators : w \in inner[i] /\ phase[i] = "open"

=============================================================================
