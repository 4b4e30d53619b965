-------------------------- MODULE SyncService_proofs --------------------------
(***************************************************************************)
(* Proofs about SyncService, for every set of peers, queue size, number of *)
(* retries and set of setups: the queue of syncs and its marks, and the    *)
(* transactions that a sync owns.  And about Discovery: who is in the       *)
(* cache was announced.                                                    *)
(***************************************************************************)
EXTENDS SyncService, PeerPresence, SequenceTheorems, FiniteSetTheorems, TLAPS

-----------------------------------------------------------------------------
(* Sequences *)

Distinct(s) == \A i, j \in 1..Len(s) : s[i] = s[j] => i = j

LEMMA AppendToSet ==
  ASSUME NEW S, NEW s \in Seq(S), NEW x \in S
  PROVE  /\ Append(s, x) \in Seq(S)
         /\ ToSet(Append(s, x)) = ToSet(s) \cup {x}
         /\ Distinct(s) /\ x \notin ToSet(s) => Distinct(Append(s, x))
         /\ s # <<>> => Head(Append(s, x)) = Head(s)
         /\ Append(s, x) # <<>>
  BY AppendProperties DEF ToSet, Distinct

LEMMA TailToSet ==
  ASSUME NEW S, NEW s \in Seq(S), s # <<>>
  PROVE  /\ Tail(s) \in Seq(S) /\ Head(s) \in S
         /\ Distinct(s) => ToSet(Tail(s)) = ToSet(s) \ {Head(s)} /\ Distinct(Tail(s))
  <1>1. /\ Len(s) \in Nat /\ Len(s) >= 1 /\ Head(s) = s[1] /\ Tail(s) \in Seq(S)
        /\ Len(Tail(s)) = Len(s) - 1
        /\ \A i \in 1..(Len(s) - 1) : Tail(s)[i] = s[i + 1]
    BY HeadTailProperties
  <1>2. ASSUME Distinct(s) PROVE ToSet(Tail(s)) = ToSet(s) \ {Head(s)}
    <2>1. \A i \in 1..(Len(s) - 1) : i + 1 \in 1..Len(s) /\ s[i + 1] # s[1]
      BY <1>1, <1>2 DEF Distinct
    <2>2. ToSet(Tail(s)) \subseteq ToSet(s) \ {Head(s)}
      BY <1>1, <2>1 DEF ToSet
    <2>3. ASSUME NEW i \in 1..Len(s), s[i] # s[1] PROVE s[i] \in ToSet(Tail(s))
      <3>1. i - 1 \in 1..(Len(s) - 1) /\ Tail(s)[i - 1] = s[i]
        BY <1>1, <2>3
      <3>2. i - 1 \in DOMAIN Tail(s)
        BY <1>1, <3>1
      <3> QED
        BY <3>1, <3>2 DEF ToSet
    <2> QED
      BY <1>1, <2>2, <2>3 DEF ToSet
  <1>3. Distinct(s) => Distinct(Tail(s))
    BY <1>1 DEF Distinct
  <1> QED
    BY <1>1, <1>2, <1>3

\* Taking one item out of a sequence leaves the others, in order.
LEMMA RemoveAtProperties ==
  ASSUME NEW S, NEW s \in Seq(S), NEW i \in DOMAIN s
  PROVE  /\ RemoveAt(s, i) \in Seq(S) /\ Len(RemoveAt(s, i)) = Len(s) - 1
         /\ \A j \in 1..(Len(s) - 1) : RemoveAt(s, i)[j] = IF j < i THEN s[j] ELSE s[j + 1]
  <1> DEFINE front == SubSeq(s, 1, i - 1)
             back == SubSeq(s, i + 1, Len(s))
  <1>1. Len(s) \in Nat /\ i \in 1..Len(s)
    OBVIOUS
  <1>2. /\ front \in Seq(S) /\ Len(front) = i - 1
        /\ \A j \in 1..(i - 1) : front[j] = s[j]
    <2>1. i - 1 \in Int /\ 1 \in Int /\ \A j \in 1..(i - 1) : s[j] \in S
      BY <1>1
    <2> QED
      BY <1>1, <2>1, SubSeqProperties
  <1>3. /\ back \in Seq(S) /\ Len(back) = Len(s) - i
        /\ \A j \in 1..(Len(s) - i) : back[j] = s[i + j]
    <2>1. i + 1 \in Int /\ Len(s) \in Int /\ \A j \in (i + 1)..Len(s) : s[j] \in S
      BY <1>1
    <2> QED
      BY <1>1, <2>1, SubSeqProperties
  <1>4. RemoveAt(s, i) = front \o back
    BY DEF RemoveAt
  <1> HIDE DEF front, back
  <1>5. /\ RemoveAt(s, i) \in Seq(S) /\ Len(RemoveAt(s, i)) = (i - 1) + (Len(s) - i)
        /\ \A j \in 1..((i - 1) + (Len(s) - i)) : RemoveAt(s, i)[j] =
             IF j <= i - 1 THEN front[j] ELSE back[j - (i - 1)]
    <2>1. /\ front \o back \in Seq(S) /\ Len(front \o back) = Len(front) + Len(back)
          /\ \A j \in 1..(Len(front) + Len(back)) : (front \o back)[j] =
               IF j <= Len(front) THEN front[j] ELSE back[j - Len(front)]
      BY <1>2, <1>3, ConcatProperties
    <2> QED
      BY <1>2, <1>3, <1>4, <2>1
  <1>6. (i - 1) + (Len(s) - i) = Len(s) - 1
    BY <1>1
  <1>7. ASSUME NEW j \in 1..(Len(s) - 1)
        PROVE  RemoveAt(s, i)[j] = IF j < i THEN s[j] ELSE s[j + 1]
    <2>1. CASE j < i
      BY <1>1, <1>2, <1>5, <1>6, <1>7, <2>1, SMTT(30)
    <2>2. CASE ~(j < i)
      <3>1. j - (i - 1) \in 1..(Len(s) - i) /\ i + (j - (i - 1)) = j + 1 /\ ~(j <= i - 1)
        BY <1>1, <1>7, <2>2
      <3> QED
        BY <1>3, <1>5, <1>6, <1>7, <2>2, <3>1
    <2> QED
      BY <2>1, <2>2
  <1> QED
    BY <1>5, <1>6, <1>7

-----------------------------------------------------------------------------
(* What the steps are built from *)

Tasks == [kind : {"read", "write"}, stream : Streams] \cup [kind : {"local"}, message : Messages]

\* The sync queue of each peer, with its marks and its first job.
JobsOK ==
  /\ queue \in [Peers -> Seq(Peers)]
  /\ marked \in [Peers -> SUBSET Peers]
  /\ attempt \in [Peers -> 0..(RetryLimit - 1)]
  /\ syncing \in [Peers -> Streams \cup {NoStream}]

\* The variables have their types; an attempt that is made is one of the first
\* RetryLimit.
TypeOK ==
  /\ setup \in Setups
  /\ connected \subseteq {c \in SUBSET Peers : \A p \in Peers : c # {p}} /\ connects \in Nat
  /\ due \subseteq Peers \X Peers
  /\ phase \in [Peers -> {"started", "stopping", "stopped"}]
  /\ JobsOK
  /\ history \in [Peers -> SUBSET Peers]
  /\ open \subseteq Streams /\ arriving \subseteq Streams
  /\ timers \subseteq Peers \X Streams
  /\ log \in [Peers -> SUBSET Messages]
  /\ lock \in [Peers -> Seq(Tasks)]
  /\ unmarked \subseteq Streams

\* A mark belongs to a place in the queue; stop leaves marks behind.
Listed(p) ==
  /\ Distinct(queue[p])
  /\ ToSet(queue[p]) \subseteq marked[p]
  /\ phase[p] = "started" => marked[p] \subseteq ToSet(queue[p])

\* The only write a sync service has asked for is that of its first job, to
\* the peer that is first in the queue.
Owned(p) ==
  /\ \A i \in DOMAIN lock[p] :
       lock[p][i].kind = "write" => syncing[p] # NoStream /\ lock[p][i] = Write(syncing[p])
  /\ \A i, j \in DOMAIN lock[p] :
       lock[p][i].kind = "write" /\ lock[p][j].kind = "write" => i = j
  /\ syncing[p] # NoStream =>
       /\ syncing[p].from = p /\ queue[p] # <<>> /\ Target(p) = syncing[p].to
       /\ \E i \in DOMAIN lock[p] : lock[p][i] = Write(syncing[p])

JobInv == TypeOK /\ \A p \in Peers : Listed(p) /\ Owned(p)

LEMMA StreamFields ==
  ASSUME NEW s \in Streams
  PROVE  /\ s.from \in Peers /\ s.to \in Peers /\ s.from # s.to /\ s.n >= 1 /\ s.n \in Int
         /\ s # NoStream
         /\ Read(s) \in Tasks /\ Write(s) \in Tasks
         /\ Read(s).kind = "read" /\ Write(s).kind = "write"
  <1>1. s.from \in Peers /\ s.to \in Peers /\ s.from # s.to /\ s.n \in 1..MaxStreams
    BY DEF Streams
  <1>2. s # NoStream
    BY <1>1 DEF NoStream
  <1> QED
    BY <1>1, <1>2 DEF Read, Write, Tasks

\* The first job ends, and the next one starts.
LEMMA EndJobEffect ==
  ASSUME JobsOK, NEW p \in Peers, queue[p] # <<>>, Listed(p), EndJob(p), UNCHANGED phase
  PROVE  /\ JobsOK' /\ Listed(p)'
         /\ syncing'[p] = NoStream
         /\ \A q \in Peers \ {p} :
              queue'[q] = queue[q] /\ marked'[q] = marked[q] /\ syncing'[q] = syncing[q]
  <1>1. /\ queue' = [queue EXCEPT ![p] = Tail(queue[p])]
        /\ marked' = [marked EXCEPT ![p] = marked[p] \ {Head(queue[p])}]
        /\ attempt' = [attempt EXCEPT ![p] = 0]
        /\ syncing' = [syncing EXCEPT ![p] = NoStream]
    BY DEF EndJob, Target
  <1>2. /\ Tail(queue[p]) \in Seq(Peers)
        /\ ToSet(Tail(queue[p])) = ToSet(queue[p]) \ {Head(queue[p])} /\ Distinct(Tail(queue[p]))
    BY TailToSet DEF JobsOK, Listed
  <1>3. 0 \in 0..(RetryLimit - 1)
    BY BoundsAssumption
  <1>4. JobsOK'
    BY <1>1, <1>2, <1>3 DEF JobsOK
  <1>5. queue'[p] = Tail(queue[p]) /\ marked'[p] = marked[p] \ {Head(queue[p])}
    BY <1>1 DEF JobsOK
  <1>6. Listed(p)'
    BY <1>2, <1>5 DEF Listed
  <1> QED
    BY <1>1, <1>4, <1>6 DEF JobsOK

\* An attempt fails: the job is tried again or ends.
LEMMA FailEffect ==
  ASSUME JobsOK, NEW p \in Peers, queue[p] # <<>>, Listed(p), Fail(p), UNCHANGED phase
  PROVE  /\ JobsOK' /\ Listed(p)'
         /\ syncing'[p] = NoStream
         /\ \A q \in Peers \ {p} :
              queue'[q] = queue[q] /\ marked'[q] = marked[q] /\ syncing'[q] = syncing[q]
  <1>1. CASE EndJob(p)
    BY <1>1, EndJobEffect
  <1>2. CASE ~EndJob(p)
    <2>1. /\ attempt[p] + 1 # RetryLimit /\ UNCHANGED <<queue, marked>>
          /\ attempt' = [attempt EXCEPT ![p] = attempt[p] + 1]
          /\ syncing' = [syncing EXCEPT ![p] = NoStream]
      BY <1>2 DEF Fail
    <2>2. attempt[p] + 1 \in 0..(RetryLimit - 1)
      <3>1. attempt[p] \in 0..(RetryLimit - 1)
        BY DEF JobsOK
      <3>2. RetryLimit \in Nat \ {0}
        BY BoundsAssumption
      <3>3. attempt[p] + 1 # RetryLimit
        BY <2>1
      <3> QED
        BY <3>1, <3>2, <3>3
    <2> QED
      BY <2>1, <2>2 DEF JobsOK, Listed
  <1> QED
    BY <1>1, <1>2

LEMMA ScheduleSyncEffect ==
  ASSUME JobsOK, NEW p \in Peers, NEW q \in Peers, Listed(p), ScheduleSync(p, q),
         UNCHANGED <<phase, attempt, syncing>>
  PROVE  /\ JobsOK' /\ Listed(p)'
         /\ queue[p] # <<>> => queue'[p] # <<>> /\ Head(queue'[p]) = Head(queue[p])
         /\ \A r \in Peers \ {p} : queue'[r] = queue[r] /\ marked'[r] = marked[r]
  <1>1. CASE UNCHANGED <<queue, marked>>
    BY <1>1 DEF JobsOK, Listed
  <1>2. CASE ~UNCHANGED <<queue, marked>>
    <2>1. /\ q \notin marked[p]
          /\ queue' = [queue EXCEPT ![p] = Append(queue[p], q)]
          /\ marked' = [marked EXCEPT ![p] = marked[p] \cup {q}]
      BY <1>2 DEF ScheduleSync
    <2>2. /\ Append(queue[p], q) \in Seq(Peers)
          /\ ToSet(Append(queue[p], q)) = ToSet(queue[p]) \cup {q}
          /\ Distinct(Append(queue[p], q))
          /\ queue[p] # <<>> => Head(Append(queue[p], q)) = Head(queue[p])
      BY <2>1, AppendToSet DEF JobsOK, Listed
    <2>3. Append(queue[p], q) # <<>>
      BY AppendToSet DEF JobsOK
    <2>4. queue'[p] = Append(queue[p], q) /\ marked'[p] = marked[p] \cup {q}
      BY <2>1 DEF JobsOK
    <2>5. JobsOK'
      BY <2>1, <2>2 DEF JobsOK
    <2>6. Listed(p)'
      BY <2>2, <2>4 DEF Listed
    <2> QED
      BY <2>1, <2>2, <2>3, <2>4, <2>5, <2>6 DEF JobsOK
  <1> QED
    BY <1>1, <1>2

-----------------------------------------------------------------------------
(* The transactions of a log *)

\* A task is put at the end of a queue of transactions, or taken off it.
LEMMA RequestEffect ==
  ASSUME lock \in [Peers -> Seq(Tasks)], NEW p \in Peers, NEW task \in Tasks, Request(p, task)
  PROVE  /\ lock' \in [Peers -> Seq(Tasks)]
         /\ DOMAIN lock'[p] = 1..(Len(lock[p]) + 1) /\ DOMAIN lock[p] = 1..Len(lock[p])
         /\ Len(lock[p]) \in Nat
         /\ lock'[p][Len(lock[p]) + 1] = task
         /\ \A i \in DOMAIN lock[p] : lock'[p][i] = lock[p][i]
         /\ \A q \in Peers \ {p} : lock'[q] = lock[q]
  <1>1. lock' = [lock EXCEPT ![p] = Append(lock[p], task)]
    BY DEF Request
  <1>2. Append(lock[p], task) \in Seq(Tasks)
    BY AppendProperties
  <1> QED
    BY <1>1, <1>2, AppendProperties

LEMMA ReleaseEffect ==
  ASSUME lock \in [Peers -> Seq(Tasks)], NEW p \in Peers, NEW task, Release(p, task)
  PROVE  /\ lock' \in [Peers -> Seq(Tasks)]
         /\ \E i \in DOMAIN lock[p] :
              /\ lock[p][i] = task
              /\ DOMAIN lock'[p] = 1..(Len(lock[p]) - 1) /\ DOMAIN lock[p] = 1..Len(lock[p])
              /\ Len(lock[p]) \in Nat
              /\ \A j \in DOMAIN lock'[p] :
                   lock'[p][j] = IF j < i THEN lock[p][j] ELSE lock[p][j + 1]
         /\ \A q \in Peers \ {p} : lock'[q] = lock[q]
  <1>1. PICK i \in DOMAIN lock[p] :
          lock[p][i] = task /\ lock' = [lock EXCEPT ![p] = RemoveAt(lock[p], i)]
    BY DEF Release
  <1>2. /\ RemoveAt(lock[p], i) \in Seq(Tasks) /\ Len(RemoveAt(lock[p], i)) = Len(lock[p]) - 1
        /\ \A j \in 1..(Len(lock[p]) - 1) :
             RemoveAt(lock[p], i)[j] = IF j < i THEN lock[p][j] ELSE lock[p][j + 1]
    BY RemoveAtProperties
  <1>3. lock'[p] = RemoveAt(lock[p], i) /\ lock' \in [Peers -> Seq(Tasks)]
    BY <1>1, <1>2
  <1>4. DOMAIN lock'[p] = 1..(Len(lock[p]) - 1) /\ DOMAIN lock[p] = 1..Len(lock[p])
        /\ Len(lock[p]) \in Nat
    BY <1>2, <1>3
  <1>5. \A j \in DOMAIN lock'[p] : lock'[p][j] = IF j < i THEN lock[p][j] ELSE lock[p][j + 1]
    BY <1>2, <1>3, <1>4
  <1>6. \A q \in Peers \ {p} : lock'[q] = lock[q]
    BY <1>1
  <1> QED
    BY <1>1, <1>3, <1>4, <1>5, <1>6

\* Other than by its sync, what a peer owns is not changed: its queue may grow
\* behind the first job, ...
LEMMA SameOwned ==
  ASSUME NEW p \in Peers, Owned(p), lock'[p] = lock[p], syncing'[p] = syncing[p],
         queue[p] # <<>> => queue'[p] # <<>> /\ Head(queue'[p]) = Head(queue[p])
  PROVE  Owned(p)'
  BY DEF Owned, Target

\* ... another transaction may be asked for, ...
LEMMA RequestOwned ==
  ASSUME JobInv, NEW p \in Peers, NEW task \in Tasks, task.kind # "write", Request(p, task),
         syncing'[p] = syncing[p], queue'[p] = queue[p]
  PROVE  Owned(p)'
  <1>1. /\ DOMAIN lock'[p] = 1..(Len(lock[p]) + 1) /\ DOMAIN lock[p] = 1..Len(lock[p])
        /\ Len(lock[p]) \in Nat
        /\ lock'[p][Len(lock[p]) + 1] = task
        /\ \A i \in DOMAIN lock[p] : lock'[p][i] = lock[p][i]
    BY RequestEffect DEF JobInv, TypeOK
  <1>2. \A i \in DOMAIN lock'[p] : lock'[p][i].kind = "write" => i \in DOMAIN lock[p]
    BY <1>1
  <1>3. DOMAIN lock[p] \subseteq DOMAIN lock'[p]
    BY <1>1
  <1> QED
    BY <1>1, <1>2, <1>3, SMTT(30) DEF Owned, Target, JobInv

\* ... and one may end.
LEMMA ReleaseOwned ==
  ASSUME JobInv, NEW p \in Peers, NEW task, task.kind # "write", Release(p, task),
         syncing'[p] = syncing[p], queue'[p] = queue[p]
  PROVE  Owned(p)'
  <1>1. PICK i \in DOMAIN lock[p] :
          /\ lock[p][i] = task
          /\ DOMAIN lock'[p] = 1..(Len(lock[p]) - 1) /\ DOMAIN lock[p] = 1..Len(lock[p])
          /\ Len(lock[p]) \in Nat
          /\ \A j \in DOMAIN lock'[p] : lock'[p][j] = IF j < i THEN lock[p][j] ELSE lock[p][j + 1]
    BY ReleaseEffect DEF JobInv, TypeOK
  <1> DEFINE from(j) == IF j < i THEN j ELSE j + 1
  <1>2. \A j \in DOMAIN lock'[p] : from(j) \in DOMAIN lock[p] /\ lock'[p][j] = lock[p][from(j)]
    BY <1>1
  <1>3. \A j, k \in DOMAIN lock'[p] : from(j) = from(k) => j = k
    BY <1>1
  <1>4. \A k \in DOMAIN lock[p] : k # i => \E j \in DOMAIN lock'[p] : from(j) = k
    <2> SUFFICES ASSUME NEW k \in DOMAIN lock[p], k # i
                 PROVE  \E j \in DOMAIN lock'[p] : from(j) = k
      OBVIOUS
    <2>1. CASE k < i
      BY <1>1, <2>1
    <2>2. CASE k > i
      <3>1. k - 1 \in DOMAIN lock'[p] /\ from(k - 1) = k
        BY <1>1, <2>2
      <3> QED
        BY <3>1
    <2> QED
      BY <1>1, <2>1, <2>2
  <1> HIDE DEF from
  <1>5. \A j \in DOMAIN lock'[p] : lock'[p][j].kind = "write" =>
          syncing[p] # NoStream /\ lock'[p][j] = Write(syncing[p])
    BY <1>2 DEF JobInv, Owned
  <1>6. \A j, k \in DOMAIN lock'[p] :
          lock'[p][j].kind = "write" /\ lock'[p][k].kind = "write" => j = k
    BY <1>2, <1>3 DEF JobInv, Owned
  <1>7. ASSUME syncing[p] # NoStream
        PROVE  \E j \in DOMAIN lock'[p] : lock'[p][j] = Write(syncing[p])
    <2>1. PICK k \in DOMAIN lock[p] : lock[p][k] = Write(syncing[p])
      BY <1>7 DEF JobInv, Owned
    <2>2. k # i
      BY <1>1, <2>1 DEF Write
    <2> QED
      BY <1>2, <1>4, <2>1, <2>2
  <1> QED
    BY <1>5, <1>6, <1>7 DEF JobInv, Owned, Target

\* No sync is under way, before nor after.
LEMMA NoneOwned ==
  ASSUME NEW p \in Peers, Owned(p), lock'[p] = lock[p], syncing[p] = NoStream,
         syncing'[p] = NoStream
  PROVE  Owned(p)'
  BY DEF Owned

\* A sync asks for its write, ...
LEMMA WriteAsked ==
  ASSUME JobInv, NEW p \in Peers, NEW s \in Streams, syncing[p] = NoStream, queue[p] # <<>>,
         s.from = p, s.to = Target(p), Request(p, Write(s)), syncing'[p] = s, queue'[p] = queue[p]
  PROVE  Owned(p)'
  <1>1. /\ DOMAIN lock'[p] = 1..(Len(lock[p]) + 1) /\ DOMAIN lock[p] = 1..Len(lock[p])
        /\ Len(lock[p]) \in Nat
        /\ lock'[p][Len(lock[p]) + 1] = Write(s)
        /\ \A i \in DOMAIN lock[p] : lock'[p][i] = lock[p][i]
    BY RequestEffect, StreamFields DEF JobInv, TypeOK
  <1>2. \A i \in DOMAIN lock[p] : lock[p][i].kind # "write"
    BY DEF JobInv, Owned
  <1>3. \A i \in DOMAIN lock'[p] : lock'[p][i].kind = "write" => i = Len(lock[p]) + 1
    BY <1>1, <1>2
  <1>4. Len(lock[p]) + 1 \in DOMAIN lock'[p]
    BY <1>1
  <1> QED
    BY <1>1, <1>3, <1>4, StreamFields DEF Owned, Target

\* ... and is over when that ends.
LEMMA WriteEnds ==
  ASSUME JobInv, NEW p \in Peers, NEW s \in Streams, Release(p, Write(s)), syncing'[p] = NoStream
  PROVE  Owned(p)'
  <1>1. PICK i \in DOMAIN lock[p] :
          /\ lock[p][i] = Write(s)
          /\ DOMAIN lock'[p] = 1..(Len(lock[p]) - 1) /\ DOMAIN lock[p] = 1..Len(lock[p])
          /\ Len(lock[p]) \in Nat
          /\ \A j \in DOMAIN lock'[p] : lock'[p][j] = IF j < i THEN lock[p][j] ELSE lock[p][j + 1]
    BY ReleaseEffect DEF JobInv, TypeOK
  <1>2. \A k \in DOMAIN lock[p] : k # i => lock[p][k].kind # "write"
    <2>1. lock[p][i].kind = "write"
      BY <1>1 DEF Write
    <2> QED
      BY <2>1 DEF JobInv, Owned
  <1>3. \A j \in DOMAIN lock'[p] : lock'[p][j].kind # "write"
    <2> TAKE j \in DOMAIN lock'[p]
    <2>1. CASE j < i
      BY <1>1, <1>2, <2>1
    <2>2. CASE ~(j < i)
      <3>1. j + 1 \in DOMAIN lock[p] /\ j + 1 # i
        BY <1>1, <2>2
      <3> QED
        BY <1>1, <1>2, <2>2, <3>1
    <2> QED
      BY <2>1, <2>2
  <1> QED
    BY <1>3 DEF Owned
-----------------------------------------------------------------------------
(* The invariant *)

LEMMA InitJobs == Init => JobInv
  <1> SUFFICES ASSUME Init PROVE JobInv
    OBVIOUS
  <1>1. 0 \in 0..(RetryLimit - 1) /\ <<>> \in Seq(Peers) /\ <<>> \in Seq(Tasks)
    BY BoundsAssumption
  <1>2. JobsOK
    BY <1>1 DEF Init, JobsOK
  <1>3. TypeOK
    BY <1>1, <1>2 DEF Init, TypeOK
  <1>4. ASSUME NEW p \in Peers PROVE Listed(p) /\ Owned(p)
    <2>1. queue[p] = <<>> /\ lock[p] = <<>> /\ syncing[p] = NoStream /\ marked[p] = {}
      BY DEF Init
    <2> QED
      BY <2>1 DEF Listed, Owned, Distinct, ToSet
  <1> QED
    BY <1>3, <1>4 DEF JobInv

LEMMA ListedKept ==
  ASSUME NEW p \in Peers, Listed(p), queue'[p] = queue[p], marked'[p] = marked[p],
         phase'[p] = "started" => phase[p] = "started"
  PROVE  Listed(p)'
  BY DEF Listed

\* Steps that touch neither the sync queues nor the transactions.
LEMMA ElsewhereJobs ==
  ASSUME JobInv, UNCHANGED <<queue, marked, attempt, syncing, lock>>,
         \A p \in Peers : phase'[p] = "started" => phase[p] = "started"
  PROVE  JobsOK' /\ \A p \in Peers : Listed(p)' /\ Owned(p)'
  <1>1. JobsOK'
    BY DEF JobInv, TypeOK, JobsOK
  <1> QED
    BY <1>1, ListedKept, SameOwned DEF JobInv

LEMMA CloseType ==
  ASSUME TypeOK, NEW S, Close(S)
  PROVE  open' \subseteq Streams /\ timers' \subseteq Peers \X Streams
  BY DEF Close, TypeOK

LEMMA ConnectionJobs ==
  ASSUME JobInv, NEW p \in Peers, NEW q \in Peers,
         Connect(p, q) \/ Disconnect(p, q) \/ OnConnect(p, q)
  PROVE  JobInv'
  <1>t. TypeOK /\ JobsOK
    BY DEF JobInv, TypeOK
  <1>1. CASE Connect(p, q)
    <2>1. JobsOK' /\ \A r \in Peers : Listed(r)' /\ Owned(r)'
      BY <1>1, ElsewhereJobs DEF Connect, service, locks
    <2>2. {p, q} \in SUBSET Peers /\ \A r \in Peers : {p, q} # {r}
      BY <1>1 DEF Connect
    <2>3. connected' \subseteq {c \in SUBSET Peers : \A r \in Peers : c # {r}}
      BY <1>t, <1>1, <2>2 DEF Connect, TypeOK
    <2>4. connects' \in Nat /\ due' \subseteq Peers \X Peers
      BY <1>t, <1>1 DEF Connect, TypeOK
    <2> QED
      BY <1>t, <1>1, <2>1, <2>3, <2>4 DEF Connect, service, streams, locks, JobInv, TypeOK
  <1>2. CASE Disconnect(p, q)
    <2>1. JobsOK' /\ \A r \in Peers : Listed(r)' /\ Owned(r)'
      BY <1>2, ElsewhereJobs DEF Disconnect, service, locks
    <2>2. open' \subseteq Streams /\ timers' \subseteq Peers \X Streams
      BY <1>t, <1>2, CloseType DEF Disconnect
    <2> QED
      BY <1>t, <1>2, <2>1, <2>2 DEF Disconnect, service, locks, JobInv, TypeOK
  <1>3. CASE OnConnect(p, q)
    <2>1. UNCHANGED <<phase, attempt, syncing, lock>>
      BY <1>3 DEF OnConnect, locks
    <2>2. JobsOK' /\ \A r \in Peers : Listed(r)' /\ Owned(r)'
      <3>1. CASE UNCHANGED <<queue, marked>>
        BY <2>1, <3>1, ElsewhereJobs
      <3>2. CASE ~UNCHANGED <<queue, marked>>
        <4>1. ScheduleSync(p, q) /\ Listed(p)
          BY <1>3, <3>2 DEF OnConnect, JobInv
        <4>2. /\ JobsOK' /\ Listed(p)'
              /\ queue[p] # <<>> => queue'[p] # <<>> /\ Head(queue'[p]) = Head(queue[p])
              /\ \A r \in Peers \ {p} : queue'[r] = queue[r] /\ marked'[r] = marked[r]
          BY <1>t, <2>1, <4>1, ScheduleSyncEffect
        <4>3. \A r \in Peers : Listed(r)'
          BY <2>1, <4>2, ListedKept DEF JobInv
        <4>4. \A r \in Peers : Owned(r)'
          BY <2>1, <4>2, SameOwned DEF JobInv
        <4> QED
          BY <4>2, <4>3, <4>4
      <3> QED
        BY <3>1, <3>2
    <2> QED
      BY <1>t, <1>3, <2>2 DEF OnConnect, streams, locks, JobInv, TypeOK
  <1> QED
    BY <1>1, <1>2, <1>3

\* The first job of a peer fails or ends, and its write with it.
LEMMA OneJobEnds ==
  ASSUME JobInv, NEW p \in Peers, UNCHANGED phase, JobsOK', Listed(p)', Owned(p)',
         \A q \in Peers \ {p} : queue'[q] = queue[q] /\ marked'[q] = marked[q]
                                /\ syncing'[q] = syncing[q] /\ lock'[q] = lock[q]
  PROVE  JobsOK' /\ \A q \in Peers : Listed(q)' /\ Owned(q)'
  BY ListedKept, SameOwned DEF JobInv

LEMMA DialJobs ==
  ASSUME JobInv, NEW p \in Peers, DialFails(p) \/ Dial(p)
  PROVE  JobInv'
  <1>t. TypeOK /\ JobsOK /\ Listed(p) /\ Owned(p)
    BY DEF JobInv, TypeOK
  <1>a. queue[p] # <<>> /\ syncing[p] = NoStream /\ UNCHANGED phase
    BY DEF DialFails, Dial, Idle
  <1>b. ASSUME Fail(p), lock' = lock
        PROVE  JobsOK' /\ \A q \in Peers : Listed(q)' /\ Owned(q)'
    <2>1. /\ JobsOK' /\ Listed(p)' /\ syncing'[p] = NoStream
          /\ \A q \in Peers \ {p} :
               queue'[q] = queue[q] /\ marked'[q] = marked[q] /\ syncing'[q] = syncing[q]
      BY <1>t, <1>a, <1>b, FailEffect
    <2>2. Owned(p)'
      BY <1>t, <1>a, <1>b, <2>1, NoneOwned
    <2> QED
      BY <1>a, <1>b, <2>1, <2>2, OneJobEnds
  <1>1. CASE DialFails(p)
    <2>1. JobsOK' /\ \A q \in Peers : Listed(q)' /\ Owned(q)'
      BY <1>1, <1>b DEF DialFails, locks
    <2> QED
      BY <1>t, <1>1, <2>1 DEF DialFails, streams, locks, JobInv, TypeOK
  <1>2. CASE Dial(p)
    <2> DEFINE stream(n) == [from |-> p, to |-> Target(p), n |-> n]
    <2>1. PICK n \in 1..setup.streams :
            /\ {p, Target(p)} \in connected /\ arriving' = arriving \cup {stream(n)}
            /\ \/ Fail(p) /\ UNCHANGED <<open, timers, lock>>
               \/ /\ open' = open \cup {stream(n)}
                  /\ timers' \subseteq timers \cup {<<p, stream(n)>>}
                  /\ syncing' = [syncing EXCEPT ![p] = stream(n)]
                  /\ Request(p, Write(stream(n)))
                  /\ UNCHANGED <<queue, marked, attempt>>
      BY <1>2 DEF Dial
    <2>2. stream(n) \in Streams
      <3>1. Target(p) \in Peers /\ setup.streams \in 1..MaxStreams
        BY <1>t, <1>a, TailToSet, BoundsAssumption DEF JobsOK, Target, TypeOK
      <3>2. n \in 1..MaxStreams
        BY <2>1, <3>1, BoundsAssumption
      <3>3. p # Target(p)
        <4>1. {p, Target(p)} # {p}
          BY <1>t, <2>1 DEF TypeOK
        <4> QED
          BY <4>1
      <3> QED
        BY <3>1, <3>2, <3>3 DEF Streams
    <2>s. stream(n).from = p /\ stream(n).to = Target(p)
      OBVIOUS
    <2> HIDE DEF stream
    <2>3. JobsOK' /\ lock' \in [Peers -> Seq(Tasks)] /\ \A q \in Peers : Listed(q)' /\ Owned(q)'
      <3>1. CASE Fail(p) /\ UNCHANGED lock
        BY <1>b, <3>1, <1>t DEF TypeOK
      <3>2. CASE ~(Fail(p) /\ UNCHANGED lock)
        <4>1. /\ syncing' = [syncing EXCEPT ![p] = stream(n)]
              /\ Request(p, Write(stream(n))) /\ UNCHANGED <<queue, marked, attempt>>
          BY <2>1, <3>2
        <4>2. JobsOK' /\ syncing'[p] = stream(n) /\ \A q \in Peers \ {p} : syncing'[q] = syncing[q]
          BY <1>t, <2>2, <4>1 DEF JobsOK
        <4>3. lock' \in [Peers -> Seq(Tasks)] /\ \A q \in Peers \ {p} : lock'[q] = lock[q]
          BY <1>t, <2>2, <4>1, StreamFields, RequestEffect DEF TypeOK
        <4>4. Owned(p)'
          BY <1>a, <2>2, <2>s, <4>1, <4>2, WriteAsked
        <4>5. Listed(p)'
          BY <1>t, <1>a, <4>1, ListedKept
        <4> QED
          BY <1>a, <4>1, <4>2, <4>3, <4>4, <4>5, OneJobEnds
      <3> QED
        BY <3>1, <3>2
    <2>4. open' \subseteq Streams /\ timers' \subseteq Peers \X Streams /\ arriving' \subseteq Streams
      BY <1>t, <2>1, <2>2 DEF TypeOK
    <2> QED
      BY <1>t, <1>2, <2>3, <2>4 DEF Dial, JobInv, TypeOK
  <1> QED
    BY <1>1, <1>2

\* A sync succeeds or fails once its write runs.
LEMMA SyncEndsJobs ==
  ASSUME JobInv, NEW p \in Peers, SyncSucceeds(p) \/ SyncFails(p)
  PROVE  JobInv'
  <1>t. TypeOK /\ JobsOK /\ Listed(p) /\ Owned(p)
    BY DEF JobInv, TypeOK
  <1>1. syncing[p] \in Streams /\ queue[p] # <<>>
    <2>1. syncing[p] # NoStream
      BY <1>t, StreamFields DEF SyncSucceeds, SyncFails, TypeOK
    <2> QED
      BY <1>t, <2>1 DEF JobsOK, Owned
  <1>2. UNCHANGED phase /\ (EndJob(p) \/ Fail(p)) /\ Release(p, Write(syncing[p]))
    BY DEF SyncSucceeds, SyncFails
  <1>3. /\ JobsOK' /\ Listed(p)' /\ syncing'[p] = NoStream
        /\ \A q \in Peers \ {p} :
             queue'[q] = queue[q] /\ marked'[q] = marked[q] /\ syncing'[q] = syncing[q]
    BY <1>t, <1>1, <1>2, EndJobEffect, FailEffect
  <1>4. Owned(p)'
    BY <1>1, <1>2, <1>3, WriteEnds
  <1>5. lock' \in [Peers -> Seq(Tasks)] /\ \A q \in Peers \ {p} : lock'[q] = lock[q]
    BY <1>t, <1>2, ReleaseEffect DEF TypeOK
  <1>6. \A q \in Peers : Listed(q)' /\ Owned(q)'
    BY <1>2, <1>3, <1>4, <1>5, OneJobEnds
  <1>7. CASE SyncSucceeds(p)
    <2>1. open' \subseteq Streams /\ timers' \subseteq Peers \X Streams
      BY <1>t, <1>7, CloseType DEF SyncSucceeds
    <2>2. history' \in [Peers -> SUBSET Peers]
      BY <1>t, <1>1, <1>7, StreamFields DEF SyncSucceeds, TypeOK
    <2> QED
      BY <1>t, <1>3, <1>5, <1>6, <1>7, <2>1, <2>2 DEF SyncSucceeds, JobInv, TypeOK
  <1>8. CASE SyncFails(p)
    BY <1>t, <1>3, <1>5, <1>6, <1>8 DEF SyncFails, streams, JobInv, TypeOK
  <1> QED
    BY <1>7, <1>8

\* The transactions that are not of the sync service's jobs.
LEMMA OthersJobs ==
  ASSUME JobInv, NEW p \in Peers, NEW task \in Tasks, task.kind # "write",
         Request(p, task) \/ Release(p, task), UNCHANGED service
  PROVE  /\ JobsOK' /\ lock' \in [Peers -> Seq(Tasks)]
         /\ \A q \in Peers : Listed(q)' /\ Owned(q)'
  <1>1. lock' \in [Peers -> Seq(Tasks)] /\ \A q \in Peers \ {p} : lock'[q] = lock[q]
    BY RequestEffect, ReleaseEffect DEF JobInv, TypeOK
  <1>2. UNCHANGED <<phase, queue, marked, attempt, syncing>>
    BY DEF service
  <1>3. Owned(p)'
    BY <1>2, RequestOwned, ReleaseOwned
  <1>4. JobsOK' /\ Listed(p)'
    BY <1>2, ListedKept DEF JobInv, TypeOK, JobsOK
  <1> QED
    BY <1>1, <1>2, <1>3, <1>4, OneJobEnds

LEMMA ServerJobs ==
  ASSUME JobInv, NEW s \in Streams, Incoming(s) \/ ReadEnds(s)
  PROVE  JobInv'
  <1>t. TypeOK
    BY DEF JobInv
  <1>1. s.to \in Peers /\ Read(s) \in Tasks /\ Read(s).kind # "write"
    BY StreamFields
  <1>2. UNCHANGED service
    BY DEF Incoming, ReadEnds
  <1>3. /\ JobsOK' /\ lock' \in [Peers -> Seq(Tasks)]
        /\ \A q \in Peers : Listed(q)' /\ Owned(q)'
    <2>1. CASE UNCHANGED lock
      BY <1>t, <1>2, <2>1, ElsewhereJobs DEF service, TypeOK
    <2>2. CASE ~UNCHANGED lock
      <3>1. Request(s.to, Read(s)) \/ Release(s.to, Read(s))
        BY <2>2 DEF Incoming, ReadEnds
      <3> QED
        BY <1>1, <1>2, <3>1, OthersJobs
    <2> QED
      BY <2>1, <2>2
  <1>4. open' \subseteq Streams /\ timers' \subseteq Peers \X Streams
    <2>1. CASE Close({s})
      BY <1>t, <2>1, CloseType
    <2>2. CASE ~Close({s})
      BY <1>t, <1>1, <2>2 DEF Incoming, ReadEnds, streams, TypeOK
    <2> QED
      BY <2>1, <2>2
  <1>5. unmarked' \subseteq Streams /\ arriving' \subseteq Streams
    BY <1>t DEF Incoming, ReadEnds, streams, TypeOK
  <1> QED
    BY <1>t, <1>2, <1>3, <1>4, <1>5 DEF Incoming, ReadEnds, service, streams, JobInv, TypeOK

LEMMA LocalMessage ==
  ASSUME NEW p \in Peers, NEW k \in 1..Appends[p]
  PROVE  <<p, k>> \in Messages /\ Local(<<p, k>>) \in Tasks /\ Local(<<p, k>>).kind = "local"
  <1>1. <<p, k>> \in Messages
    BY DEF Messages, Own
  <1> QED
    BY <1>1 DEF Local, Tasks

LEMMA LocalJobs ==
  ASSUME JobInv, NEW p \in Peers,
         (\E k \in 1..Appends[p] : LocalAppend(p, k)) \/ LocalCommit(p)
  PROVE  JobInv'
  <1>t. TypeOK
    BY DEF JobInv
  <1>1. CASE \E k \in 1..Appends[p] : LocalAppend(p, k)
    <2>1. PICK k \in 1..Appends[p] : LocalAppend(p, k)
      BY <1>1
    <2>2. /\ JobsOK' /\ lock' \in [Peers -> Seq(Tasks)]
          /\ \A q \in Peers : Listed(q)' /\ Owned(q)'
      BY <2>1, LocalMessage, OthersJobs DEF LocalAppend
    <2> QED
      BY <1>t, <2>1, <2>2 DEF LocalAppend, service, streams, JobInv, TypeOK
  <1>2. CASE LocalCommit(p)
    <2>1. lock[p] \in Seq(Tasks) /\ lock[p] # <<>>
      BY <1>t, <1>2 DEF LocalCommit, TypeOK
    <2>2. Head(lock[p]) \in Tasks /\ Head(lock[p]).kind = "local"
      BY <1>2, <2>1 DEF LocalCommit
    <2>3. Head(lock[p]).message \in Messages
      BY <2>2 DEF Tasks
    <2>4. /\ JobsOK' /\ lock' \in [Peers -> Seq(Tasks)]
          /\ \A q \in Peers : Listed(q)' /\ Owned(q)'
      BY <1>2, <2>2, OthersJobs DEF LocalCommit
    <2>5. log' \in [Peers -> SUBSET Messages]
      BY <1>t, <1>2, <2>3 DEF LocalCommit, TypeOK
    <2> QED
      BY <1>t, <1>2, <2>4, <2>5 DEF LocalCommit, service, streams, JobInv, TypeOK
  <1> QED
    BY <1>1, <1>2

\* stop keeps the job that has started, and with it the write it owns.
LEMMA StopJobs ==
  ASSUME JobInv, NEW p \in Peers, Stop(p) \/ Stopped(p)
  PROVE  JobInv'
  <1>t. TypeOK /\ JobsOK
    BY DEF JobInv, TypeOK
  <1>1. CASE Stop(p)
    <2>1. /\ queue' = [queue EXCEPT ![p] = Started(queue[p])]
          /\ UNCHANGED <<marked, attempt, syncing, lock>>
          /\ phase' = [phase EXCEPT ![p] = "stopping"]
      BY <1>1 DEF Stop, locks
    <2>2. /\ Started(queue[p]) \in Seq(Peers) /\ Distinct(Started(queue[p]))
          /\ ToSet(Started(queue[p])) \subseteq ToSet(queue[p])
          /\ queue[p] # <<>> =>
               Started(queue[p]) # <<>> /\ Head(Started(queue[p])) = Head(queue[p])
      <3>1. CASE queue[p] = <<>>
        BY <3>1 DEF Started, Distinct
      <3>2. CASE queue[p] # <<>>
        <4>1. queue[p] \in Seq(Peers) /\ Started(queue[p]) = <<queue[p][1]>> /\ 1 \in 1..Len(queue[p])
          BY <1>t, <3>2 DEF Started, JobsOK
        <4>2. queue[p][1] \in Peers /\ queue[p][1] \in ToSet(queue[p])
          BY <4>1 DEF ToSet
        <4>3. ToSet(<<queue[p][1]>>) = {queue[p][1]}
          BY DEF ToSet
        <4> QED
          BY <3>2, <4>1, <4>2, <4>3 DEF Distinct
      <3> QED
        BY <3>1, <3>2
    <2>3. JobsOK'
      BY <1>t, <2>1, <2>2 DEF JobsOK
    <2>4. queue'[p] = Started(queue[p]) /\ \A q \in Peers \ {p} : queue'[q] = queue[q]
      BY <1>t, <2>1 DEF JobsOK
    <2>5. phase'[p] = "stopping" /\ \A q \in Peers \ {p} : phase'[q] = phase[q]
      BY <1>t, <2>1 DEF TypeOK
    <2>6. \A q \in Peers : Owned(q)'
      BY <2>1, <2>2, <2>4, SameOwned DEF JobInv
    <2>7. Listed(p)'
      BY <2>1, <2>2, <2>4, <2>5 DEF JobInv, Listed
    <2>8. \A q \in Peers : Listed(q)'
      BY <2>1, <2>4, <2>5, <2>7, ListedKept DEF JobInv
    <2>9. open' \subseteq Streams /\ timers' \subseteq Peers \X Streams
      BY <1>t, <1>1, CloseType DEF Stop
    <2> QED
      BY <1>t, <1>1, <2>3, <2>6, <2>8, <2>9 DEF Stop, locks, JobInv, TypeOK
  <1>2. CASE Stopped(p)
    <2>1. \A q \in Peers : phase'[q] = "started" => phase[q] = "started"
      BY <1>t, <1>2 DEF Stopped, TypeOK
    <2>2. JobsOK' /\ \A q \in Peers : Listed(q)' /\ Owned(q)'
      BY <1>2, <2>1, ElsewhereJobs DEF Stopped, locks
    <2> QED
      BY <1>t, <1>2, <2>2 DEF Stopped, streams, locks, JobInv, TypeOK
  <1> QED
    BY <1>1, <1>2

LEMMA JobStep == JobInv /\ [Next]_vars => JobInv'
  <1> SUFFICES ASSUME JobInv, [Next]_vars
               PROVE  JobInv'
    OBVIOUS
  <1>t. TypeOK
    BY DEF JobInv
  <1>1. ASSUME NEW p \in Peers, NEW q \in Peers, Connect(p, q) \/ Disconnect(p, q) \/ OnConnect(p, q)
        PROVE  JobInv'
    BY <1>1, ConnectionJobs
  <1>2. ASSUME NEW p \in Peers, DialFails(p) \/ Dial(p) PROVE JobInv'
    BY <1>2, DialJobs
  <1>3. ASSUME NEW p \in Peers, SyncSucceeds(p) \/ SyncFails(p) PROVE JobInv'
    BY <1>3, SyncEndsJobs
  <1>4. ASSUME NEW s \in Streams, Incoming(s) \/ ReadEnds(s) PROVE JobInv'
    BY <1>4, ServerJobs
  <1>5. ASSUME NEW p \in Peers, (\E k \in 1..Appends[p] : LocalAppend(p, k)) \/ LocalCommit(p)
        PROVE  JobInv'
    BY <1>5, LocalJobs
  <1>6. ASSUME NEW p \in Peers, Stop(p) \/ Stopped(p) PROVE JobInv'
    BY <1>6, StopJobs
  <1>7. ASSUME NEW p \in Peers, NEW m \in Messages, Transfer(p, m) PROVE JobInv'
    <2>1. JobsOK' /\ \A q \in Peers : Listed(q)' /\ Owned(q)'
      BY <1>7, ElsewhereJobs DEF Transfer, service, locks
    <2>2. log' \in [Peers -> SUBSET Messages]
      BY <1>t, <1>7 DEF Transfer, TypeOK
    <2> QED
      BY <1>t, <1>7, <2>1, <2>2 DEF Transfer, service, streams, locks, JobInv, TypeOK
  <1>8. ASSUME NEW p \in Peers, NEW s \in Streams, Expire(p, s) PROVE JobInv'
    <2>1. JobsOK' /\ \A q \in Peers : Listed(q)' /\ Owned(q)'
      BY <1>8, ElsewhereJobs DEF Expire, service, locks
    <2>2. open' \subseteq Streams /\ timers' \subseteq Peers \X Streams
      BY <1>t, <1>8, CloseType DEF Expire
    <2> QED
      BY <1>t, <1>8, <2>1, <2>2 DEF Expire, service, locks, JobInv, TypeOK
  <1>9. CASE UNCHANGED vars
    <2>1. JobsOK' /\ \A q \in Peers : Listed(q)' /\ Owned(q)'
      BY <1>9, ElsewhereJobs DEF vars, service, locks
    <2> QED
      BY <1>t, <1>9, <2>1 DEF vars, service, streams, locks, JobInv, TypeOK
  <1> QED
    BY <1>1, <1>2, <1>3, <1>4, <1>5, <1>6, <1>7, <1>8, <1>9
       DEF Next, Environment, Callback, Accept, Attempt, Transact, Timeout

LEMMA JobInvariant == Spec => []JobInv
  BY InitJobs, JobStep, PTL DEF Spec

\* The sync service keeps its types; in particular no job makes more than
\* SYNC_RETRY_LIMIT attempts.
THEOREM TypeCorrect == Spec => []TypeOK
  <1>1. JobInv => TypeOK
    BY DEF JobInv
  <1> QED
    BY <1>1, JobInvariant, PTL

\* A peer is marked exactly while a sync with it is queued or running, and is
\* queued once.
THEOREM AlwaysMarkedIffQueued == Spec => []MarkedIffQueued
  <1>1. JobInv => MarkedIffQueued
    BY DEF JobInv, Listed, Distinct, MarkedIffQueued
  <1> QED
    BY <1>1, JobInvariant, PTL

\* The write that an attempt asked for belongs to the first job until it ends.
THEOREM WriteAlwaysOwned == Spec => []WriteOwned
  <1>1. JobInv => WriteOwned
    <2> SUFFICES ASSUME JobInv, NEW p \in Peers
                 PROVE  /\ \A i \in DOMAIN lock[p] :
                             lock[p][i].kind = "write" => lock[p][i].stream = syncing[p]
                        /\ syncing[p] # NoStream =>
                             /\ Target(p) = syncing[p].to
                             /\ Cardinality({i \in DOMAIN lock[p] : lock[p][i] = Write(syncing[p])}) = 1
      BY DEF WriteOwned
    <2>1. Owned(p)
      BY DEF JobInv
    <2>2. \A i \in DOMAIN lock[p] :
            lock[p][i].kind = "write" => lock[p][i].stream = syncing[p]
      BY <2>1 DEF Owned, Write
    <2>3. ASSUME syncing[p] # NoStream
          PROVE  Cardinality({i \in DOMAIN lock[p] : lock[p][i] = Write(syncing[p])}) = 1
      <3>1. PICK i \in DOMAIN lock[p] : lock[p][i] = Write(syncing[p])
        BY <2>1, <2>3 DEF Owned
      <3>2. \A j \in DOMAIN lock[p] : lock[p][j] = Write(syncing[p]) => j = i
        BY <2>1, <3>1 DEF Owned, Write
      <3>3. {j \in DOMAIN lock[p] : lock[p][j] = Write(syncing[p])} = {i}
        BY <3>1, <3>2
      <3> QED
        BY <3>3, FS_Singleton
    <2> QED
      BY <2>1, <2>2, <2>3 DEF Owned
  <1> QED
    BY <1>1, JobInvariant, PTL

-----------------------------------------------------------------------------
(* Discovery: who is in the cache was announced, or topics changed         *)

CacheStates == {"absent", "unheard", "fresh", "old", "stale"}

\* The jobs of the queue, and what they may be at.  An answer names peers.
Jobs ==
  {Presence!NoJob}
    \cup [at : {"asking"}, remote : Others, topic : Topics, mesh : SUBSET Others,
          more : SUBSET Topics]
    \cup [at : {"answered"}, remote : Others, more : SUBSET Topics, mesh : SUBSET Others,
          left : SUBSET Presence!Peers]

PresenceTypes ==
  /\ cache \in [Others -> CacheStates] /\ told \in [Others -> SUBSET Topics]
  /\ moved \in SUBSET Others /\ announced \in SUBSET Others

DiscoveryTypes ==
  /\ trackAll \in BOOLEAN /\ started \in BOOLEAN
  /\ running \in SUBSET Others /\ links \in SUBSET Others
  /\ topics \in [Presence!Peers -> SUBSET Topics] /\ PresenceTypes
  /\ flush \in {"set", "due", "done"}
  /\ expected \in SUBSET Others /\ wire \subseteq Others \X SUBSET Topics
  /\ asks \in Seq(Others) /\ job \in Jobs
  /\ changes \in Nat /\ lost \in Nat

DiscoveryInv == DiscoveryTypes /\ Presence!CacheAnnounced

-----------------------------------------------------------------------------
(* What the handlers do to the cache *)

LEMMA HandleKeeps ==
  ASSUME DiscoveryInv, NEW q \in Others, NEW on \in SUBSET Topics, NEW heard \in BOOLEAN,
         Presence!HandlePeerEvent(q, on, heard), UNCHANGED <<trackAll, topics>>
  PROVE  PresenceTypes' /\ Presence!CacheAnnounced'
  <1>1. PresenceTypes
    BY DEF DiscoveryInv, DiscoveryTypes
  <1>2. /\ cache' \in [Others -> CacheStates] /\ told' \in [Others -> SUBSET Topics]
        /\ told'[q] = on
        /\ \A p \in Others : p # q => cache'[p] = cache[p] /\ told'[p] = told[p]
    BY <1>1 DEF Presence!HandlePeerEvent, PresenceTypes, CacheStates
  <1>3. /\ announced \subseteq announced' /\ announced' \in SUBSET Others
        /\ moved \subseteq moved' /\ moved' \in SUBSET Others
        /\ cache[q] = "absent" /\ Presence!Shown(on) => q \in announced'
        /\ cache[q] # "absent" /\ on # told[q] => q \in moved'
    BY <1>1 DEF Presence!HandlePeerEvent, PresenceTypes
  <1>4. ASSUME NEW p \in Others, cache'[p] # "absent", Presence!Shown(told[p])'
        PROVE  p \in announced' \cup moved'
    <2>1. Presence!Shown(told'[p])
      BY <1>4 DEF Presence!Shown
    <2>2. CASE cache[p] # "absent" /\ told'[p] = told[p]
      BY <1>3, <2>1, <2>2 DEF DiscoveryInv, Presence!CacheAnnounced, Presence!Known
    <2>3. CASE cache[p] = "absent"
      <3>1. p = q
        BY <1>2, <1>4, <2>3
      <3> QED
        BY <1>2, <1>3, <2>1, <2>3, <3>1
    <2>4. CASE cache[p] # "absent" /\ told'[p] # told[p]
      <3>1. p = q
        BY <1>2, <2>4
      <3> QED
        BY <1>2, <1>3, <2>4, <3>1
    <2> QED
      BY <2>2, <2>3, <2>4
  <1> QED
    BY <1>2, <1>3, <1>4 DEF PresenceTypes, Presence!CacheAnnounced, Presence!Known

\* Nobody comes into the cache and no entry takes other topics.
LEMMA LessKnown ==
  ASSUME DiscoveryInv, trackAll' = trackAll, topics'[me] = topics[me],
         \A q \in Others : cache'[q] # "absent" =>
           /\ cache[q] # "absent" /\ told'[q] = told[q]
           /\ q \in announced \cup moved => q \in announced' \cup moved'
  PROVE  Presence!CacheAnnounced'
  <1>1. ASSUME NEW p \in Others, cache'[p] # "absent", Presence!Shown(told[p])'
        PROVE  p \in announced' \cup moved'
    <2>1. Presence!Shown(told[p])
      BY <1>1 DEF Presence!Shown
    <2> QED
      BY <1>1, <2>1 DEF DiscoveryInv, Presence!CacheAnnounced, Presence!Known
  <1> QED
    BY <1>1 DEF Presence!CacheAnnounced, Presence!Known

LEMMA DeleteKeeps ==
  ASSUME DiscoveryInv, NEW gone \in SUBSET Others, Presence!Delete(gone),
         UNCHANGED <<trackAll, topics>>
  PROVE  PresenceTypes' /\ Presence!CacheAnnounced'
  <1>1. PresenceTypes
    BY DEF DiscoveryInv, DiscoveryTypes
  <1>2. /\ \A q \in Others : /\ cache'[q] = IF q \in gone THEN "absent" ELSE cache[q]
                             /\ told'[q] = IF q \in gone THEN {} ELSE told[q]
        /\ announced' = announced \ gone /\ moved' = moved \ gone
    BY DEF Presence!Delete
  <1>3. cache' \in [Others -> CacheStates] /\ told' \in [Others -> SUBSET Topics]
    BY <1>1 DEF Presence!Delete, PresenceTypes, CacheStates
  <1>4. Presence!CacheAnnounced'
    BY <1>2, LessKnown
  <1> QED
    BY <1>1, <1>2, <1>3, <1>4 DEF PresenceTypes

LEMMA DisconnectKeeps ==
  ASSUME DiscoveryInv, NEW q \in Others, Presence!OnDisconnect(q), UNCHANGED <<trackAll, topics>>
  PROVE  PresenceTypes' /\ links' \in SUBSET Others /\ Presence!CacheAnnounced'
  <1>1. PICK gone \in SUBSET Others : Presence!Delete(gone)
    BY DEF Presence!OnDisconnect
  <1>2. links' \in SUBSET Others
    BY DEF Presence!OnDisconnect, DiscoveryInv, DiscoveryTypes
  <1> QED
    BY <1>1, <1>2, DeleteKeeps

\* What the queue does leaves the cache alone until an answer is taken.
LEMMA GoOnKeeps ==
  ASSUME DiscoveryInv, NEW remote \in Others, NEW more \in SUBSET Topics,
         Presence!GoOn(remote, more)
  PROVE  job' \in Jobs
  <1>1. PICK passed \in SUBSET more :
          \/ job' = Presence!NoJob
          \/ \E t \in more \ passed : \E mesh \in SUBSET Presence!Subscribers(t) :
               job' = [at |-> "asking", remote |-> remote, topic |-> t, mesh |-> mesh,
                       more |-> more \ (passed \cup {t})]
    BY DEF Presence!GoOn
  <1>2. \A t : Presence!Subscribers(t) \subseteq Others
    BY DEF Presence!Subscribers, DiscoveryInv, DiscoveryTypes
  <1>3. CASE job' = Presence!NoJob
    BY <1>3 DEF Jobs
  <1>4. ASSUME NEW t \in more \ passed, NEW mesh \in SUBSET Presence!Subscribers(t),
               job' = [at |-> "asking", remote |-> remote, topic |-> t, mesh |-> mesh,
                       more |-> more \ (passed \cup {t})]
        PROVE  job' \in Jobs
    <2>1. mesh \in SUBSET Others /\ t \in Topics /\ more \ (passed \cup {t}) \in SUBSET Topics
      BY <1>2
    <2> QED
      BY <1>4, <2>1 DEF Jobs
  <1> QED
    BY <1>1, <1>3, <1>4

\* The steps that touch neither cache nor announcements keep what holds of them.
LEMMA StillAnnounced ==
  ASSUME DiscoveryInv, UNCHANGED <<trackAll, topics, Presence!presence>>
  PROVE  PresenceTypes' /\ Presence!CacheAnnounced'
  <1>1. UNCHANGED <<cache, told, moved, announced>>
    BY DEF Presence!presence
  <1>2. PresenceTypes'
    BY <1>1 DEF DiscoveryInv, DiscoveryTypes, PresenceTypes
  <1> QED
    BY <1>1, <1>2, LessKnown

-----------------------------------------------------------------------------
(* Steps *)

LEMMA DiscoveryInvInit ==
  ASSUME Presence!ConstantsFit, Presence!Init
  PROVE  DiscoveryInv
  <1>1. TrackAll \subseteq BOOLEAN /\ Subscriptions \in [Presence!Peers -> SUBSET Topics]
    BY DEF Presence!ConstantsFit
  <1>2. DiscoveryTypes
    BY <1>1 DEF Presence!Init, DiscoveryTypes, PresenceTypes, CacheStates, Jobs
  <1>3. Presence!CacheAnnounced
    BY DEF Presence!Init, Presence!CacheAnnounced, Presence!Known
  <1> QED
    BY <1>2, <1>3 DEF DiscoveryInv

\* Peers, links and subscriptions come and go.
LEMMA ChangesKeep ==
  ASSUME Presence!ConstantsFit, DiscoveryInv,
         \/ Presence!BeforeStop
         \/ \E p \in Presence!Peers, u \in Topics : Presence!Move(p, u)
         \/ \E q \in Others : \/ Presence!Join(q) \/ Presence!Part(q)
                             \/ Presence!Disconnect(q) \/ Presence!Connect(q)
  PROVE  DiscoveryInv'
  <1>1. DiscoveryTypes
    BY DEF DiscoveryInv
  <1>2. ASSUME NEW q \in Others, Presence!Join(q) PROVE DiscoveryInv'
    <2>1. PresenceTypes' /\ Presence!CacheAnnounced'
      BY <1>2, StillAnnounced DEF Presence!Join
    <2> QED
      BY <1>1, <1>2, <2>1 DEF Presence!Join, Presence!Change, DiscoveryInv, DiscoveryTypes
  <1>3. ASSUME NEW q \in Others, Presence!Part(q) PROVE DiscoveryInv'
    <2>1. PresenceTypes' /\ links' \in SUBSET Others /\ Presence!CacheAnnounced'
      BY <1>3, DisconnectKeeps DEF Presence!Part
    <2> QED
      BY <1>1, <1>3, <2>1 DEF Presence!Part, Presence!Change, DiscoveryInv, DiscoveryTypes
  <1>4. ASSUME NEW q \in Others, Presence!Disconnect(q) PROVE DiscoveryInv'
    <2>1. PresenceTypes' /\ links' \in SUBSET Others /\ Presence!CacheAnnounced'
      BY <1>4, DisconnectKeeps DEF Presence!Disconnect
    <2> QED
      BY <1>1, <1>4, <2>1 DEF Presence!Disconnect, Presence!Change, DiscoveryInv, DiscoveryTypes
  <1>5. ASSUME NEW q \in Others, Presence!Connect(q) PROVE DiscoveryInv'
    <2>1. PresenceTypes' /\ Presence!CacheAnnounced'
      BY <1>5, StillAnnounced DEF Presence!Connect
    <2>2. asks' \in Seq(Others)
      BY <1>1, <1>5 DEF Presence!Connect, DiscoveryTypes
    <2> QED
      BY <1>1, <1>5, <2>1, <2>2 DEF Presence!Connect, Presence!Change, DiscoveryInv, DiscoveryTypes
  <1>6. CASE Presence!BeforeStop
    <2>1. PresenceTypes' /\ Presence!CacheAnnounced'
      BY <1>6, StillAnnounced DEF Presence!BeforeStop
    <2>2. asks' \in Seq(Others) /\ started' \in BOOLEAN
      <3>1. asks' = <<>> /\ started' = FALSE
        BY <1>6 DEF Presence!BeforeStop
      <3>2. asks' \in Seq(Others)
        BY <3>1, EmptySeq
      <3>3. started' \in BOOLEAN
        BY <3>1
      <3> QED
        BY <3>2, <3>3
    <2>3. changes' \in Nat
      BY <1>1, <1>6 DEF Presence!BeforeStop, Presence!Change, DiscoveryTypes
    <2>4. UNCHANGED <<trackAll, running, links, topics, lost, flush, expected, wire, job>>
      BY <1>6 DEF Presence!BeforeStop
    <2> QED
      BY <1>1, <2>1, <2>2, <2>3, <2>4 DEF DiscoveryInv, DiscoveryTypes
  <1>7. ASSUME NEW p \in Presence!Peers, NEW u \in Topics, Presence!Move(p, u) PROVE DiscoveryInv'
    <2>1. topics' \in [Presence!Peers -> SUBSET Topics]
      BY <1>1, <1>7 DEF Presence!Move, DiscoveryTypes
    <2>2. UNCHANGED <<trackAll, started, running, links, lost, cache, told, announced, flush,
                      expected, wire, asks, job>>
      BY <1>7 DEF Presence!Move
    <2>3. PresenceTypes'
      BY <1>1, <1>7, <2>2 DEF Presence!Move, Presence!Known, DiscoveryTypes, PresenceTypes
    <2>4. ASSUME p = me PROVE Presence!CacheAnnounced'
      <3>1. moved' = Presence!Known
        BY <1>7, <2>4 DEF Presence!Move
      <3>2. Presence!Known' = Presence!Known
        BY <2>2 DEF Presence!Known
      <3> QED
        BY <3>1, <3>2 DEF Presence!CacheAnnounced
    <2>5. ASSUME p # me PROVE Presence!CacheAnnounced'
      <3>1. topics'[me] = topics[me] /\ moved' = moved
        BY <1>1, <1>7, <2>5 DEF Presence!Move, DiscoveryTypes, Presence!Peers
      <3>2. trackAll' = trackAll /\ cache' = cache /\ told' = told /\ announced' = announced
        BY <2>2
      <3> QED
        BY <3>1, <3>2, LessKnown
    <2>6. changes' \in Nat
      BY <1>1, <1>7 DEF Presence!Move, Presence!Change, DiscoveryTypes
    <2> QED
      BY <1>1, <2>1, <2>2, <2>3, <2>4, <2>5, <2>6 DEF DiscoveryInv, DiscoveryTypes
  <1> QED
    BY <1>2, <1>3, <1>4, <1>5, <1>6, <1>7

\* Heartbeats, evictions and timers.
LEMMA BeatsKeep ==
  ASSUME DiscoveryInv,
         \/ Presence!Flush \/ Presence!Tick
         \/ \E q \in Others : \/ Presence!Send(q) \/ Presence!Evict(q)
                             \/ \E on \in SUBSET Topics :
                                  Presence!Deliver(q, on) \/ Presence!Lose(q, on)
  PROVE  DiscoveryInv'
  <1>1. DiscoveryTypes
    BY DEF DiscoveryInv
  <1>2. ASSUME NEW q \in Others, Presence!Send(q) PROVE DiscoveryInv'
    <2>1. PresenceTypes' /\ Presence!CacheAnnounced'
      BY <1>2, StillAnnounced DEF Presence!Send, Presence!world
    <2>2. topics[q] \in SUBSET Topics
      BY <1>1 DEF DiscoveryTypes, Presence!Peers
    <2>3. wire' \subseteq Others \X SUBSET Topics
      BY <1>1, <1>2, <2>2 DEF Presence!Send, DiscoveryTypes
    <2> QED
      BY <1>1, <1>2, <2>1, <2>3 DEF Presence!Send, Presence!world, DiscoveryInv, DiscoveryTypes
  <1>3. ASSUME NEW q \in Others, NEW on \in SUBSET Topics, Presence!Deliver(q, on)
        PROVE  DiscoveryInv'
    <2>1. PresenceTypes' /\ Presence!CacheAnnounced'
      BY <1>3, HandleKeeps DEF Presence!Deliver, Presence!world
    <2> QED
      BY <1>1, <1>3, <2>1 DEF Presence!Deliver, Presence!world, DiscoveryInv, DiscoveryTypes
  <1>4. ASSUME NEW q \in Others, NEW on \in SUBSET Topics, Presence!Lose(q, on)
        PROVE  DiscoveryInv'
    <2>1. PresenceTypes' /\ Presence!CacheAnnounced'
      BY <1>4, StillAnnounced DEF Presence!Lose
    <2> QED
      BY <1>1, <1>4, <2>1 DEF Presence!Lose, DiscoveryInv, DiscoveryTypes
  <1>5. ASSUME NEW q \in Others, Presence!Evict(q) PROVE DiscoveryInv'
    <2>1. PresenceTypes' /\ Presence!CacheAnnounced'
      BY <1>5, DeleteKeeps DEF Presence!Evict, Presence!world
    <2> QED
      BY <1>1, <1>5, <2>1 DEF Presence!Evict, Presence!world, DiscoveryInv, DiscoveryTypes
  <1>6. CASE Presence!Flush
    <2>1. PresenceTypes' /\ Presence!CacheAnnounced'
      <3>1. {p \in Others : cache[p] = "unheard"} \in SUBSET Others
        OBVIOUS
      <3> QED
        BY <1>6, <3>1, DeleteKeeps DEF Presence!Flush, Presence!world
    <2> QED
      BY <1>1, <1>6, <2>1 DEF Presence!Flush, Presence!world, DiscoveryInv, DiscoveryTypes
  <1>7. CASE Presence!Tick
    <2>1. \A p \in Others : cache'[p] = CASE cache[p] = "fresh" -> "old"
                                          [] cache[p] = "old" -> "stale" [] OTHER -> cache[p]
      BY <1>7 DEF Presence!Tick
    <2>2. cache' \in [Others -> CacheStates]
      <3>1. \A p \in Others : cache'[p] \in CacheStates
        BY <1>1, <2>1 DEF DiscoveryTypes, PresenceTypes, CacheStates
      <3>2. cache' = [p \in Others |-> cache'[p]]
        BY <1>7 DEF Presence!Tick
      <3> QED
        BY <3>1, <3>2
    <2>3. Presence!CacheAnnounced'
      <3>1. \A p \in Others : cache'[p] # "absent" => cache[p] # "absent"
        BY <2>1
      <3>2. UNCHANGED <<trackAll, topics, told, moved, announced>>
        BY <1>7 DEF Presence!Tick, Presence!world
      <3> QED
        BY <3>1, <3>2, LessKnown
    <2>4. PresenceTypes'
      BY <1>1, <1>7, <2>2 DEF Presence!Tick, DiscoveryTypes, PresenceTypes
    <2> QED
      BY <1>1, <1>7, <2>3, <2>4 DEF Presence!Tick, Presence!world, DiscoveryInv, DiscoveryTypes
  <1> QED
    BY <1>2, <1>3, <1>4, <1>5, <1>6, <1>7

\* The jobs of passive discovery.
LEMMA JobsKeep ==
  ASSUME Presence!ConstantsFit, DiscoveryInv, Presence!NextJob \/ Presence!Fetched \/ Presence!TakePeer
  PROVE  DiscoveryInv'
  <1>1. DiscoveryTypes
    BY DEF DiscoveryInv
  <1>2. /\ topics[me] \in SUBSET Topics
        /\ \A q \in Others : Presence!Heard(q) \subseteq SUBSET Topics
    BY <1>1 DEF Presence!ConstantsFit, Presence!Peers, Presence!Heard, DiscoveryTypes
  <1>3. CASE Presence!NextJob
    <2>1. Head(asks) \in Others /\ asks' \in Seq(Others)
      BY <1>1, <1>3, HeadTailProperties DEF Presence!NextJob, DiscoveryTypes
    <2>2. job' \in Jobs
      BY <1>2, <1>3, <2>1, GoOnKeeps DEF Presence!NextJob
    <2>3. PresenceTypes' /\ Presence!CacheAnnounced'
      BY <1>3, StillAnnounced DEF Presence!NextJob, Presence!world
    <2> QED
      BY <1>1, <1>3, <2>1, <2>2, <2>3
         DEF Presence!NextJob, Presence!world, DiscoveryInv, DiscoveryTypes
  <1>4. CASE Presence!Fetched
    <2>1. /\ job \in [at : {"asking"}, remote : Others, topic : Topics, mesh : SUBSET Others,
                     more : SUBSET Topics]
      BY <1>1, <1>4 DEF Presence!Fetched, DiscoveryTypes, Jobs, Presence!NoJob
    <2>2. job' \in Jobs
      <3>1. CASE Presence!GoOn(job.remote, job.more)
        BY <2>1, <3>1, GoOnKeeps
      <3>2. ASSUME NEW left, left \in SUBSET Presence!Peers,
                   job' = [at |-> "answered", remote |-> job.remote, more |-> job.more,
                           mesh |-> job.mesh, left |-> left]
            PROVE  job' \in Jobs
        BY <2>1, <3>2 DEF Jobs
      <3> QED
        BY <1>4, <3>1, <3>2 DEF Presence!Fetched
    <2>3. PresenceTypes' /\ Presence!CacheAnnounced'
      BY <1>4, StillAnnounced DEF Presence!Fetched, Presence!world
    <2> QED
      BY <1>1, <1>4, <2>2, <2>3 DEF Presence!Fetched, Presence!world, DiscoveryInv, DiscoveryTypes
  <1>5. CASE Presence!TakePeer
    <2>1. job \in [at : {"answered"}, remote : Others, more : SUBSET Topics,
                   mesh : SUBSET Others, left : SUBSET Presence!Peers]
      BY <1>1, <1>5 DEF Presence!TakePeer, DiscoveryTypes, Jobs, Presence!NoJob
    <2>2. UNCHANGED <<Presence!world, flush, expected, wire, asks>>
      BY <1>5 DEF Presence!TakePeer
    <2>3. CASE job' \in Jobs /\ UNCHANGED Presence!presence
      <3>1. PresenceTypes' /\ Presence!CacheAnnounced'
        BY <2>2, <2>3, StillAnnounced DEF Presence!world
      <3> QED
        BY <1>1, <2>2, <2>3, <3>1 DEF Presence!world, DiscoveryInv, DiscoveryTypes
    <2>4. ASSUME NEW q \in job.left \ ({me} \cup job.mesh), NEW on \in Presence!Heard(q),
                 job' = [job EXCEPT !.left = @ \ {q}], Presence!HandlePeerEvent(q, on, FALSE)
          PROVE  DiscoveryInv'
      <3>1. q \in Others
        BY <2>1, <2>4 DEF Presence!Peers
      <3>2. PresenceTypes' /\ Presence!CacheAnnounced'
        BY <1>2, <2>2, <2>4, <3>1, HandleKeeps DEF Presence!world
      <3>3. job' \in Jobs
        BY <2>1, <2>4 DEF Jobs
      <3> QED
        BY <1>1, <2>2, <3>2, <3>3 DEF Presence!world, DiscoveryInv, DiscoveryTypes
    <2>5. Presence!GoOn(job.remote, job.more) => job' \in Jobs
      BY <2>1, GoOnKeeps
    <2>6. job' = Presence!NoJob => job' \in Jobs
      BY DEF Jobs
    <2> QED
      BY <1>5, <2>3, <2>4, <2>5, <2>6 DEF Presence!TakePeer
  <1> QED
    BY <1>3, <1>4, <1>5

LEMMA DiscoveryInvNext ==
  ASSUME Presence!ConstantsFit, DiscoveryInv, [Presence!Next]_(Presence!vars)
  PROVE  DiscoveryInv'
  <1>1. CASE UNCHANGED Presence!vars
    <2>1. PresenceTypes' /\ Presence!CacheAnnounced'
      BY <1>1, StillAnnounced DEF Presence!vars, Presence!world
    <2> QED
      BY <1>1, <2>1 DEF Presence!vars, Presence!world, DiscoveryInv, DiscoveryTypes
  <1> QED
    BY <1>1, ChangesKeep, BeatsKeep, JobsKeep DEF Presence!Next, Presence!ConstantsFit

-----------------------------------------------------------------------------

\* Whoever is in the cache as one to be shown was announced since its entry was
\* made (discovery/service.ts:523-558), except who had its entry already when it or
\* this peer changed topics: for any peers, topics and options, whichever way
\* heartbeats, answers, evictions, links and changes of topics interleave.
THEOREM AlwaysAnnounced ==
  ASSUME Presence!ConstantsFit PROVE Presence!Spec => []CacheAnnounced
  <1>1. DiscoveryInv => CacheAnnounced
    BY DEF DiscoveryInv, CacheAnnounced
  <1>2. Presence!Init => DiscoveryInv
    BY DiscoveryInvInit
  <1>3. DiscoveryInv /\ [Presence!Next]_(Presence!vars) => DiscoveryInv'
    BY DiscoveryInvNext
  <1> QED
    BY <1>1, <1>2, <1>3, PTL DEF Presence!Spec
=============================================================================
