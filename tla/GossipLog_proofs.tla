--------------------------- MODULE GossipLog_proofs ---------------------------
(***************************************************************************)
(* Proofs about GossipLog, for every set of messages and every set of      *)
(* configurations: types, heads and tips, and then the causal order -      *)
(* delivery, closure under parents, the ancestor index, the mempool and    *)
(* the refinement of CausalLog.                                            *)
(***************************************************************************)
EXTENDS GossipLog, SequenceTheorems, TLAPS

-----------------------------------------------------------------------------
(* The stack of calls of #insert *)

\* Changing the top call keeps the depth and the calls below it.
LEMMA MovedShape ==
  ASSUME stack \in Seq(Frame), stack # <<>>,
         NEW at \in Phases, NEW todo \in SUBSET Ids
  PROVE  /\ Moved(at, todo) \in Seq(Frame)
         /\ Len(Moved(at, todo)) = Depth
         /\ Moved(at, todo)[Depth] = [id |-> Top.id, at |-> at, todo |-> todo]
         /\ \A i \in 1..Depth : i # Depth => Moved(at, todo)[i] = stack[i]
         /\ Depth \in 1..Depth
  <1>1. Depth \in Nat /\ Depth >= 1 /\ Top \in Frame
    BY DEF Depth, Top
  <1>2. [id |-> Top.id, at |-> at, todo |-> todo] \in Frame
    BY <1>1 DEF Frame
  <1> QED
    BY <1>1, <1>2 DEF Moved, Depth

\* Pushing a call keeps the calls below it.
LEMMA PushShape ==
  ASSUME NEW s \in Seq(Frame), NEW f \in Frame
  PROVE  /\ Append(s, f) \in Seq(Frame)
         /\ Len(Append(s, f)) = Len(s) + 1
         /\ Append(s, f)[Len(s) + 1] = f
         /\ \A i \in 1..Len(s) : Append(s, f)[i] = s[i]
  OBVIOUS

\* Returning drops the top call.
LEMMA PopShape ==
  ASSUME stack \in Seq(Frame), stack # <<>>
  PROVE  /\ SubSeq(stack, 1, Depth - 1) \in Seq(Frame)
         /\ Len(SubSeq(stack, 1, Depth - 1)) = Depth - 1
         /\ \A i \in 1..(Depth - 1) : SubSeq(stack, 1, Depth - 1)[i] = stack[i]
  <1>1. Depth \in Nat /\ Depth >= 1
    BY DEF Depth
  <1>2. \A i \in 1..(Depth - 1) : stack[i] \in Frame
    BY <1>1 DEF Depth
  <1>3. Depth - 1 \in Int /\ (Depth - 1) - 1 + 1 = Depth - 1
    BY <1>1
  <1> QED
    BY <1>1, <1>2, <1>3, SubSeqProperties

\* The first call of a transaction.
LEMMA FirstFrame ==
  ASSUME NEW m \in Ids
  PROVE  /\ NewFrame(m) \in Frame
         /\ <<NewFrame(m)>> \in Seq(Frame)
         /\ Len(<<NewFrame(m)>>) = 1
         /\ <<NewFrame(m)>>[1] = [id |-> m, at |-> "apply", todo |-> {}]
  BY DEF NewFrame, Frame, Phases

-----------------------------------------------------------------------------
(* Types *)

LEMMA ConfigFields ==
  ASSUME ConstantsAssumption, config \in Configs
  PROVE  /\ IndexAncestors \in BOOLEAN /\ Rollback \in BOOLEAN /\ Durable \in BOOLEAN
         /\ ApplyMayThrow \in BOOLEAN /\ ClosedPeers \in BOOLEAN
         /\ Rollback => Durable
  BY DEF ConstantsAssumption, ConfigType, IndexAncestors, Rollback, Durable, ApplyMayThrow,
         ClosedPeers

LEMMA InitType == Init => TypeOK
  BY EmptySeq DEF Init, TypeOK, Stores, Snapshot

LEMMA SignType ==
  ASSUME TypeOK, NEW m \in Ids, NEW P \in SUBSET Ids, Sign(m, P)
  PROVE  /\ created' \subseteq Ids
         /\ parents' \in [Ids -> SUBSET Ids]
         /\ clock' \in [Ids -> Nat]
  <1>1. PICK c \in {0} \cup {clock[p] : p \in P} : clock' = [clock EXCEPT ![m] = c + 1]
    BY DEF Sign
  <1>2. c \in Nat
    BY <1>1 DEF TypeOK
  <1> QED
    BY <1>1, <1>2 DEF Sign, TypeOK

LEMMA MempoolAddType ==
  ASSUME TypeOK, NEW m \in Ids, MempoolAdd(m)
  PROVE  /\ pending' \subseteq Ids
         /\ missing' \in [Ids -> SUBSET Ids]
         /\ waiting' \in [Ids -> SUBSET Ids]
  <1>1. Absent(m) \in SUBSET Ids
    BY DEF Absent, TypeOK
  <1> QED
    BY <1>1 DEF MempoolAdd, TypeOK

LEMMA TopType ==
  ASSUME TypeOK, stack # <<>>
  PROVE  Top \in Frame /\ Top.id \in Ids /\ Top.at \in Phases /\ Top.todo \subseteq Ids
         /\ Depth \in Nat /\ Depth >= 1 /\ Depth \in 1..Depth
  <1>1. stack \in Seq(Frame)
    BY DEF TypeOK
  <1>2. Depth \in Nat /\ Depth >= 1
    BY <1>1 DEF Depth
  <1>3. Top \in Frame
    BY <1>1, <1>2 DEF Top, Depth
  <1> QED
    BY <1>2, <1>3 DEF Frame

LEMMA AdvanceType ==
  ASSUME TypeOK, stack # <<>>, NEW at \in Phases, NEW todo \in SUBSET Ids, Advance(at, todo)
  PROVE  stack' \in Seq(Frame)
  BY MovedShape DEF TypeOK, Advance

LEMMA SnapshotType ==
  ASSUME TypeOK
  PROVE  Snapshot \in Stores
  BY DEF TypeOK, Snapshot, Stores

LEMMA AbortType ==
  ASSUME TypeOK, Abort
  PROVE  /\ config' = config /\ created' = created /\ parents' = parents /\ clock' = clock
         /\ messages' \subseteq Ids /\ heads' \subseteq Ids /\ indexed' \subseteq Ids
         /\ committed' \in Stores
         /\ op' = "idle" /\ source' = {} /\ stack' = <<>> /\ stack' \in Seq(Frame)
  <1>1. config' = config /\ created' = created /\ parents' = parents /\ clock' = clock
        /\ op' = "idle" /\ source' = {} /\ stack' = <<>> /\ stack' \in Seq(Frame)
    BY EmptySeq DEF Abort
  <1>2. CASE Rollback
    BY <1>1, <1>2 DEF Abort, TypeOK, Stores
  <1>3. CASE ~Rollback
    BY <1>1, <1>3, SnapshotType DEF Abort, TypeOK, store
  <1> QED
    BY <1>1, <1>2, <1>3

LEMMA TypeStep == TypeOK /\ [Next]_vars => TypeOK'
  <1> SUFFICES ASSUME TypeOK, [Next]_vars
               PROVE  TypeOK'
    OBVIOUS
  <1> USE DEF network, store, mempool
  <1>a. ASSUME NEW m \in Ids, RemoteAppend(m) PROVE TypeOK'
    <2>1. PICK P \in SUBSET shared : Sign(m, P)
      BY <1>a DEF RemoteAppend
    <2>2. P \in SUBSET Ids
      BY DEF TypeOK
    <2> QED
      BY <1>a, <2>1, <2>2, SignType DEF RemoteAppend, TypeOK
  <1>b. ASSUME NEW m \in Ids, AppendMessage(m) PROVE TypeOK'
    <2>1. heads \in SUBSET Ids
      BY DEF TypeOK
    <2> QED
      BY <1>b, <2>1, SignType, FirstFrame DEF AppendMessage, TypeOK
  <1>c. ASSUME NEW m \in Ids, InsertDefer(m) PROVE TypeOK'
    BY <1>c, MempoolAddType DEF InsertDefer, TypeOK
  <1>d. ASSUME NEW m \in Ids, InsertNow(m) PROVE TypeOK'
    BY <1>d, MempoolAddType, FirstFrame DEF InsertNow, TypeOK
  <1>e. ASSUME NEW S \in SUBSET Ids, SyncOpen(S) PROVE TypeOK'
    BY <1>e DEF SyncOpen, TypeOK
  <1>f. ASSUME NEW m \in Ids, SyncInsert(m) PROVE TypeOK'
    BY <1>f, FirstFrame DEF SyncInsert, TypeOK
  <1>g. CASE Apply
    BY <1>g, TopType, AdvanceType DEF Apply, TypeOK, Phases
  <1>h. CASE SetMessage
    BY <1>h, TopType, AdvanceType DEF SetMessage, TypeOK, Phases
  <1>i. CASE SetHead
    <2>1. parents[Top.id] \in SUBSET Ids
      BY <1>i, TopType DEF SetHead, TypeOK
    <2> QED
      BY <1>i, <2>1, TopType, AdvanceType DEF SetHead, TypeOK, Phases
  <1>j. ASSUME NEW p \in Ids, PruneHead(p) PROVE TypeOK'
    <2>1. Top.todo \ {p} \in SUBSET Ids
      BY <1>j, TopType DEF PruneHead
    <2> QED
      BY <1>j, <2>1, TopType, AdvanceType DEF PruneHead, TypeOK, Phases
  <1>k. CASE Pruned
    BY <1>k, TopType, AdvanceType DEF Pruned, TypeOK, Phases
  <1>l. CASE SetAncestors
    <2>1. waiting[Top.id] \in SUBSET Ids
      BY <1>l, TopType DEF SetAncestors, TypeOK
    <2>2. indexed' \subseteq Ids
      BY <1>l, TopType DEF SetAncestors, TypeOK
    <2>3. stack' \in Seq(Frame)
      BY <1>l, <2>1, AdvanceType DEF SetAncestors, Phases
    <2> QED
      BY <1>l, <2>2, <2>3 DEF SetAncestors, TypeOK
  <1>m. ASSUME NEW c \in Ids, ObserveBlocked(c) PROVE TypeOK'
    <2>1. Top.todo \ {c} \in SUBSET Ids
      BY <1>m, TopType DEF ObserveBlocked
    <2> QED
      BY <1>m, <2>1, AdvanceType DEF ObserveBlocked, TypeOK, Phases
  <1>n. ASSUME NEW c \in Ids, ObserveReady(c) PROVE TypeOK'
    <2>1. Top.todo \ {c} \in SUBSET Ids
      BY <1>n, TopType DEF ObserveReady
    <2>2. Moved("observe", Top.todo \ {c}) \in Seq(Frame)
      BY <1>n, <2>1, MovedShape DEF ObserveReady, TypeOK, Phases
    <2>3. stack' \in Seq(Frame)
      BY <1>n, <2>2, PushShape, FirstFrame DEF ObserveReady
    <2> QED
      BY <1>n, <2>3 DEF ObserveReady, TypeOK
  <1>o. CASE Return
    BY <1>o, PopShape DEF Return, TypeOK
  <1>p. CASE Commit
    BY <1>p, SnapshotType DEF Commit, TypeOK
  <1>q. ASSUME Abort, UNCHANGED <<mempool, applied>> PROVE TypeOK'
    <2>1. shared' \subseteq Ids
      BY <1>q, AbortType DEF Abort, TypeOK, Stores
    <2> QED
      BY <1>q, <2>1, AbortType DEF TypeOK
  <1>r. CASE Crash
    <2>1. Abort
      BY <1>r DEF Crash
    <2>2. shared' \subseteq Ids
      BY <2>1, AbortType DEF Abort, TypeOK, Stores
    <2> QED
      BY <1>r, <2>1, <2>2, AbortType DEF Crash, TypeOK
  <1>s. CASE UNCHANGED vars
    BY <1>s DEF vars, TypeOK
  <1> QED
    BY <1>a, <1>b, <1>c, <1>d, <1>e, <1>f, <1>g, <1>h, <1>i, <1>j, <1>k, <1>l, <1>m, <1>n, <1>o,
       <1>p, <1>q, <1>r, <1>s DEF Next, Body, ApplyThrows, InternalThrows, SyncThrows

\* The variables keep their types.
THEOREM TypeCorrect == Spec => []TypeOK
  <1>1. Init => TypeOK
    BY InitType
  <1>2. TypeOK /\ [Next]_vars => TypeOK'
    BY TypeStep
  <1> QED
    BY <1>1, <1>2, PTL DEF Spec

-----------------------------------------------------------------------------
(* The shape of the stack of an open transaction *)

Frames == 1..Depth

\* Every call but the innermost is suspended in the loop over observe; a call
\* has stored its message once it is past messages.set.
Shape ==
  /\ Idle => stack = <<>>
  /\ \A i \in Frames : i # Depth => stack[i].at = "observe"
  /\ \A i \in Frames : stack[i].id \in created
  /\ \A i \in Frames : stack[i].at \notin {"apply", "store"} => stack[i].id \in messages
  /\ \A i \in Frames : stack[i].at = "prune" => stack[i].todo \subseteq parents[stack[i].id]

LEMMA FramesOfTop ==
  ASSUME TypeOK, stack # <<>>
  PROVE  /\ Depth \in Frames /\ Frames \subseteq Nat /\ Depth \in Nat
         /\ \A i \in Frames : stack[i] \in Frame /\ stack[i].id \in Ids
  <1>1. stack \in Seq(Frame)
    BY DEF TypeOK
  <1>2. Depth \in Nat /\ Depth >= 1
    BY <1>1 DEF Depth
  <1>3. \A i \in Frames : stack[i] \in Frame
    BY <1>1, <1>2 DEF Frames, Depth
  <1> QED
    BY <1>2, <1>3 DEF Frames, Frame

LEMMA NoFrames ==
  ASSUME stack = <<>>
  PROVE  Depth = 0 /\ Frames = {}
  BY DEF Depth, Frames

\* The frames after the innermost call moves on, calls, or returns.
LEMMA AdvanceFrames ==
  ASSUME TypeOK, stack # <<>>, NEW at \in Phases, NEW todo \in SUBSET Ids, Advance(at, todo)
  PROVE  /\ Depth' = Depth /\ Frames' = Frames
         /\ stack'[Depth] = [id |-> Top.id, at |-> at, todo |-> todo]
         /\ \A i \in Frames : i # Depth => stack'[i] = stack[i]
         /\ Depth \in Frames
  BY MovedShape, ZenonT(30) DEF TypeOK, Advance, Depth, Frames

LEMMA PushFrames ==
  ASSUME TypeOK, stack # <<>>, NEW c \in Ids, NEW todo \in SUBSET Ids,
         stack' = Append(Moved("observe", todo), NewFrame(c))
  PROVE  /\ Depth' = Depth + 1 /\ Frames' = Frames \cup {Depth + 1} /\ Depth \in Frames
         /\ Depth + 1 \notin Frames
         /\ stack'[Depth + 1] = NewFrame(c)
         /\ stack'[Depth] = [id |-> Top.id, at |-> "observe", todo |-> todo]
         /\ \A i \in Frames : i # Depth => stack'[i] = stack[i]
  <1>1. /\ Moved("observe", todo) \in Seq(Frame)
        /\ Len(Moved("observe", todo)) = Depth
        /\ Moved("observe", todo)[Depth] = [id |-> Top.id, at |-> "observe", todo |-> todo]
        /\ \A i \in 1..Depth : i # Depth => Moved("observe", todo)[i] = stack[i]
        /\ Depth \in 1..Depth
    BY MovedShape DEF TypeOK, Phases
  <1>2. NewFrame(c) \in Frame
    BY FirstFrame
  <1>3. /\ Len(stack') = Depth + 1
        /\ stack'[Depth + 1] = NewFrame(c)
        /\ \A i \in 1..Depth : stack'[i] = Moved("observe", todo)[i]
    BY <1>1, <1>2, PushShape
  <1>4. Depth \in Nat /\ Depth' = Depth + 1
    BY <1>3, FramesOfTop DEF Depth
  <1> QED
    BY <1>1, <1>3, <1>4 DEF Frames

LEMMA PopFrames ==
  ASSUME TypeOK, stack # <<>>, stack' = SubSeq(stack, 1, Depth - 1)
  PROVE  /\ Depth' = Depth - 1 /\ Frames' = Frames \ {Depth}
         /\ \A i \in Frames' : stack'[i] = stack[i] /\ i # Depth
  <1>1. /\ Len(stack') = Depth - 1
        /\ \A i \in 1..(Depth - 1) : stack'[i] = stack[i]
    BY PopShape DEF TypeOK
  <1>2. Depth \in Nat /\ Depth' = Depth - 1
    BY <1>1, FramesOfTop DEF Depth
  <1> QED
    BY <1>1, <1>2 DEF Frames

LEMMA FirstFrames ==
  ASSUME NEW m \in Ids, stack' = <<NewFrame(m)>>
  PROVE  Depth' = 1 /\ Frames' = {1} /\ stack'[1] = [id |-> m, at |-> "apply", todo |-> {}]
  <1>1. Depth' = 1 /\ stack'[1] = [id |-> m, at |-> "apply", todo |-> {}]
    BY FirstFrame DEF Depth
  <1> QED
    BY <1>1 DEF Frames

LEMMA AdvanceKeepsShape ==
  ASSUME TypeOK, Shape, stack # <<>>, NEW at \in Phases, NEW todo \in SUBSET Ids, Advance(at, todo),
         UNCHANGED <<network, op>>, messages \subseteq messages',
         at \notin {"apply", "store"} => Top.id \in messages',
         at = "prune" => todo \subseteq parents[Top.id]
  PROVE  Shape'
  <1>1. ~Idle'
    BY DEF Shape, Idle
  <1>2. /\ Depth' = Depth /\ Frames' = Frames /\ Depth \in Frames
        /\ stack'[Depth] = [id |-> Top.id, at |-> at, todo |-> todo]
        /\ \A i \in Frames : i # Depth => stack'[i] = stack[i]
    BY AdvanceFrames
  <1>3. Top.id \in created
    BY <1>2 DEF Shape, Top
  <1>4. created' = created /\ parents' = parents
    BY DEF network
  <1>5. stack'[Depth].id = Top.id /\ stack'[Depth].at = at /\ stack'[Depth].todo = todo
    BY <1>2
  <1>6. \A i \in Frames' : i # Depth' => stack'[i].at = "observe"
    BY <1>2 DEF Shape
  <1>7. \A i \in Frames' : stack'[i].id \in created'
    BY <1>2, <1>3, <1>4, <1>5 DEF Shape
  <1>8. \A i \in Frames' : stack'[i].at \notin {"apply", "store"} => stack'[i].id \in messages'
    BY <1>2, <1>5 DEF Shape
  <1>9. \A i \in Frames' : stack'[i].at = "prune" => stack'[i].todo \subseteq parents'[stack'[i].id]
    BY <1>2, <1>4, <1>5 DEF Shape
  <1> QED
    BY <1>1, <1>6, <1>7, <1>8, <1>9 DEF Shape

LEMMA FirstKeepsShape ==
  ASSUME NEW m \in Ids, stack' = <<NewFrame(m)>>, ~Idle', m \in created'
  PROVE  Shape'
  BY FirstFrames DEF Shape

LEMMA EmptyKeepsShape ==
  ASSUME stack' = <<>>
  PROVE  Shape'
  <1>1. Depth' = 0 /\ Frames' = {}
    BY DEF Depth, Frames
  <1> QED
    BY <1>1 DEF Shape

\* Signing changes nothing about the messages that exist.
LEMMA SignKeeps ==
  ASSUME TypeOK, NEW m \in Ids, NEW P \in SUBSET Ids, Sign(m, P)
  PROVE  /\ created' = created \cup {m} /\ m \notin created
         /\ parents'[m] = P
         /\ \A x \in created : parents'[x] = parents[x] /\ clock'[x] = clock[x]
         /\ \A p \in P : p \in created => clock'[p] < clock'[m]
         /\ clock' \in [Ids -> Nat]
  <1>1. PICK c \in {0} \cup {clock[p] : p \in P} :
          IsLatest(c, P) /\ clock' = [clock EXCEPT ![m] = c + 1]
    BY DEF Sign
  <1>2. c \in Nat
    BY <1>1 DEF TypeOK
  <1>3. clock'[m] = c + 1 /\ \A x \in Ids : x # m => clock'[x] = clock[x]
    BY <1>1 DEF TypeOK
  <1>4. \A p \in P : clock[p] <= c /\ clock[p] \in Nat
    BY <1>1 DEF IsLatest, TypeOK
  <1>5. \A p \in P : p \in created => clock'[p] < clock'[m]
    BY <1>2, <1>3, <1>4 DEF Sign
  <1> QED
    BY <1>3, <1>5, SignType DEF Sign, TypeOK

-----------------------------------------------------------------------------
(* What the stores and the mempool refer to exists *)

\* Parents are signed before their children, and have smaller clocks.
ParentsFirst == \A m \in created : \A p \in parents[m] : p \in created /\ clock[p] < clock[m]

Known ==
  /\ shared \subseteq created /\ messages \subseteq created
  /\ pending \subseteq created /\ source \subseteq created
  /\ committed.messages \subseteq created
  /\ StoresAgree
  /\ ParentsFirst
  /\ \A c \in pending : missing[c] \subseteq parents[c]
  /\ Idle /\ Rollback => Snapshot = committed

Base == TypeOK /\ Shape /\ Known

LEMMA SnapshotFields ==
  /\ Snapshot.messages = messages /\ Snapshot.heads = heads /\ Snapshot.indexed = indexed
  BY DEF Snapshot

LEMMA InitBase == Init => Base
  <1> SUFFICES ASSUME Init PROVE Base
    OBVIOUS
  <1>1. TypeOK
    BY InitType
  <1>2. Shape
    BY NoFrames DEF Init, Shape
  <1>3. committed.messages = {} /\ committed.heads = {} /\ committed.indexed = {}
    BY SnapshotFields DEF Init
  <1>4. Known
    BY <1>3 DEF Init, Known, StoresAgree, ParentsFirst
  <1> QED
    BY <1>1, <1>2, <1>4 DEF Base

LEMMA SignKeepsParentsFirst ==
  ASSUME TypeOK, ParentsFirst, NEW m \in Ids, NEW P \in SUBSET Ids, Sign(m, P), P \subseteq created
  PROVE  ParentsFirst'
  <1>1. /\ created' = created \cup {m} /\ m \notin created
        /\ parents'[m] = P
        /\ \A x \in created : parents'[x] = parents[x] /\ clock'[x] = clock[x]
        /\ \A p \in P : p \in created => clock'[p] < clock'[m]
    BY SignKeeps
  <1>2. ASSUME NEW x \in created', NEW p \in parents'[x]
        PROVE  p \in created' /\ clock'[p] < clock'[x]
    <2>1. CASE x = m
      BY <1>1, <2>1
    <2>2. CASE x # m
      <3>1. x \in created /\ p \in parents[x] /\ p \in created /\ clock[p] < clock[x]
        BY <1>1, <2>2, <1>2 DEF ParentsFirst
      <3> QED
        BY <1>1, <3>1
    <2> QED
      BY <2>1, <2>2
  <1> QED
    BY <1>2 DEF ParentsFirst

LEMMA AbortKeepsKnown ==
  ASSUME Base, Abort, pending' \subseteq pending,
         \A c \in pending' : missing'[c] \subseteq missing[c]
  PROVE  Known' /\ Shape'
  <1>1. /\ config' = config /\ created' = created /\ parents' = parents /\ clock' = clock
        /\ op' = "idle" /\ source' = {} /\ stack' = <<>>
    BY DEF Abort
  <1>2. Shape'
    BY <1>1, EmptyKeepsShape
  <1>3. Rollback' = Rollback
    BY <1>1 DEF Rollback
  <1>4. /\ messages' \subseteq created /\ committed'.messages \subseteq created
        /\ StoresAgree' /\ (Rollback => Snapshot' = committed')
    <2>1. CASE Rollback
      <3>1. /\ messages' = committed.messages /\ heads' = committed.heads
            /\ indexed' = committed.indexed /\ committed' = committed
        BY <2>1 DEF Abort
      <3>2. Snapshot' = committed'
        BY <3>1 DEF Snapshot, Base, TypeOK, Stores
      <3> QED
        BY <3>1, <3>2 DEF Base, Known, StoresAgree
    <2>2. CASE ~Rollback
      <3>1. /\ messages' = messages /\ heads' = heads /\ indexed' = indexed
            /\ committed' = Snapshot
        BY <2>2 DEF Abort, store
      <3> QED
        BY <3>1, <2>2, SnapshotFields DEF Base, Known, StoresAgree
    <2> QED
      BY <2>1, <2>2
  <1>5. shared' \subseteq created
    BY <1>4 DEF Abort, Base, Known
  <1>6. ParentsFirst'
    BY <1>1 DEF ParentsFirst, Base, Known
  <1> QED
    BY <1>1, <1>2, <1>3, <1>4, <1>5, <1>6 DEF Base, Known

\* A step of the body that only writes to the stores.
LEMMA WriteKeepsKnown ==
  ASSUME Base, UNCHANGED <<network, committed, op, source>>, stack # <<>>,
         messages' \subseteq created, StoresAgree',
         pending' \subseteq pending, \A c \in pending' : missing'[c] \subseteq missing[c]
  PROVE  Known'
  <1>1. ~Idle /\ ~Idle'
    BY DEF Base, Shape, Idle
  <1>2. ParentsFirst'
    BY DEF network, ParentsFirst, Base, Known
  <1> QED
    BY <1>1, <1>2 DEF Base, Known, network

\* Of the step of a call: the innermost call and its message.
LEMMA TopKnown ==
  ASSUME Base, stack # <<>>
  PROVE  /\ Top.id \in created /\ Top.id \in Ids /\ Top.at \in Phases /\ Top.todo \subseteq Ids
         /\ Top.at \notin {"apply", "store"} => Top.id \in messages
         /\ Top.at = "prune" => Top.todo \subseteq parents[Top.id]
         /\ ~Idle /\ parents[Top.id] \subseteq Ids
  <1>1. Depth \in Frames
    BY FramesOfTop DEF Base
  <1> QED
    BY <1>1, TopType DEF Base, Shape, Top, TypeOK

LEMMA SignedKnown ==
  ASSUME Base, NEW m \in Ids, NEW P \in SUBSET created, Sign(m, P),
         shared' \subseteq created', messages' = messages, heads' = heads, indexed' = indexed,
         committed' = committed, pending' = pending, missing' = missing, source' = source,
         config' = config, Idle
  PROVE  Known'
  <1>1. P \in SUBSET Ids
    BY DEF Base, TypeOK
  <1>2. ParentsFirst'
    BY <1>1, SignKeepsParentsFirst DEF Base, Known
  <1>3. /\ created' = created \cup {m}
        /\ \A x \in created : parents'[x] = parents[x]
    BY <1>1, SignKeeps DEF Base
  <1>4. Snapshot' = Snapshot /\ Rollback' = Rollback
    BY DEF Snapshot, Rollback
  <1> QED
    BY <1>2, <1>3, <1>4 DEF Base, Known, StoresAgree

LEMMA BaseStep == Base /\ [Next]_vars => Base'
  <1> SUFFICES ASSUME Base, [Next]_vars
               PROVE  Shape' /\ Known'
    BY TypeStep DEF Base
  <1> USE DEF mempool
  <1>t. TypeOK /\ Shape /\ Known
    BY DEF Base
  <1>a. ASSUME NEW m \in Ids, RemoteAppend(m) PROVE Shape' /\ Known'
    <2>1. PICK P \in SUBSET shared : Sign(m, P)
      BY <1>a DEF RemoteAppend
    <2>2. P \in SUBSET created
      BY <1>t DEF Known
    <2>3. m \in created' /\ created \subseteq created'
      BY <2>1 DEF Sign
    <2>4. Known'
      BY <1>a, <1>t, <2>1, <2>2, <2>3, SignedKnown DEF RemoteAppend, store, Known
    <2>5. stack' = <<>>
      BY <1>a, <1>t DEF RemoteAppend, Shape
    <2> QED
      BY <2>4, <2>5, EmptyKeepsShape
  <1>b. ASSUME NEW m \in Ids, AppendMessage(m) PROVE Shape' /\ Known'
    <2>1. heads \in SUBSET created
      BY <1>t DEF Known, StoresAgree
    <2>2. m \in created' /\ created \subseteq created' /\ shared' \subseteq created'
      BY <1>b, <1>t DEF AppendMessage, Sign, Known
    <2>3. Known'
      BY <1>b, <2>1, <2>2, SignedKnown DEF AppendMessage, store
    <2>4. Shape'
      BY <1>b, <2>2, FirstKeepsShape DEF AppendMessage, Idle
    <2> QED
      BY <2>3, <2>4
  <1>c. ASSUME NEW m \in Ids, m \in shared, Idle, MempoolAdd(m) \/ UNCHANGED mempool,
               UNCHANGED <<network, store, committed, source>>
        PROVE  Known'
    <2>1. m \in created
      BY <1>c, <1>t DEF Known
    <2>2. pending' \subseteq created /\ \A c \in pending' : missing'[c] \subseteq parents[c]
      <3>1. CASE UNCHANGED mempool
        BY <3>1, <1>t DEF Known
      <3>2. CASE MempoolAdd(m)
        <4>1. \A c \in pending' : missing'[c] = IF c = m THEN Absent(m) ELSE missing[c]
          BY <3>2, <1>t DEF MempoolAdd, TypeOK, Known
        <4> QED
          BY <3>2, <4>1, <2>1, <1>t DEF MempoolAdd, Absent, Known
      <3> QED
        BY <1>c, <3>1, <3>2
    <2>3. Snapshot' = Snapshot /\ Rollback' = Rollback /\ committed' = committed
      BY <1>c DEF Snapshot, Rollback, network, store
    <2>4. ParentsFirst' /\ StoresAgree'
      BY <1>c, <1>t DEF Known, ParentsFirst, StoresAgree, network, store
    <2> QED
      BY <1>c, <1>t, <2>2, <2>3, <2>4 DEF Known, network, store
  <1>d. ASSUME NEW m \in Ids, InsertDefer(m) PROVE Shape' /\ Known'
    <2>1. Known'
      BY <1>c, <1>d DEF InsertDefer
    <2>2. stack' = <<>>
      BY <1>d, <1>t DEF InsertDefer, Shape
    <2> QED
      BY <2>1, <2>2, EmptyKeepsShape
  <1>e. ASSUME NEW m \in Ids, InsertNow(m) PROVE Shape' /\ Known'
    <2>1. Known'
      BY <1>c, <1>e DEF InsertNow
    <2>2. m \in created'
      BY <1>e, <1>t DEF InsertNow, network, Known
    <2> QED
      BY <1>e, <2>1, <2>2, FirstKeepsShape DEF InsertNow, Idle
  <1>f. ASSUME NEW S \in SUBSET Ids, SyncOpen(S) PROVE Shape' /\ Known'
    <2>1. stack' = <<>>
      BY <1>f, <1>t DEF SyncOpen, Shape
    <2>2. ParentsFirst' /\ StoresAgree' /\ ~Idle'
      BY <1>f, <1>t DEF SyncOpen, network, store, Known, ParentsFirst, StoresAgree, Idle
    <2>3. Known'
      BY <1>f, <1>t, <2>2 DEF SyncOpen, network, store, Known
    <2> QED
      BY <2>1, <2>3, EmptyKeepsShape
  <1>g. ASSUME NEW m \in Ids, SyncInsert(m) PROVE Shape' /\ Known'
    <2>1. m \in created' /\ ~Idle'
      BY <1>g, <1>t DEF SyncInsert, SyncYields, network, Known, Idle
    <2>2. ParentsFirst' /\ StoresAgree'
      BY <1>g, <1>t DEF SyncInsert, network, store, Known, ParentsFirst, StoresAgree
    <2>3. Known'
      BY <1>g, <1>t, <2>1, <2>2 DEF SyncInsert, network, store, Known
    <2> QED
      BY <1>g, <2>1, <2>3, FirstKeepsShape DEF SyncInsert
  <1>h. CASE Apply
    <2>1. Shape'
      BY <1>h, <1>t, AdvanceKeepsShape DEF Apply, Phases, store
    <2>2. StoresAgree' /\ messages' \subseteq created
      BY <1>h, <1>t DEF Apply, store, Known, StoresAgree
    <2> QED
      BY <1>h, <2>1, <2>2, WriteKeepsKnown DEF Apply
  <1>i. CASE SetMessage
    <2>1. Shape'
      BY <1>i, <1>t, AdvanceKeepsShape DEF SetMessage, Phases
    <2>2. StoresAgree' /\ messages' \subseteq created
      BY <1>i, <1>t, TopKnown DEF SetMessage, Known, StoresAgree
    <2> QED
      BY <1>i, <2>1, <2>2, WriteKeepsKnown DEF SetMessage
  <1>j. CASE SetHead
    <2>1. Top.id \in messages /\ parents[Top.id] \in SUBSET Ids
      BY <1>j, TopKnown DEF SetHead
    <2>2. Shape'
      BY <1>j, <1>t, <2>1, AdvanceKeepsShape DEF SetHead, Phases
    <2>3. StoresAgree' /\ messages' \subseteq created
      BY <1>j, <1>t, <2>1 DEF SetHead, Known, StoresAgree
    <2> QED
      BY <1>j, <2>2, <2>3, WriteKeepsKnown DEF SetHead
  <1>k. ASSUME NEW p \in Ids, PruneHead(p) PROVE Shape' /\ Known'
    <2>1. Top.id \in messages /\ Top.todo \ {p} \in SUBSET Ids /\ Top.todo \subseteq parents[Top.id]
      BY <1>k, TopKnown DEF PruneHead
    <2>2. Shape'
      BY <1>k, <1>t, <2>1, AdvanceKeepsShape DEF PruneHead, Phases
    <2>3. StoresAgree' /\ messages' \subseteq created
      BY <1>k, <1>t DEF PruneHead, Known, StoresAgree
    <2> QED
      BY <1>k, <2>2, <2>3, WriteKeepsKnown DEF PruneHead
  <1>l. CASE Pruned
    <2>1. Top.id \in messages
      BY <1>l, TopKnown DEF Pruned
    <2>2. Shape'
      BY <1>l, <1>t, <2>1, AdvanceKeepsShape DEF Pruned, Phases, store
    <2>3. StoresAgree' /\ messages' \subseteq created
      BY <1>l, <1>t DEF Pruned, store, Known, StoresAgree
    <2> QED
      BY <1>l, <2>2, <2>3, WriteKeepsKnown DEF Pruned
  <1>m. CASE SetAncestors
    <2>1. Top.id \in messages /\ waiting[Top.id] \in SUBSET Ids
      BY <1>m, <1>t, TopKnown DEF SetAncestors, TypeOK
    <2>2. Shape'
      BY <1>m, <1>t, <2>1, AdvanceKeepsShape DEF SetAncestors, Phases
    <2>3. StoresAgree' /\ messages' \subseteq created
      BY <1>m, <1>t, <2>1 DEF SetAncestors, Known, StoresAgree
    <2> QED
      BY <1>m, <2>2, <2>3, WriteKeepsKnown DEF SetAncestors
  <1>n. ASSUME NEW c \in Ids, ObserveBlocked(c) PROVE Shape' /\ Known'
    <2>1. Top.id \in messages /\ Top.todo \ {c} \in SUBSET Ids
      BY <1>n, TopKnown DEF ObserveBlocked
    <2>2. Shape'
      BY <1>n, <1>t, <2>1, AdvanceKeepsShape DEF ObserveBlocked, Phases, store
    <2>3. StoresAgree' /\ messages' \subseteq created
      BY <1>n, <1>t DEF ObserveBlocked, store, Known, StoresAgree
    <2>4. \A x \in pending' : missing'[x] \subseteq missing[x]
      BY <1>n, <1>t DEF ObserveBlocked, TypeOK
    <2> QED
      BY <1>n, <2>2, <2>3, <2>4, WriteKeepsKnown DEF ObserveBlocked
  <1>o. ASSUME NEW c \in Ids, ObserveReady(c) PROVE Shape' /\ Known'
    <2>1. Top.id \in messages /\ Top.id \in created /\ Top.todo \ {c} \in SUBSET Ids
      BY <1>o, TopKnown DEF ObserveReady
    <2>2. c \in created /\ ~Idle'
      BY <1>o, <1>t, TopKnown DEF ObserveReady, Known, Idle
    <2>3. /\ Depth' = Depth + 1 /\ Frames' = Frames \cup {Depth + 1} /\ Depth \in Frames
          /\ Depth + 1 \notin Frames
          /\ stack'[Depth + 1] = NewFrame(c)
          /\ stack'[Depth] = [id |-> Top.id, at |-> "observe", todo |-> Top.todo \ {c}]
          /\ \A i \in Frames : i # Depth => stack'[i] = stack[i]
      BY <1>o, <1>t, <2>1, PushFrames DEF ObserveReady
    <2>4. \A i \in Frames : /\ stack'[i].id = stack[i].id /\ stack'[i].at = "observe"
                            /\ stack'[i].id \in created /\ stack'[i].id \in messages
      BY <1>t, <2>1, <2>3 DEF Shape, Top
    <2>5. stack'[Depth + 1].id = c /\ stack'[Depth + 1].at = "apply"
      BY <2>3 DEF NewFrame
    <2>6. Shape'
      BY <1>o, <2>2, <2>3, <2>4, <2>5 DEF Shape, ObserveReady, network, store
    <2>7. StoresAgree' /\ messages' \subseteq created
      BY <1>o, <1>t DEF ObserveReady, store, Known, StoresAgree
    <2>8. \A x \in pending' : missing'[x] \subseteq missing[x]
      BY <1>o, <1>t DEF ObserveReady, TypeOK
    <2> QED
      BY <1>o, <2>6, <2>7, <2>8, WriteKeepsKnown DEF ObserveReady
  <1>p. CASE Return
    <2>1. /\ Depth' = Depth - 1 /\ Frames' = Frames \ {Depth}
          /\ \A i \in Frames' : stack'[i] = stack[i] /\ i # Depth
      BY <1>p, <1>t, PopFrames DEF Return
    <2>2. ~Idle' /\ created' = created /\ messages' = messages /\ parents' = parents
      BY <1>p, TopKnown DEF Return, Idle, network, store
    <2>3. Shape'
      BY <1>t, <2>1, <2>2 DEF Shape
    <2>4. StoresAgree' /\ messages' \subseteq created
      BY <1>p, <1>t DEF Return, store, Known, StoresAgree
    <2> QED
      BY <1>p, <2>3, <2>4, WriteKeepsKnown DEF Return
  <1>q. CASE Commit
    <2>1. stack' = <<>>
      BY <1>q DEF Commit
    <2>2. /\ committed'.messages = messages /\ committed'.heads = heads
          /\ committed'.indexed = indexed
      BY <1>q, SnapshotFields DEF Commit
    <2>3. StoresAgree' /\ ParentsFirst' /\ Snapshot' = committed'
      BY <1>q, <1>t, <2>2 DEF Commit, store, Known, StoresAgree, ParentsFirst, Snapshot
    <2>4. Known'
      BY <1>q, <1>t, <2>2, <2>3 DEF Commit, store, Known
    <2> QED
      BY <2>1, <2>4, EmptyKeepsShape
  <1>r. ASSUME Abort, UNCHANGED <<mempool, applied>> PROVE Shape' /\ Known'
    BY <1>r, AbortKeepsKnown
  <1>s. CASE Crash
    BY <1>s, AbortKeepsKnown DEF Crash
  <1>u. CASE UNCHANGED vars
    <2>1. Depth' = Depth /\ Frames' = Frames /\ Snapshot' = Snapshot
      BY <1>u DEF vars, Depth, Frames, Snapshot, store
    <2>2. Shape'
      BY <1>u, <1>t, <2>1 DEF Shape, vars, Idle, network, store
    <2>3. Known'
      BY <1>u, <1>t, <2>1 DEF Known, vars, Idle, network, store, Rollback, ParentsFirst, StoresAgree
    <2> QED
      BY <2>2, <2>3
  <1> QED
    BY <1>a, <1>b, <1>d, <1>e, <1>f, <1>g, <1>h, <1>i, <1>j, <1>k, <1>l, <1>m, <1>n, <1>o,
       <1>p, <1>q, <1>r, <1>s, <1>u DEF Next, Body, ApplyThrows, InternalThrows, SyncThrows

\* The basic invariant, on which the others rest.
LEMMA BaseInvariant == Spec => []Base
  BY InitBase, BaseStep, PTL DEF Spec

\* Heads and ancestor entries are of messages in the log.
THEOREM StoresAlwaysAgree == Spec => []StoresAgree
  <1>1. Base => StoresAgree
    BY DEF Base, Known
  <1> QED
    BY <1>1, BaseInvariant, PTL

-----------------------------------------------------------------------------
(* No tip is lost *)

\* m has an entry in H or a child in M.
Covered(m, M, H) == m \in H \/ \E c \in M : m \in parents[c]

CommittedTips ==
  Atomic => \A m \in committed.messages : Covered(m, committed.messages, committed.heads)

TipsInv == Base /\ TipsCovered /\ CommittedTips

LEMMA AdvanceInFlight ==
  ASSUME TypeOK, Shape, stack # <<>>, NEW at \in Phases, NEW todo \in SUBSET Ids, Advance(at, todo)
  PROVE  InFlight' = IF at = "head" THEN {Top.id} ELSE {}
  <1>1. /\ Depth' = Depth /\ Frames' = Frames /\ Depth \in Frames
        /\ stack'[Depth] = [id |-> Top.id, at |-> at, todo |-> todo]
        /\ \A i \in Frames : i # Depth => stack'[i] = stack[i]
    BY AdvanceFrames
  <1>2. \A i \in Frames : i # Depth => stack'[i].at = "observe"
    BY <1>1 DEF Shape
  <1>3. stack'[Depth].at = at /\ stack'[Depth].id = Top.id
    BY <1>1
  <1>4. InFlight' = {stack'[i].id : i \in {j \in Frames : stack'[j].at = "head"}}
    BY <1>1 DEF InFlight, Frames
  <1> QED
    BY <1>1, <1>2, <1>3, <1>4

LEMMA NotAtHead ==
  ASSUME Base, stack = <<>> \/ Top.at # "head"
  PROVE  InFlight = {}
  <1>1. CASE stack = <<>>
    BY <1>1, NoFrames DEF InFlight, Frames
  <1>2. CASE stack # <<>>
    BY <1>2, FramesOfTop DEF InFlight, Base, Shape, Frames, Top
  <1> QED
    BY <1>1, <1>2

LEMMA InitTips == Init => TipsInv
  <1> SUFFICES ASSUME Init PROVE TipsInv
    OBVIOUS
  <1>1. Base
    BY InitBase
  <1>2. messages = {} /\ committed.messages = {}
    BY SnapshotFields DEF Init
  <1> QED
    BY <1>1, <1>2 DEF TipsInv, TipsCovered, CommittedTips

\* A step that neither stores a message nor touches heads, and that leaves no
\* message in flight.
LEMMA IdleTips ==
  ASSUME TipsInv, messages' = messages, heads' = heads, config' = config,
         InFlight = {}, \A m \in messages : parents'[m] = parents[m]
  PROVE  TipsCovered'
  BY DEF TipsInv, TipsCovered, Atomic, Rollback, Durable

LEMMA SameCommittedTips ==
  ASSUME TipsInv, committed' = committed, config' = config,
         \A m \in created : parents'[m] = parents[m]
  PROVE  CommittedTips'
  BY DEF TipsInv, CommittedTips, Covered, Atomic, Rollback, Durable, Base, Known

LEMMA AbortTips ==
  ASSUME TipsInv, Abort, Atomic => Rollback \/ stack = <<>> \/ Top.at # "head"
  PROVE  TipsCovered' /\ CommittedTips'
  <1>1. config' = config /\ parents' = parents /\ (Atomic' <=> Atomic)
    BY DEF Abort, Atomic, Rollback, Durable
  <1>2. CASE ~Atomic
    BY <1>1, <1>2 DEF TipsCovered, CommittedTips
  <1>3. CASE Atomic /\ Rollback
    <2>1. messages' = committed.messages /\ heads' = committed.heads /\ committed' = committed
      BY <1>3 DEF Abort
    <2> QED
      BY <1>1, <1>3, <2>1 DEF TipsInv, TipsCovered, CommittedTips, Covered
  <1>4. CASE Atomic /\ ~Rollback
    <2>1. /\ messages' = messages /\ heads' = heads
          /\ committed'.messages = messages /\ committed'.heads = heads
      BY <1>4, SnapshotFields DEF Abort, store
    <2>2. InFlight = {}
      BY <1>4, NotAtHead DEF TipsInv
    <2> QED
      BY <1>1, <1>4, <2>1, <2>2 DEF TipsInv, TipsCovered, CommittedTips, Covered
  <1> QED
    BY <1>2, <1>3, <1>4

LEMMA TipsStep == TipsInv /\ [Next]_vars => TipsInv'
  <1> SUFFICES ASSUME TipsInv, [Next]_vars
               PROVE  TipsCovered' /\ CommittedTips'
    BY BaseStep DEF TipsInv
  <1> USE DEF network
  <1>t. Base /\ TypeOK /\ Shape /\ messages \subseteq created /\ StoresAgree
    BY DEF TipsInv, Base, Known
  <1>a. ASSUME NEW m \in Ids, RemoteAppend(m) \/ AppendMessage(m) PROVE TipsCovered' /\ CommittedTips'
    <2>1. PICK P \in SUBSET Ids : Sign(m, P)
      BY <1>a, <1>t DEF RemoteAppend, AppendMessage, TypeOK
    <2>2. \A x \in created : parents'[x] = parents[x]
      BY <2>1, <1>t, SignKeeps
    <2>3. InFlight = {}
      BY <1>a, <1>t, NotAtHead DEF RemoteAppend, AppendMessage, Shape
    <2> QED
      BY <1>a, <1>t, <2>2, <2>3, IdleTips, SameCommittedTips DEF RemoteAppend, AppendMessage, store
  <1>b. ASSUME NEW m \in Ids, InsertDefer(m) \/ InsertNow(m) \/ SyncInsert(m)
        PROVE TipsCovered' /\ CommittedTips'
    <2>1. InFlight = {}
      BY <1>b, <1>t, NotAtHead DEF InsertDefer, InsertNow, SyncInsert, SyncYields, Shape
    <2> QED
      BY <1>b, <2>1, IdleTips, SameCommittedTips DEF InsertDefer, InsertNow, SyncInsert, store
  <1>c. ASSUME NEW S \in SUBSET Ids, SyncOpen(S) PROVE TipsCovered' /\ CommittedTips'
    <2>1. InFlight = {}
      BY <1>c, <1>t, NotAtHead DEF SyncOpen, Shape
    <2> QED
      BY <1>c, <2>1, IdleTips, SameCommittedTips DEF SyncOpen, store
  <1>d. CASE Apply \/ Pruned \/ Return \/ \E c \in Ids : ObserveBlocked(c) \/ ObserveReady(c)
    <2>1. Top.at # "head"
      BY <1>d DEF Apply, Pruned, Return, ObserveBlocked, ObserveReady
    <2>2. InFlight = {}
      BY <1>t, <2>1, NotAtHead
    <2>3. UNCHANGED <<network, store, committed>>
      BY <1>d DEF Apply, Pruned, Return, ObserveBlocked, ObserveReady
    <2> QED
      BY <2>2, <2>3, IdleTips, SameCommittedTips DEF store
  <1>e. CASE SetAncestors
    <2>1. InFlight = {}
      BY <1>e, <1>t, NotAtHead DEF SetAncestors
    <2> QED
      BY <1>e, <2>1, IdleTips, SameCommittedTips DEF SetAncestors
  <1>f. CASE SetMessage
    <2>1. InFlight = {} /\ InFlight' = {Top.id}
      BY <1>f, <1>t, NotAtHead, AdvanceInFlight DEF SetMessage, Phases
    <2>2. TipsCovered'
      BY <1>f, <2>1 DEF SetMessage, TipsInv, TipsCovered, Atomic, Rollback, Durable
    <2> QED
      BY <1>f, <2>2, SameCommittedTips DEF SetMessage
  <1>g. CASE SetHead
    <2>1. parents[Top.id] \in SUBSET Ids /\ Top.id \in messages
      BY <1>g, <1>t, TopKnown DEF SetHead
    <2>2. InFlight' = {}
      BY <1>g, <1>t, <2>1, AdvanceInFlight DEF SetHead, Phases
    <2>3. \A i \in 1..Depth : stack[i].at = "head" => stack[i].id = Top.id
      BY <1>g, <1>t DEF Shape, Frames, Top
    <2>4. InFlight \subseteq {Top.id}
      BY <2>3 DEF InFlight
    <2>5. TipsCovered'
      BY <1>g, <2>2, <2>4 DEF SetHead, TipsInv, TipsCovered, Atomic, Rollback, Durable
    <2> QED
      BY <1>g, <2>5, SameCommittedTips DEF SetHead
  <1>h. ASSUME NEW p \in Ids, PruneHead(p) PROVE TipsCovered' /\ CommittedTips'
    <2>1. Top.id \in messages /\ p \in parents[Top.id] /\ Top.todo \ {p} \in SUBSET Ids
      BY <1>h, <1>t, TopKnown DEF PruneHead
    <2>2. InFlight = {}
      BY <1>h, <1>t, NotAtHead DEF PruneHead
    <2>3. TipsCovered'
      BY <1>h, <2>1, <2>2 DEF PruneHead, TipsInv, TipsCovered, Atomic, Rollback, Durable
    <2> QED
      BY <1>h, <2>3, SameCommittedTips DEF PruneHead
  <1>i. CASE Commit
    <2>1. InFlight = {}
      BY <1>i, <1>t, NotAtHead DEF Commit
    <2>2. TipsCovered'
      BY <1>i, <2>1, IdleTips DEF Commit, store
    <2>3. committed'.messages = messages /\ committed'.heads = heads
      BY <1>i, SnapshotFields DEF Commit
    <2>4. CommittedTips'
      BY <1>i, <2>1, <2>3
      DEF Commit, TipsInv, TipsCovered, CommittedTips, Covered, Atomic, Rollback, Durable
    <2> QED
      BY <2>2, <2>4
  <1>j. CASE ApplyThrows \/ InternalThrows \/ SyncThrows
    <2>1. Abort /\ (stack = <<>> \/ Top.at # "head")
      BY <1>j DEF ApplyThrows, InternalThrows, Broken, SyncThrows, SyncYields
    <2> QED
      BY <2>1, AbortTips
  <1>k. CASE Crash
    <2>1. Abort /\ (Atomic => Rollback)
      BY <1>k DEF Crash, Atomic
    <2> QED
      BY <2>1, AbortTips
  <1>l. CASE UNCHANGED vars
    <2>1. /\ InFlight' = InFlight /\ (Atomic' <=> Atomic)
          /\ UNCHANGED <<messages, heads, parents, committed>>
      BY <1>l DEF vars, InFlight, Depth, Atomic, Rollback, Durable, store
    <2> QED
      BY <2>1 DEF TipsInv, TipsCovered, CommittedTips, Covered
  <1> QED
    BY <1>a, <1>b, <1>c, <1>d, <1>e, <1>f, <1>g, <1>h, <1>i, <1>j, <1>k, <1>l DEF Next, Body

\* In every configuration whose store is never left with half a transaction,
\* every message of the log is a head or has a child in the log.
THEOREM TipsAlwaysCovered == Spec => []TipsCovered
  <1>1. Init => TipsInv
    BY InitTips
  <1>2. TipsInv /\ [Next]_vars => TipsInv'
    BY TipsStep
  <1>3. TipsInv => TipsCovered
    BY DEF TipsInv
  <1> QED
    BY <1>1, <1>2, <1>3, PTL DEF Spec

-----------------------------------------------------------------------------
(* Delivery *)

\* Whatever is stored was applied, and whatever is about to be applied has
\* applied parents, but for those the mempool still waits for.
AppliedInv ==
  /\ messages \cup committed.messages \subseteq applied
  /\ \A i \in Frames : stack[i].at # "apply" => stack[i].id \in applied
  /\ IndexAncestors =>
       /\ \A i \in Frames : parents[stack[i].id] \subseteq applied
       /\ \A c \in pending : parents[c] \ missing[c] \subseteq applied

DeliveryInv == Base /\ AppliedInv

LEMMA InitDelivery == Init => DeliveryInv
  <1> SUFFICES ASSUME Init PROVE AppliedInv
    BY InitBase DEF DeliveryInv
  <1> QED
    BY NoFrames, SnapshotFields DEF Init, AppliedInv

LEMMA TopApplied ==
  ASSUME DeliveryInv, stack # <<>>
  PROVE  /\ Top.at # "apply" => Top.id \in applied
         /\ IndexAncestors => parents[Top.id] \subseteq applied
  BY FramesOfTop DEF DeliveryInv, AppliedInv, Base, Top

\* The innermost call moves on, and its message is applied.
LEMMA AdvanceDelivery ==
  ASSUME DeliveryInv, stack # <<>>, NEW at \in Phases, NEW todo \in SUBSET Ids, Advance(at, todo),
         UNCHANGED <<network, committed>>, messages' \subseteq applied', applied \subseteq applied',
         Top.id \in applied', pending' = pending,
         \A c \in pending : parents[c] \ missing'[c] \subseteq (parents[c] \ missing[c]) \cup applied'
  PROVE  AppliedInv'
  <1>1. /\ Depth' = Depth /\ Frames' = Frames /\ Depth \in Frames
        /\ stack'[Depth] = [id |-> Top.id, at |-> at, todo |-> todo]
        /\ \A i \in Frames : i # Depth => stack'[i] = stack[i]
    BY AdvanceFrames DEF DeliveryInv, Base
  <1>2. \A i \in Frames : stack'[i].id = stack[i].id
    BY <1>1 DEF Top
  <1>3. /\ IndexAncestors' = IndexAncestors /\ parents' = parents /\ committed' = committed
    BY DEF network, IndexAncestors
  <1>4. \A i \in Frames' : stack'[i].at # "apply" => stack'[i].id \in applied'
    BY <1>1, <1>2 DEF DeliveryInv, AppliedInv
  <1> QED
    BY <1>1, <1>2, <1>3, <1>4 DEF DeliveryInv, AppliedInv

\* A transaction ends, or none is open.
LEMMA EmptyDelivery ==
  ASSUME DeliveryInv, stack' = <<>>, applied' = applied, messages' \subseteq applied,
         committed'.messages \subseteq applied, config' = config,
         IndexAncestors => \A c \in pending' : parents'[c] \ missing'[c] \subseteq applied
  PROVE  AppliedInv'
  <1>1. Frames' = {} /\ IndexAncestors' = IndexAncestors
    BY DEF Depth, Frames, IndexAncestors
  <1> QED
    BY <1>1 DEF AppliedInv

\* A transaction makes its first call, of a message whose parents are in the
\* log if there is an index.
LEMMA FirstDelivery ==
  ASSUME DeliveryInv, NEW m \in Ids, stack' = <<NewFrame(m)>>, applied' = applied,
         messages' = messages, committed' = committed, config' = config,
         IndexAncestors => parents'[m] \subseteq messages,
         IndexAncestors => \A c \in pending' : parents'[c] \ missing'[c] \subseteq applied
  PROVE  AppliedInv'
  <1>1. IndexAncestors' = IndexAncestors
    BY DEF IndexAncestors
  <1> QED
    BY <1>1, FirstFrames DEF DeliveryInv, AppliedInv

LEMMA AbortDelivery ==
  ASSUME DeliveryInv, Abort, applied' = applied,
         IndexAncestors => \A c \in pending' : c \in pending /\ missing'[c] = missing[c]
  PROVE  AppliedInv'
  <1>1. messages' \subseteq applied /\ committed'.messages \subseteq applied
    BY SnapshotFields DEF Abort, store, DeliveryInv, AppliedInv
  <1>2. stack' = <<>> /\ IndexAncestors' = IndexAncestors /\ parents' = parents
    BY DEF Abort, IndexAncestors
  <1>3. Frames' = {}
    BY <1>2 DEF Depth, Frames
  <1> QED
    BY <1>1, <1>2, <1>3 DEF DeliveryInv, AppliedInv

\* The mempool during a step that leaves parents alone, or signs a message.
LEMMA PendingDelivery ==
  ASSUME DeliveryInv, \A x \in created : parents'[x] = parents[x],
         UNCHANGED mempool, IndexAncestors
  PROVE  \A c \in pending' : parents'[c] \ missing'[c] \subseteq applied
  BY DEF DeliveryInv, AppliedInv, Base, Known, mempool

LEMMA DeliveryStep == DeliveryInv /\ [Next]_vars => DeliveryInv'
  <1> SUFFICES ASSUME DeliveryInv, [Next]_vars
               PROVE  AppliedInv'
    BY BaseStep DEF DeliveryInv
  <1>t. Base /\ TypeOK /\ Shape /\ Known /\ AppliedInv
    BY DEF DeliveryInv, Base
  <1>a. ASSUME NEW m \in Ids, RemoteAppend(m) \/ AppendMessage(m) PROVE AppliedInv'
    <2>1. PICK P \in SUBSET Ids : Sign(m, P) /\ (AppendMessage(m) => P = heads)
      BY <1>a, <1>t DEF RemoteAppend, AppendMessage, TypeOK
    <2>2. parents'[m] = P /\ \A x \in created : parents'[x] = parents[x]
      BY <2>1, <1>t, SignKeeps
    <2>3. IndexAncestors => \A c \in pending' : parents'[c] \ missing'[c] \subseteq applied
      BY <1>a, <2>2, PendingDelivery DEF RemoteAppend, AppendMessage
    <2>4. CASE RemoteAppend(m)
      BY <2>3, <2>4, <1>t, EmptyDelivery DEF RemoteAppend, Shape, store, AppliedInv
    <2>5. CASE AppendMessage(m)
      <3>1. parents'[m] \subseteq messages
        BY <2>1, <2>2, <2>5, <1>t DEF Known, StoresAgree
      <3> QED
        BY <2>3, <2>5, <3>1, FirstDelivery DEF AppendMessage, store, network
    <2> QED
      BY <1>a, <2>4, <2>5
  <1>b. ASSUME NEW m \in Ids, InsertDefer(m) PROVE AppliedInv'
    <2>1. \A c \in pending' : missing'[c] = IF c = m THEN Absent(m) ELSE missing[c]
      BY <1>b, <1>t DEF InsertDefer, MempoolAdd, TypeOK, Known
    <2>2. IndexAncestors => \A c \in pending' : parents'[c] \ missing'[c] \subseteq applied
      BY <1>b, <2>1, <1>t DEF InsertDefer, MempoolAdd, Absent, AppliedInv, network
    <2> QED
      BY <1>b, <2>2, <1>t, EmptyDelivery DEF InsertDefer, Shape, store, network, AppliedInv
  <1>c. ASSUME NEW m \in Ids, InsertNow(m) PROVE AppliedInv'
    <2>1. parents' = parents /\ (IndexAncestors => parents[m] \subseteq messages /\ UNCHANGED mempool)
      BY <1>c DEF InsertNow, Absent, network
    <2>2. IndexAncestors => \A c \in pending' : parents'[c] \ missing'[c] \subseteq applied
      BY <2>1, PendingDelivery
    <2> QED
      BY <1>c, <2>1, <2>2, FirstDelivery DEF InsertNow, store, network
  <1>d. ASSUME NEW S \in SUBSET Ids, SyncOpen(S) PROVE AppliedInv'
    <2>1. IndexAncestors => \A c \in pending' : parents'[c] \ missing'[c] \subseteq applied
      BY <1>d, PendingDelivery DEF SyncOpen, network
    <2> QED
      BY <1>d, <2>1, <1>t, EmptyDelivery DEF SyncOpen, Shape, store, network, AppliedInv
  <1>e. ASSUME NEW m \in Ids, SyncInsert(m) PROVE AppliedInv'
    <2>1. parents' = parents /\ (IndexAncestors => parents[m] \subseteq messages)
      BY <1>e DEF SyncInsert, Absent, network
    <2>2. IndexAncestors => \A c \in pending' : parents'[c] \ missing'[c] \subseteq applied
      BY <1>e, <2>1, PendingDelivery DEF SyncInsert
    <2> QED
      BY <1>e, <2>1, <2>2, FirstDelivery DEF SyncInsert, store, network
  <1>f. CASE Apply
    <2>1. messages' \subseteq applied' /\ Top.id \in applied' /\ applied \subseteq applied'
      BY <1>f, <1>t DEF Apply, store, AppliedInv
    <2> QED
      BY <1>f, <2>1, AdvanceDelivery DEF Apply, Phases, mempool
  <1>g. CASE SetMessage
    <2>1. Top.id \in applied /\ messages' \subseteq applied'
      BY <1>g, <1>t, TopApplied DEF SetMessage, AppliedInv
    <2> QED
      BY <1>g, <2>1, AdvanceDelivery DEF SetMessage, Phases, mempool
  <1>h. CASE SetHead \/ (\E p \in Ids : PruneHead(p)) \/ Pruned
    <2>1. PICK todo \in SUBSET Ids, at \in Phases : Advance(at, todo)
      BY <1>h, <1>t, TopKnown DEF SetHead, PruneHead, Pruned, Phases
    <2>2. stack # <<>> /\ Top.id \in applied
      BY <1>h, TopApplied DEF SetHead, PruneHead, Pruned
    <2>3. UNCHANGED <<network, messages, committed, mempool, applied>>
      BY <1>h DEF SetHead, PruneHead, Pruned, store
    <2> QED
      BY <1>t, <2>1, <2>2, <2>3, AdvanceDelivery DEF mempool, AppliedInv
  <1>i. CASE SetAncestors
    <2>1. Top.id \in applied /\ waiting[Top.id] \in SUBSET Ids
      BY <1>i, <1>t, TopApplied, TopKnown DEF SetAncestors, TypeOK
    <2> QED
      BY <1>i, <1>t, <2>1, AdvanceDelivery DEF SetAncestors, Phases, AppliedInv
  <1>j. ASSUME NEW c \in Ids, ObserveBlocked(c) PROVE AppliedInv'
    <2>1. Top.id \in applied /\ Top.todo \ {c} \in SUBSET Ids
      BY <1>j, TopApplied, TopKnown, <1>t DEF ObserveBlocked
    <2>2. \A x \in pending : missing'[x] = IF x = c THEN missing[c] \ {Top.id} ELSE missing[x]
      BY <1>j, <1>t DEF ObserveBlocked, TypeOK
    <2> QED
      BY <1>j, <1>t, <2>1, <2>2, AdvanceDelivery DEF ObserveBlocked, Phases, store, AppliedInv
  <1>k. ASSUME NEW c \in Ids, ObserveReady(c) PROVE AppliedInv'
    <2>1. Top.id \in applied /\ Top.todo \ {c} \in SUBSET Ids /\ c \in pending
      BY <1>k, TopApplied, TopKnown, <1>t DEF ObserveReady
    <2>2. /\ Depth' = Depth + 1 /\ Frames' = Frames \cup {Depth + 1} /\ Depth \in Frames
          /\ stack'[Depth + 1] = NewFrame(c)
          /\ stack'[Depth] = [id |-> Top.id, at |-> "observe", todo |-> Top.todo \ {c}]
          /\ \A i \in Frames : i # Depth => stack'[i] = stack[i]
      BY <1>k, <1>t, <2>1, PushFrames DEF ObserveReady
    <2>3. \A i \in Frames : stack'[i].id = stack[i].id
      BY <2>2 DEF Top
    <2>4. stack'[Depth + 1].id = c /\ stack'[Depth + 1].at = "apply"
      BY <2>2 DEF NewFrame
    <2>5. \A i \in Frames' : stack'[i].at # "apply" => stack'[i].id \in applied
      BY <2>1, <2>2, <2>3, <2>4, <1>t DEF AppliedInv
    <2>6. IndexAncestors => parents[c] \subseteq applied
      BY <1>k, <1>t, <2>1 DEF ObserveReady, AppliedInv
    <2>7. \A x \in pending' : x \in pending /\ missing'[x] = missing[x]
      BY <1>k, <1>t DEF ObserveReady, TypeOK
    <2>8. /\ IndexAncestors' = IndexAncestors /\ parents' = parents /\ applied' = applied
          /\ messages' = messages /\ committed' = committed
      BY <1>k DEF ObserveReady, network, store, IndexAncestors
    <2> QED
      BY <1>t, <2>2, <2>3, <2>4, <2>5, <2>6, <2>7, <2>8 DEF AppliedInv
  <1>l. CASE Return
    <2>1. /\ Frames' = Frames \ {Depth}
          /\ \A i \in Frames' : stack'[i] = stack[i]
      BY <1>l, <1>t, PopFrames DEF Return
    <2> QED
      BY <1>l, <1>t, <2>1 DEF Return, AppliedInv, network, store, mempool, IndexAncestors
  <1>m. CASE Commit
    <2>1. committed'.messages = messages /\ messages' = messages
      BY <1>m, SnapshotFields DEF Commit, store
    <2>2. IndexAncestors => \A c \in pending' : parents'[c] \ missing'[c] \subseteq applied
      BY <1>m, PendingDelivery DEF Commit
    <2> QED
      BY <1>m, <1>t, <2>1, <2>2, EmptyDelivery DEF Commit, AppliedInv
  <1>n. CASE ApplyThrows \/ InternalThrows \/ SyncThrows
    BY <1>n, AbortDelivery DEF ApplyThrows, InternalThrows, SyncThrows, mempool
  <1>o. CASE Crash
    BY <1>o, AbortDelivery DEF Crash
  <1>p. CASE UNCHANGED vars
    BY <1>p, <1>t DEF vars, AppliedInv, Frames, Depth, network, store, mempool, IndexAncestors
  <1> QED
    BY <1>a, <1>b, <1>c, <1>d, <1>e, <1>f, <1>g, <1>h, <1>i, <1>j, <1>k, <1>l, <1>m, <1>n, <1>o,
       <1>p DEF Next, Body

LEMMA DeliveryInvariant == Spec => []DeliveryInv
  BY InitDelivery, DeliveryStep, PTL DEF Spec

\* Nothing is persisted that apply did not return for.
THEOREM PersistedAlwaysApplied == Spec => []PersistedApplied
  <1>1. DeliveryInv => PersistedApplied
    BY DEF DeliveryInv, AppliedInv, PersistedApplied
  <1> QED
    BY <1>1, DeliveryInvariant, PTL

\* With an ancestor index, apply returns for a message after its parents.
THEOREM DeliveryIsCausal == Spec => DeliveredAfterParents
  <1>1. DeliveryInv /\ [Next]_vars =>
          [IndexAncestors => \A m \in applied' \ applied : parents[m] \subseteq applied]_vars
    <2> SUFFICES ASSUME DeliveryInv, [Next]_vars, IndexAncestors, NEW m \in applied' \ applied
                 PROVE  parents[m] \subseteq applied
      OBVIOUS
    <2>1. CASE Apply
      <3>1. stack # <<>> /\ m = Top.id
        BY <2>1 DEF Apply
      <3> QED
        BY <3>1, TopApplied
    <2>2. CASE ~Apply
      <3>1. applied' = applied
        BY <2>2 DEF Next, Body, RemoteAppend, AppendMessage, InsertDefer, InsertNow, SyncOpen,
           SyncInsert, SetMessage, SetHead, PruneHead, Pruned, SetAncestors, ObserveBlocked,
           ObserveReady, Return, Commit, ApplyThrows, InternalThrows, SyncThrows, Crash, vars
      <3> QED
        BY <3>1
    <2> QED
      BY <2>1, <2>2
  <1> QED
    BY <1>1, DeliveryInvariant, PTL DEF Spec, DeliveredAfterParents

-----------------------------------------------------------------------------
(* Closure under parents, the ancestor index and the mempool *)

\* Messages #insert has stored and not yet indexed.
Late == {"head", "prune", "index"}
Unindexed == {stack[i].id : i \in {j \in Frames : stack[j].at \in Late}}

\* The log, its last commit, and what is about to enter them are closed
\* under parents, but for the parents the mempool still waits for.
ClosedInv ==
  CausalConfig =>
    /\ \A m \in messages : parents[m] \subseteq messages
    /\ \A m \in committed.messages : parents[m] \subseteq committed.messages
    /\ \A i \in Frames : parents[stack[i].id] \subseteq messages
    /\ \A c \in pending : parents[c] \ missing[c] \subseteq messages

SourceInv == ClosedPeers => \A m \in source : parents[m] \subseteq source

IndexInv ==
  IndexAncestors /\ Atomic =>
    /\ messages \subseteq indexed \cup Unindexed
    /\ committed.messages \subseteq committed.indexed

\* waitingChildren and the suspended loops over observe agree with
\* missingParents, a message of the log has no children waiting once it was
\* observed, and the clocks of the open calls rise.
MempoolInv ==
  MempoolSafe =>
    /\ \A p \in Ids : \A c \in waiting[p] : c \in pending /\ p \in missing[c]
    /\ \A i \in Frames : stack[i].at = "observe" =>
         /\ waiting[stack[i].id] = {}
         /\ \A c \in stack[i].todo : c \in pending /\ stack[i].id \in missing[c]
    /\ \A p \in messages : waiting[p] = {} \/ p \in Unindexed
    /\ Rollback => \A p \in committed.messages : waiting[p] = {}
    /\ \A i, j \in Frames : i < j => clock[stack[i].id] < clock[stack[j].id]

CausalInv == Base /\ ClosedInv /\ SourceInv /\ IndexInv /\ MempoolInv

LEMMA InitCausal == Init => CausalInv
  <1> SUFFICES ASSUME Init PROVE ClosedInv /\ SourceInv /\ IndexInv /\ MempoolInv
    BY InitBase DEF CausalInv
  <1>1. Frames = {} /\ committed.messages = {}
    BY NoFrames, SnapshotFields DEF Init
  <1> QED
    BY <1>1 DEF Init, ClosedInv, SourceInv, IndexInv, MempoolInv

\* Only the innermost call can have stored a message it has not indexed.
LEMMA UnindexedTop ==
  ASSUME Base
  PROVE  /\ stack = <<>> \/ Top.at \notin Late => Unindexed = {}
         /\ stack # <<>> /\ Top.at \in Late => Unindexed = {Top.id}
  <1>1. CASE stack = <<>>
    BY <1>1, NoFrames DEF Unindexed
  <1>2. CASE stack # <<>>
    <2>1. Depth \in Frames /\ \A i \in Frames : i # Depth => stack[i].at \notin Late
      BY <1>2, FramesOfTop DEF Base, Shape, Late
    <2> QED
      BY <1>2, <2>1 DEF Unindexed, Top
  <1> QED
    BY <1>1, <1>2

LEMMA AdvanceUnindexed ==
  ASSUME Base, stack # <<>>, NEW at \in Phases, NEW todo \in SUBSET Ids, Advance(at, todo)
  PROVE  Unindexed' = IF at \in Late THEN {Top.id} ELSE {}
  <1>1. /\ Depth' = Depth /\ Frames' = Frames /\ Depth \in Frames
        /\ stack'[Depth] = [id |-> Top.id, at |-> at, todo |-> todo]
        /\ \A i \in Frames : i # Depth => stack'[i] = stack[i]
    BY AdvanceFrames DEF Base
  <1>2. \A i \in Frames : i # Depth => stack'[i].at \notin Late
    BY <1>1 DEF Base, Shape, Late
  <1>3. stack'[Depth].at = at /\ stack'[Depth].id = Top.id
    BY <1>1
  <1> QED
    BY <1>1, <1>2, <1>3 DEF Unindexed

\* The configuration decides which invariants apply, and never changes.
LEMMA ConfigKept ==
  ASSUME config' = config
  PROVE  /\ (CausalConfig' <=> CausalConfig) /\ (Atomic' <=> Atomic)
         /\ (MempoolSafe' <=> MempoolSafe) /\ IndexAncestors' = IndexAncestors
         /\ Rollback' = Rollback /\ ClosedPeers' = ClosedPeers
  BY DEF CausalConfig, Atomic, MempoolSafe, IndexAncestors, Rollback, ClosedPeers, Durable, Quiet,
     ApplyMayThrow

\* Where the log is closed and complete, a call never fails on the index or
\* on the mempool.
LEMMA NeverBroken ==
  ASSUME CausalInv, stack # <<>>, MempoolSafe, IndexAncestors => CausalConfig /\ Atomic
  PROVE  ~Broken
  <1>1. Depth \in Frames
    BY FramesOfTop DEF CausalInv, Base
  <1>2. ASSUME Top.at = "index", IndexAncestors
        PROVE  IndexReads(Top.id) \cup FurtherReads(Top.id) \subseteq indexed
    <2>1. parents[Top.id] \subseteq messages
      BY <1>1, <1>2 DEF CausalInv, ClosedInv, Top
    <2>2. messages \subseteq indexed \cup {Top.id}
      BY <1>2, UnindexedTop DEF CausalInv, IndexInv, Late
    <2>3. Top.id \notin parents[Top.id]
      <3>1. Top.id \in created /\ clock[Top.id] \in Nat
        BY TopKnown DEF CausalInv, Base, TypeOK
      <3> QED
        BY <3>1 DEF CausalInv, Base, Known, ParentsFirst
    <2>4. IndexReads(Top.id) \subseteq parents[Top.id]
      BY DEF IndexReads
    <2>5. FurtherReads(Top.id) \subseteq messages \ {Top.id}
      <3>1. clock[Top.id] \in Nat
        BY TopKnown DEF CausalInv, Base, TypeOK
      <3> QED
        BY <3>1 DEF FurtherReads
    <2> QED
      BY <2>1, <2>2, <2>3, <2>4, <2>5
  <1>3. Top.at = "observe" => Top.todo \subseteq pending
    BY <1>1 DEF CausalInv, MempoolInv, Top
  <1> QED
    BY <1>2, <1>3 DEF Broken

\* Between peers that hold the parents of what they hold, sync meets a
\* message after its parents.
LEMMA SyncNeverThrows ==
  ASSUME CausalInv, ClosedPeers
  PROVE  ~SyncThrows
  <1> SUFFICES ASSUME NEW m \in source, SyncYields(m), NEW p \in Absent(m)
               PROVE  FALSE
    BY DEF SyncThrows
  <1>1. p \in source \ messages /\ m \in created
    BY DEF CausalInv, SourceInv, Absent, Base, Known
  <1>2. clock[m] <= clock[p] /\ clock[p] < clock[m]
    BY <1>1 DEF SyncYields, Absent, CausalInv, Base, Known, ParentsFirst
  <1>3. clock[m] \in Nat /\ clock[p] \in Nat
    BY <1>1 DEF CausalInv, Base, TypeOK, Known
  <1> QED
    BY <1>2, <1>3

\* What an abort leaves.
LEMMA AbortLeaves ==
  ASSUME Base, Abort
  PROVE  /\ UNCHANGED <<config, created, parents, clock>>
         /\ stack' = <<>> /\ source' = {} /\ Frames' = {} /\ Unindexed' = {}
         /\ Rollback => /\ messages' = committed.messages /\ indexed' = committed.indexed
                        /\ committed' = committed
         /\ ~Rollback => /\ messages' = messages /\ indexed' = indexed
                         /\ committed'.messages = messages /\ committed'.indexed = indexed
  <1>1. stack' = <<>>
    BY DEF Abort
  <1>2. Frames' = {}
    BY <1>1 DEF Frames, Depth
  <1> QED
    BY <1>1, <1>2, SnapshotFields DEF Abort, store, Unindexed

LEMMA ThrowKeepsCausal ==
  ASSUME CausalInv, ApplyThrows \/ InternalThrows \/ SyncThrows
  PROVE  ClosedInv' /\ SourceInv' /\ IndexInv' /\ MempoolInv'
  <1>a. Abort /\ UNCHANGED mempool /\ Base /\ StoresAgree
    BY DEF ApplyThrows, InternalThrows, SyncThrows, CausalInv, Base, Known
  <1>b. /\ UNCHANGED <<config, created, parents, clock>>
        /\ stack' = <<>> /\ source' = {} /\ Frames' = {} /\ Unindexed' = {}
        /\ Rollback => /\ messages' = committed.messages /\ indexed' = committed.indexed
                       /\ committed' = committed
        /\ ~Rollback => /\ messages' = messages /\ indexed' = indexed
                        /\ committed'.messages = messages /\ committed'.indexed = indexed
    BY <1>a, AbortLeaves
  <1>c. /\ (CausalConfig' <=> CausalConfig) /\ (Atomic' <=> Atomic)
        /\ (MempoolSafe' <=> MempoolSafe) /\ IndexAncestors' = IndexAncestors
        /\ Rollback' = Rollback /\ ClosedPeers' = ClosedPeers
    BY <1>b, ConfigKept
  <1>1. SourceInv'
    BY <1>b DEF SourceInv
  \* A store that rolls back keeps the claim of closure only if nothing throws.
  <1>2. ClosedInv'
    <2>1. CASE Rollback /\ CausalConfig
      <3>1. ~ApplyMayThrow /\ ClosedPeers /\ IndexAncestors /\ Atomic /\ MempoolSafe
        BY <2>1 DEF CausalConfig, Quiet, Atomic, MempoolSafe
      <3>2. ~ApplyThrows /\ ~InternalThrows /\ ~SyncThrows
        BY <2>1, <3>1, NeverBroken, SyncNeverThrows DEF ApplyThrows, InternalThrows
      <3> QED
        BY <3>2
    <2>2. CASE ~Rollback /\ CausalConfig
      BY <1>a, <1>b, <2>2 DEF CausalInv, ClosedInv, mempool
    <2>3. CASE ~CausalConfig
      BY <1>c, <2>3 DEF ClosedInv
    <2> QED
      BY <2>1, <2>2, <2>3
  <1>3. MempoolSafe /\ ~Rollback => Unindexed = {} /\ (IndexAncestors => Atomic /\ CausalConfig)
    <2> SUFFICES ASSUME MempoolSafe, ~Rollback
                 PROVE  Unindexed = {} /\ (IndexAncestors => Atomic /\ CausalConfig)
      OBVIOUS
    <2>1. IndexAncestors => Atomic /\ CausalConfig
      BY DEF MempoolSafe, CausalConfig
    <2>2. ~InternalThrows
      BY <2>1, NeverBroken DEF InternalThrows
    <2>3. stack = <<>> \/ Top.at \notin Late
      BY <2>2 DEF ApplyThrows, SyncThrows, SyncYields, Late
    <2> QED
      BY <1>a, <2>1, <2>3, UnindexedTop
  <1>4. IndexInv'
    <2>1. IndexAncestors /\ Atomic => MempoolSafe
      BY DEF MempoolSafe
    <2>2. CASE Rollback
      BY <1>b, <1>c, <2>2 DEF CausalInv, IndexInv
    <2>3. CASE ~Rollback
      BY <1>b, <1>c, <1>3, <2>1, <2>3 DEF CausalInv, IndexInv
    <2> QED
      BY <2>2, <2>3
  <1>5. MempoolInv'
    <2>1. CASE Rollback
      BY <1>a, <1>b, <1>c, <2>1 DEF CausalInv, MempoolInv, mempool
    <2>2. CASE ~Rollback
      BY <1>a, <1>b, <1>c, <1>3, <2>2 DEF CausalInv, MempoolInv, mempool
    <2> QED
      BY <2>1, <2>2
  <1> QED
    BY <1>1, <1>2, <1>4, <1>5

LEMMA CrashKeepsCausal ==
  ASSUME CausalInv, Crash
  PROVE  ClosedInv' /\ SourceInv' /\ IndexInv' /\ MempoolInv'
  <1>a. Abort /\ Base /\ Durable /\ pending' = {} /\ waiting' = [m \in Ids |-> {}]
    BY DEF Crash, CausalInv
  <1>b. /\ UNCHANGED <<config, created, parents, clock>>
        /\ stack' = <<>> /\ source' = {} /\ Frames' = {} /\ Unindexed' = {}
        /\ Rollback => /\ messages' = committed.messages /\ indexed' = committed.indexed
                       /\ committed' = committed
        /\ ~Rollback => /\ messages' = messages /\ indexed' = indexed
                        /\ committed'.messages = messages /\ committed'.indexed = indexed
    BY <1>a, AbortLeaves
  <1>c. /\ (CausalConfig' <=> CausalConfig) /\ (Atomic' <=> Atomic)
        /\ (MempoolSafe' <=> MempoolSafe) /\ IndexAncestors' = IndexAncestors
        /\ Rollback' = Rollback /\ ClosedPeers' = ClosedPeers
    BY <1>b, ConfigKept
  <1>1. SourceInv'
    BY <1>b DEF SourceInv
  <1>2. ClosedInv'
    BY <1>a, <1>b, <1>c DEF CausalInv, ClosedInv
  <1>3. IndexInv'
    BY <1>a, <1>b, <1>c DEF CausalInv, IndexInv, Atomic
  <1>4. messages' \subseteq Ids /\ committed'.messages \subseteq Ids
    BY <1>a, <1>b DEF Base, TypeOK, Known, Stores
  <1>5. MempoolInv'
    BY <1>a, <1>b, <1>c, <1>4 DEF MempoolInv
  <1> QED
    BY <1>1, <1>2, <1>3, <1>5

\* The steps that begin something: no call is open before them, and the
\* stores stay as they are.
Begin(m) == RemoteAppend(m) \/ AppendMessage(m) \/ InsertDefer(m) \/ InsertNow(m) \/ SyncInsert(m)

LEMMA BeginFacts ==
  ASSUME Base, NEW m \in Ids, Begin(m)
  PROVE  /\ stack = <<>> /\ Frames = {} /\ Unindexed = {} /\ Unindexed' = {}
         /\ \/ stack' = <<>> /\ Frames' = {}
            \/ /\ stack' = <<NewFrame(m)>> /\ Frames' = {1} /\ stack'[1].id = m
               /\ stack'[1].at = "apply"
               /\ m \in created' /\ (CausalConfig => parents'[m] \subseteq messages)
         /\ UNCHANGED <<config, messages, indexed, committed, source>>
         /\ \A x \in created : parents'[x] = parents[x] /\ clock'[x] = clock[x]
  <1>1. stack = <<>>
    BY DEF Begin, RemoteAppend, AppendMessage, InsertDefer, InsertNow, SyncInsert, SyncYields,
       Base, Shape
  <1>2. Frames = {} /\ Unindexed = {}
    BY <1>1, NoFrames DEF Unindexed
  <1>3. UNCHANGED <<config, messages, indexed, committed, source>>
    BY DEF Begin, RemoteAppend, AppendMessage, InsertDefer, InsertNow, SyncInsert, network, store
  <1>4. \A x \in created : parents'[x] = parents[x] /\ clock'[x] = clock[x]
    <2>1. CASE RemoteAppend(m) \/ AppendMessage(m)
      <3>1. PICK P \in SUBSET Ids : Sign(m, P)
        BY <2>1 DEF RemoteAppend, AppendMessage, Base, TypeOK
      <3> QED
        BY <3>1, SignKeeps DEF Base
    <2>2. CASE ~(RemoteAppend(m) \/ AppendMessage(m))
      BY <2>2 DEF Begin, InsertDefer, InsertNow, SyncInsert, network
    <2> QED
      BY <2>1, <2>2
  <1>5. CASE RemoteAppend(m) \/ InsertDefer(m)
    <2>1. stack' = <<>>
      BY <1>1, <1>5 DEF RemoteAppend, InsertDefer
    <2>2. Frames' = {} /\ Unindexed' = {}
      BY <2>1 DEF Frames, Depth, Unindexed
    <2> QED
      BY <1>1, <1>2, <1>3, <1>4, <2>1, <2>2
  <1>6. CASE AppendMessage(m) \/ InsertNow(m) \/ SyncInsert(m)
    <2>1. stack' = <<NewFrame(m)>>
      BY <1>6 DEF AppendMessage, InsertNow, SyncInsert
    <2>2. Frames' = {1} /\ stack'[1].id = m /\ stack'[1].at = "apply"
      BY <2>1, FirstFrames
    <2>3. Unindexed' = {}
      BY <2>2 DEF Unindexed, Late
    <2>4. m \in created' /\ (CausalConfig => parents'[m] \subseteq messages)
      <3>1. CASE AppendMessage(m)
        <4>1. heads \in SUBSET Ids /\ heads \subseteq messages /\ Sign(m, heads)
          BY <3>1 DEF AppendMessage, Base, TypeOK, Known, StoresAgree
        <4> QED
          BY <4>1, SignKeeps DEF Base
      <3>2. CASE InsertNow(m) \/ SyncInsert(m)
        BY <3>2 DEF InsertNow, SyncInsert, SyncYields, network, Base, Known, Absent, CausalConfig
      <3> QED
        BY <1>6, <3>1, <3>2
    <2> QED
      BY <1>1, <1>2, <1>3, <1>4, <2>1, <2>2, <2>3, <2>4
  <1> QED
    BY <1>5, <1>6 DEF Begin

\* The mempool in such a step: as it was, or with m added.
LEMMA BeginMempool ==
  ASSUME Base, NEW m \in Ids, Begin(m)
  PROVE  \/ UNCHANGED mempool
         \/ /\ pending' = pending \cup {m}
            /\ parents' = parents /\ m \in created
            /\ \A c \in Ids : missing'[c] = IF c = m THEN Absent(m) ELSE missing[c]
            /\ \A p \in Ids : waiting'[p] = IF p \in Absent(m) THEN waiting[p] \cup {m} ELSE waiting[p]
            /\ Idle
  <1>1. CASE RemoteAppend(m) \/ AppendMessage(m) \/ SyncInsert(m)
    BY <1>1 DEF RemoteAppend, AppendMessage, SyncInsert
  <1>2. CASE InsertDefer(m) \/ InsertNow(m)
    <2>1. m \in created /\ Idle /\ parents' = parents
      BY <1>2 DEF InsertDefer, InsertNow, Base, Known, network
    <2>2. MempoolAdd(m) \/ UNCHANGED mempool
      BY <1>2 DEF InsertDefer, InsertNow
    <2>3. ASSUME MempoolAdd(m)
          PROVE  /\ \A c \in Ids : missing'[c] = IF c = m THEN Absent(m) ELSE missing[c]
                 /\ \A p \in Ids : waiting'[p] = IF p \in Absent(m) THEN waiting[p] \cup {m} ELSE waiting[p]
      BY <2>3 DEF MempoolAdd, Base, TypeOK
    <2> QED
      BY <2>1, <2>2, <2>3 DEF MempoolAdd
  <1> QED
    BY <1>1, <1>2 DEF Begin

LEMMA BeginKeepsCausal ==
  ASSUME CausalInv, NEW m \in Ids, Begin(m)
  PROVE  ClosedInv' /\ SourceInv' /\ IndexInv' /\ MempoolInv'
  <1>a. Base /\ TypeOK /\ Known /\ ClosedInv /\ SourceInv /\ IndexInv /\ MempoolInv
    BY DEF CausalInv, Base
  <1>b. /\ stack = <<>> /\ Frames = {} /\ Unindexed = {} /\ Unindexed' = {}
        /\ \/ stack' = <<>> /\ Frames' = {}
           \/ /\ stack' = <<NewFrame(m)>> /\ Frames' = {1} /\ stack'[1].id = m
              /\ stack'[1].at = "apply"
              /\ m \in created' /\ (CausalConfig => parents'[m] \subseteq messages)
        /\ UNCHANGED <<config, messages, indexed, committed, source>>
        /\ \A x \in created : parents'[x] = parents[x] /\ clock'[x] = clock[x]
    BY <1>a, BeginFacts
  <1>c. /\ (CausalConfig' <=> CausalConfig) /\ (Atomic' <=> Atomic)
        /\ (MempoolSafe' <=> MempoolSafe) /\ IndexAncestors' = IndexAncestors
        /\ Rollback' = Rollback /\ ClosedPeers' = ClosedPeers
    BY <1>b, ConfigKept
  <1>d. CASE UNCHANGED mempool
    <2>1. \A c \in pending : parents'[c] = parents[c] /\ missing'[c] = missing[c]
      BY <1>a, <1>b, <1>d DEF Known, mempool
    <2>2. ClosedInv'
      BY <1>a, <1>b, <1>c, <1>d, <2>1 DEF ClosedInv, Known, mempool
    <2>3. MempoolInv'
      BY <1>a, <1>b, <1>c, <1>d DEF MempoolInv, mempool
    <2> QED
      BY <1>a, <1>b, <1>c, <2>2, <2>3 DEF SourceInv, IndexInv, Known
  <1>e. CASE ~UNCHANGED mempool
    <2>1. /\ pending' = pending \cup {m}
          /\ parents' = parents /\ m \in created
          /\ \A c \in Ids : missing'[c] = IF c = m THEN Absent(m) ELSE missing[c]
          /\ \A p \in Ids : waiting'[p] = IF p \in Absent(m) THEN waiting[p] \cup {m} ELSE waiting[p]
          /\ Idle
      BY <1>a, <1>e, BeginMempool
    <2>2. pending' \subseteq Ids /\ \A c \in pending' : parents[c] \ missing'[c] \subseteq
                                      (IF c = m THEN messages ELSE parents[c] \ missing[c])
      BY <1>a, <2>1 DEF TypeOK, Known, Absent
    <2>3. ClosedInv'
      BY <1>a, <1>b, <1>c, <2>1, <2>2 DEF ClosedInv
    <2>4. ASSUME MempoolSafe
          PROVE /\ \A p \in Ids : \A c \in waiting'[p] : c \in pending' /\ p \in missing'[c]
                /\ \A p \in messages : waiting'[p] = {}
                /\ Rollback => \A p \in committed.messages : waiting'[p] = {}
      <3>1. \A p \in messages : waiting[p] = {}
        BY <1>a, <1>b, <2>4 DEF MempoolInv
      <3>2. \A p \in messages : p \notin Absent(m) /\ p \in Ids
        BY <1>a DEF Absent, TypeOK
      <3>3. Rollback => committed.messages = messages
        BY <1>a, <2>1, SnapshotFields DEF Known
      <3>4. ASSUME NEW p \in Ids, NEW c \in waiting'[p]
            PROVE  c \in pending' /\ p \in missing'[c]
        <4>1. CASE c = m /\ p \in Absent(m)
          BY <2>1, <4>1
        <4>2. CASE c \in waiting[p] /\ ~(c = m /\ p \in Absent(m))
          <5>1. c \in pending /\ p \in missing[c] /\ c \in Ids
            BY <1>a, <2>4, <4>2 DEF MempoolInv, TypeOK
          <5>2. c # m
            <6> SUFFICES ASSUME c = m PROVE FALSE
              OBVIOUS
            <6>1. p \in parents[m] /\ p \notin Absent(m)
              BY <1>a, <4>2, <5>1 DEF Known
            <6>2. p \in messages
              BY <6>1 DEF Absent
            <6> QED
              BY <3>1, <4>2, <6>2
          <5> QED
            BY <2>1, <5>1, <5>2
        <4> QED
          BY <2>1, <3>4, <4>1, <4>2
      <3> QED
        BY <2>1, <3>1, <3>2, <3>3, <3>4
    <2>5. MempoolInv'
      BY <1>b, <1>c, <2>4 DEF MempoolInv
    <2> QED
      BY <1>a, <1>b, <1>c, <2>1, <2>3, <2>5 DEF SourceInv, IndexInv
  <1> QED
    BY <1>d, <1>e

\* The innermost call moves on within #insert, before it reaches observe.
LEMMA MoveKeepsCausal ==
  ASSUME CausalInv, stack # <<>>, NEW at \in Phases, NEW todo \in SUBSET Ids, Advance(at, todo),
         at # "observe", Top.at # "observe",
         UNCHANGED <<network, indexed, committed, mempool, source>>,
         messages' = messages \cup (IF at \in Late THEN {Top.id} ELSE {}),
         Top.at \in Late => at \in Late
  PROVE  ClosedInv' /\ SourceInv' /\ IndexInv' /\ MempoolInv'
  <1>a. Base /\ ClosedInv /\ SourceInv /\ IndexInv /\ MempoolInv
    BY DEF CausalInv
  <1>b. /\ Depth' = Depth /\ Frames' = Frames /\ Depth \in Frames
        /\ stack'[Depth] = [id |-> Top.id, at |-> at, todo |-> todo]
        /\ \A i \in Frames : i # Depth => stack'[i] = stack[i]
    BY <1>a, AdvanceFrames DEF Base
  <1>c. UNCHANGED <<config, created, parents, clock>>
    BY DEF network
  <1>d. /\ (CausalConfig' <=> CausalConfig) /\ (Atomic' <=> Atomic)
        /\ (MempoolSafe' <=> MempoolSafe) /\ IndexAncestors' = IndexAncestors
        /\ Rollback' = Rollback /\ ClosedPeers' = ClosedPeers
    BY <1>c, ConfigKept
  <1>e. \A i \in Frames : stack'[i].id = stack[i].id
    BY <1>b DEF Top
  <1>f. \A i \in Frames : stack'[i].at = "observe" => i # Depth /\ stack[i].at = "observe"
    BY <1>b
  <1>g. /\ Unindexed' = IF at \in Late THEN {Top.id} ELSE {}
        /\ Unindexed = IF Top.at \in Late THEN {Top.id} ELSE {}
    BY <1>a, AdvanceUnindexed, UnindexedTop
  <1>h. CausalConfig => parents[Top.id] \subseteq messages
    BY <1>a, <1>b DEF ClosedInv, Top
  <1>1. ClosedInv'
    BY <1>a, <1>b, <1>c, <1>d, <1>e, <1>h DEF ClosedInv, mempool
  <1>2. SourceInv'
    BY <1>a, <1>c, <1>d DEF SourceInv
  <1>3. IndexInv'
    BY <1>a, <1>c, <1>d, <1>g DEF IndexInv
  <1>4. MempoolInv'
    <2> SUFFICES ASSUME MempoolSafe PROVE MempoolInv'
      BY <1>d DEF MempoolInv
    <2>1. \A p \in Ids : \A c \in waiting'[p] : c \in pending' /\ p \in missing'[c]
      BY <1>a DEF MempoolInv, mempool
    <2>2. \A i \in Frames' : stack'[i].at = "observe" =>
            /\ waiting'[stack'[i].id] = {}
            /\ \A c \in stack'[i].todo : c \in pending' /\ stack'[i].id \in missing'[c]
      BY <1>a, <1>b, <1>e, <1>f DEF MempoolInv, mempool
    <2>3. \A p \in messages' : waiting'[p] = {} \/ p \in Unindexed'
      BY <1>a, <1>g DEF MempoolInv, mempool
    <2>4. Rollback => \A p \in committed'.messages : waiting'[p] = {}
      BY <1>a DEF MempoolInv, mempool
    <2>5. \A i, j \in Frames' : i < j => clock'[stack'[i].id] < clock'[stack'[j].id]
      BY <1>a, <1>b, <1>c, <1>e DEF MempoolInv
    <2> QED
      BY <1>d, <2>1, <2>2, <2>3, <2>4, <2>5 DEF MempoolInv
  <1> QED
    BY <1>1, <1>2, <1>3, <1>4

\* The innermost call enters the loop over the children that wait for it.
LEMMA SetAncestorsKeepsCausal ==
  ASSUME CausalInv, SetAncestors
  PROVE  ClosedInv' /\ SourceInv' /\ IndexInv' /\ MempoolInv'
  <1>a. Base /\ ClosedInv /\ SourceInv /\ IndexInv /\ MempoolInv /\ TypeOK
    BY DEF CausalInv, Base
  <1>b. /\ stack # <<>> /\ Top.at = "index" /\ Top.id \in Ids /\ Top.id \in messages
        /\ waiting[Top.id] \in SUBSET Ids
    BY <1>a, TopKnown DEF SetAncestors, TypeOK
  <1>c. /\ Depth' = Depth /\ Frames' = Frames /\ Depth \in Frames
        /\ stack'[Depth] = [id |-> Top.id, at |-> "observe", todo |-> waiting[Top.id]]
        /\ \A i \in Frames : i # Depth => stack'[i] = stack[i]
    BY <1>a, <1>b, AdvanceFrames DEF SetAncestors, Phases
  <1>d. UNCHANGED <<config, created, parents, clock, messages, committed, pending, missing, source>>
    BY DEF SetAncestors, network
  <1>e. /\ (CausalConfig' <=> CausalConfig) /\ (Atomic' <=> Atomic)
        /\ (MempoolSafe' <=> MempoolSafe) /\ IndexAncestors' = IndexAncestors
        /\ Rollback' = Rollback /\ ClosedPeers' = ClosedPeers
    BY <1>d, ConfigKept
  <1>f. \A i \in Frames : stack'[i].id = stack[i].id
    BY <1>c DEF Top
  <1>g. Unindexed = {Top.id} /\ Unindexed' = {}
    BY <1>a, <1>b, UnindexedTop, AdvanceUnindexed DEF SetAncestors, Phases, Late
  <1>h. /\ \A p \in Ids : waiting'[p] = IF p = Top.id THEN {} ELSE waiting[p]
        /\ IndexAncestors => indexed' = indexed \cup {Top.id}
    BY <1>a DEF SetAncestors, TypeOK
  <1>1. ClosedInv'
    BY <1>a, <1>c, <1>d, <1>e, <1>f DEF ClosedInv
  <1>2. SourceInv'
    BY <1>a, <1>d, <1>e DEF SourceInv
  <1>3. IndexInv'
    BY <1>a, <1>d, <1>e, <1>g, <1>h DEF IndexInv
  <1>4. MempoolInv'
    <2> SUFFICES ASSUME MempoolSafe PROVE MempoolInv'
      BY <1>e DEF MempoolInv
    <2>1. \A p \in Ids : \A c \in waiting'[p] : c \in pending' /\ p \in missing'[c]
      BY <1>a, <1>d, <1>h DEF MempoolInv
    <2>2. ASSUME NEW i \in Frames', stack'[i].at = "observe"
          PROVE  /\ waiting'[stack'[i].id] = {}
                 /\ \A c \in stack'[i].todo : c \in pending' /\ stack'[i].id \in missing'[c]
      <3>1. CASE i = Depth
        BY <1>a, <1>b, <1>c, <1>d, <1>h, <3>1 DEF MempoolInv
      <3>2. CASE i # Depth
        <4>1. stack'[i] = stack[i] /\ stack[i].id \in Ids
          BY <1>a, <1>b, <1>c, <2>2, <3>2, FramesOfTop
        <4> QED
          BY <1>a, <1>c, <1>d, <1>h, <2>2, <4>1 DEF MempoolInv
      <3> QED
        BY <3>1, <3>2
    <2>3. \A p \in messages' : waiting'[p] = {} \/ p \in Unindexed'
      BY <1>a, <1>d, <1>g, <1>h DEF MempoolInv, TypeOK
    <2>4. Rollback => \A p \in committed'.messages : waiting'[p] = {}
      BY <1>a, <1>d, <1>h DEF MempoolInv, TypeOK, Stores
    <2>5. \A i, j \in Frames' : i < j => clock'[stack'[i].id] < clock'[stack'[j].id]
      BY <1>a, <1>c, <1>d, <1>f DEF MempoolInv
    <2> QED
      BY <1>e, <2>1, <2>2, <2>3, <2>4, <2>5 DEF MempoolInv
  <1> QED
    BY <1>1, <1>2, <1>3, <1>4

\* The loop over the waiting children: one that still waits for another parent.
LEMMA ObserveBlockedKeepsCausal ==
  ASSUME CausalInv, NEW c \in Ids, ObserveBlocked(c)
  PROVE  ClosedInv' /\ SourceInv' /\ IndexInv' /\ MempoolInv'
  <1>a. Base /\ ClosedInv /\ SourceInv /\ IndexInv /\ MempoolInv /\ TypeOK
    BY DEF CausalInv, Base
  <1>b. /\ stack # <<>> /\ Top.at = "observe" /\ Top.id \in Ids /\ Top.id \in messages
        /\ Top.todo \ {c} \in SUBSET Ids
    BY <1>a, TopKnown DEF ObserveBlocked
  <1>c. /\ Depth' = Depth /\ Frames' = Frames /\ Depth \in Frames
        /\ stack'[Depth] = [id |-> Top.id, at |-> "observe", todo |-> Top.todo \ {c}]
        /\ \A i \in Frames : i # Depth => stack'[i] = stack[i]
    BY <1>a, <1>b, AdvanceFrames DEF ObserveBlocked, Phases
  <1>d. /\ UNCHANGED <<config, created, parents, clock, messages, indexed, committed, source>>
        /\ pending' = pending /\ waiting' = waiting
        /\ \A x \in Ids : missing'[x] = IF x = c THEN missing[c] \ {Top.id} ELSE missing[x]
    BY <1>a DEF ObserveBlocked, network, store, TypeOK
  <1>e. /\ (CausalConfig' <=> CausalConfig) /\ (Atomic' <=> Atomic)
        /\ (MempoolSafe' <=> MempoolSafe) /\ IndexAncestors' = IndexAncestors
        /\ Rollback' = Rollback /\ ClosedPeers' = ClosedPeers
    BY <1>d, ConfigKept
  <1>f. \A i \in Frames : stack'[i].id = stack[i].id
    BY <1>c DEF Top
  <1>g. Unindexed = {} /\ Unindexed' = {}
    BY <1>a, <1>b, UnindexedTop, AdvanceUnindexed DEF ObserveBlocked, Phases, Late
  <1>1. ClosedInv'
    <2> SUFFICES ASSUME CausalConfig PROVE ClosedInv'
      BY <1>e DEF ClosedInv
    <2>1. ASSUME NEW x \in pending' PROVE parents'[x] \ missing'[x] \subseteq messages'
      <3>1. x \in pending /\ x \in Ids /\ parents[x] \ missing[x] \subseteq messages
        BY <1>a, <1>d, <2>1 DEF ClosedInv, TypeOK
      <3>2. missing[x] \ {Top.id} \subseteq missing'[x]
        BY <1>d, <3>1
      <3> QED
        BY <1>b, <1>d, <3>1, <3>2
    <2>2. \A i \in Frames' : parents'[stack'[i].id] \subseteq messages'
      BY <1>a, <1>c, <1>d, <1>f DEF ClosedInv
    <2> QED
      BY <1>a, <1>d, <1>e, <2>1, <2>2 DEF ClosedInv
  <1>2. SourceInv'
    BY <1>a, <1>d, <1>e DEF SourceInv
  <1>3. IndexInv'
    BY <1>a, <1>d, <1>e, <1>g DEF IndexInv
  <1>4. MempoolInv'
    <2> SUFFICES ASSUME MempoolSafe PROVE MempoolInv'
      BY <1>e DEF MempoolInv
    <2>1. waiting[Top.id] = {}
      BY <1>a, <1>b, <1>c DEF MempoolInv, Top
    <2>2. \A p \in Ids : \A x \in waiting'[p] : x \in pending' /\ p \in missing'[x]
      BY <1>a, <1>d, <2>1 DEF MempoolInv, TypeOK
    <2>3. ASSUME NEW i \in Frames', stack'[i].at = "observe"
          PROVE  /\ waiting'[stack'[i].id] = {}
                 /\ \A x \in stack'[i].todo : x \in pending' /\ stack'[i].id \in missing'[x]
      <3>1. CASE i = Depth
        <4>1. stack'[i].id = Top.id /\ stack'[i].todo = Top.todo \ {c}
          BY <1>c, <3>1
        <4>2. \A x \in Top.todo : x \in pending /\ Top.id \in missing[x]
          BY <1>a, <1>b, <1>c DEF MempoolInv, Top
        <4>3. pending \subseteq Ids
          BY <1>a DEF TypeOK
        <4> QED
          BY <1>d, <2>1, <4>1, <4>2, <4>3
      <3>2. CASE i # Depth
        <4>1. stack'[i] = stack[i] /\ i \in Frames /\ i < Depth
          BY <1>a, <1>b, <1>c, <3>2, FramesOfTop DEF Frames
        <4>2. stack[i].id # Top.id
          <5>1. clock[stack[i].id] < clock[Top.id] /\ clock[Top.id] \in Nat
            BY <1>a, <1>b, <1>c, <4>1 DEF MempoolInv, Top, TypeOK
          <5> QED
            BY <5>1
        <4>3. waiting[stack[i].id] = {} /\ \A x \in stack[i].todo :
                x \in pending /\ stack[i].id \in missing[x]
          BY <1>a, <2>3, <4>1 DEF MempoolInv
        <4>4. pending \subseteq Ids
          BY <1>a DEF TypeOK
        <4> QED
          BY <1>d, <4>1, <4>2, <4>3, <4>4
      <3> QED
        BY <3>1, <3>2
    <2>4. \A i, j \in Frames' : i < j => clock'[stack'[i].id] < clock'[stack'[j].id]
      BY <1>a, <1>c, <1>d, <1>f DEF MempoolInv
    <2>5. \A p \in messages' : waiting'[p] = {} \/ p \in Unindexed'
      BY <1>a, <1>d, <1>g DEF MempoolInv
    <2>6. Rollback => \A p \in committed'.messages : waiting'[p] = {}
      BY <1>a, <1>d DEF MempoolInv
    <2> QED
      BY <1>e, <2>2, <2>3, <2>4, <2>5, <2>6 DEF MempoolInv
  <1> QED
    BY <1>1, <1>2, <1>3, <1>4

\* ... and one that waits for nothing else, for which #insert is called.
LEMMA ObserveReadyKeepsCausal ==
  ASSUME CausalInv, NEW c \in Ids, ObserveReady(c)
  PROVE  ClosedInv' /\ SourceInv' /\ IndexInv' /\ MempoolInv'
  <1>a. Base /\ ClosedInv /\ SourceInv /\ IndexInv /\ MempoolInv /\ TypeOK
    BY DEF CausalInv, Base
  <1>b. /\ stack # <<>> /\ Top.at = "observe" /\ Top.id \in Ids /\ Top.id \in messages
        /\ Top.todo \ {c} \in SUBSET Ids /\ c \in pending /\ missing[c] \subseteq {Top.id}
        /\ c \in created /\ c \in Top.todo
    BY <1>a, TopKnown DEF ObserveReady, Base, Known
  <1>c. /\ Depth' = Depth + 1 /\ Frames' = Frames \cup {Depth + 1} /\ Depth \in Frames
        /\ Depth + 1 \notin Frames
        /\ stack'[Depth + 1] = NewFrame(c)
        /\ stack'[Depth] = [id |-> Top.id, at |-> "observe", todo |-> Top.todo \ {c}]
        /\ \A i \in Frames : i # Depth => stack'[i] = stack[i]
    BY <1>a, <1>b, PushFrames DEF ObserveReady
  <1>d. /\ UNCHANGED <<config, created, parents, clock, messages, indexed, committed, source>>
        /\ pending' = pending \ {c} /\ waiting' = waiting
        /\ \A x \in Ids : x # c => missing'[x] = missing[x]
    BY <1>a DEF ObserveReady, network, store, TypeOK
  <1>e. /\ (CausalConfig' <=> CausalConfig) /\ (Atomic' <=> Atomic)
        /\ (MempoolSafe' <=> MempoolSafe) /\ IndexAncestors' = IndexAncestors
        /\ Rollback' = Rollback /\ ClosedPeers' = ClosedPeers
    BY <1>d, ConfigKept
  <1>f. /\ \A i \in Frames : stack'[i].id = stack[i].id
        /\ stack'[Depth + 1].id = c /\ stack'[Depth + 1].at = "apply"
    BY <1>c DEF Top, NewFrame
  <1>g. Unindexed = {} /\ Unindexed' = {}
    <2>1. Unindexed = {}
      BY <1>a, <1>b, UnindexedTop DEF Late
    <2>2. \A i \in Frames' : stack'[i].at \notin Late
      BY <1>a, <1>c, <1>f DEF Base, Shape, Late
    <2> QED
      BY <2>1, <2>2 DEF Unindexed
  <1>1. ClosedInv'
    <2> SUFFICES ASSUME CausalConfig PROVE ClosedInv'
      BY <1>e DEF ClosedInv
    <2>1. parents[c] \subseteq messages
      BY <1>a, <1>b DEF ClosedInv
    <2>2. \A x \in pending' : missing'[x] = missing[x] /\ x \in pending
      BY <1>a, <1>d DEF TypeOK
    <2>3. \A i \in Frames' : parents'[stack'[i].id] \subseteq messages'
      BY <1>a, <1>c, <1>d, <1>f, <2>1 DEF ClosedInv
    <2> QED
      BY <1>a, <1>d, <1>e, <2>2, <2>3 DEF ClosedInv
  <1>2. SourceInv'
    BY <1>a, <1>d, <1>e DEF SourceInv
  <1>3. IndexInv'
    BY <1>a, <1>d, <1>e, <1>g DEF IndexInv
  <1>4. MempoolInv'
    <2> SUFFICES ASSUME MempoolSafe PROVE MempoolInv'
      BY <1>e DEF MempoolInv
    <2>1. waiting[Top.id] = {} /\ Top.id \in missing[c]
      BY <1>a, <1>b, <1>c DEF MempoolInv, Top
    <2>2. \A p \in Ids : \A x \in waiting'[p] : x \in pending' /\ p \in missing'[x]
      BY <1>a, <1>b, <1>d, <2>1 DEF MempoolInv, TypeOK
    <2>3. ASSUME NEW i \in Frames, i # Depth
          PROVE  i < Depth /\ stack[i].id # Top.id /\ clock[stack[i].id] < clock[Top.id]
      <3>1. i < Depth
        BY <1>a, <1>b, <2>3, FramesOfTop DEF Frames
      <3>2. clock[stack[i].id] < clock[Top.id] /\ clock[Top.id] \in Nat
        BY <1>a, <1>b, <1>c, <3>1 DEF MempoolInv, Top, TypeOK
      <3> QED
        BY <3>1, <3>2
    <2>4. ASSUME NEW i \in Frames', stack'[i].at = "observe"
          PROVE  /\ waiting'[stack'[i].id] = {}
                 /\ \A x \in stack'[i].todo : x \in pending' /\ stack'[i].id \in missing'[x]
      <3>0. i \in Frames
        BY <1>c, <1>f, <2>4
      <3>1. CASE i = Depth
        BY <1>a, <1>b, <1>c, <1>d, <2>1, <3>1 DEF MempoolInv, TypeOK, Top
      <3>2. CASE i # Depth
        <4>1. stack'[i] = stack[i] /\ stack[i].id # Top.id
          BY <1>c, <2>3, <3>0, <3>2
        <4>2. waiting[stack[i].id] = {} /\ \A x \in stack[i].todo :
                x \in pending /\ stack[i].id \in missing[x]
          BY <1>a, <2>4, <3>0, <4>1 DEF MempoolInv
        <4>3. \A x \in stack[i].todo : x # c
          BY <1>b, <4>1, <4>2
        <4>4. pending \subseteq Ids
          BY <1>a DEF TypeOK
        <4> QED
          BY <1>d, <4>1, <4>2, <4>3, <4>4
      <3> QED
        BY <3>1, <3>2
    <2>5. \A i, j \in Frames' : i < j => clock'[stack'[i].id] < clock'[stack'[j].id]
      <3>1. clock[Top.id] < clock[c] /\ clock[c] \in Nat /\ clock[Top.id] \in Nat
        BY <1>a, <1>b, <2>1 DEF Base, Known, ParentsFirst, TypeOK
      <3>2. \A i \in Frames : clock[stack[i].id] < clock[c]
        <4>1. ASSUME NEW i \in Frames, i # Depth PROVE clock[stack[i].id] < clock[c]
          <5>1. stack[i].id \in Ids /\ clock[stack[i].id] \in Nat
            BY <1>a, <1>b, FramesOfTop DEF TypeOK
          <5> QED
            BY <2>3, <3>1, <4>1, <5>1
        <4> QED
          BY <3>1, <4>1 DEF Top
      <3>3. Depth \in Nat /\ Frames = 1..Depth
        BY <1>a, <1>b, FramesOfTop DEF Frames
      <3>4. ASSUME NEW i \in Frames', NEW j \in Frames', i < j
            PROVE  clock[stack'[i].id] < clock[stack'[j].id]
        <4>1. i \in Frames
          BY <1>c, <3>3, <3>4
        <4>2. CASE j = Depth + 1
          BY <1>f, <3>2, <4>1, <4>2
        <4>3. CASE j # Depth + 1
          BY <1>a, <1>c, <1>f, <3>4, <4>1, <4>3 DEF MempoolInv
        <4> QED
          BY <4>2, <4>3
      <3> QED
        BY <1>d, <3>4
    <2>6. \A p \in messages' : waiting'[p] = {} \/ p \in Unindexed'
      BY <1>a, <1>d, <1>g DEF MempoolInv
    <2>7. Rollback => \A p \in committed'.messages : waiting'[p] = {}
      BY <1>a, <1>d DEF MempoolInv
    <2> QED
      BY <1>e, <2>2, <2>4, <2>5, <2>6, <2>7 DEF MempoolInv
  <1> QED
    BY <1>1, <1>2, <1>3, <1>4

LEMMA ReturnKeepsCausal ==
  ASSUME CausalInv, Return
  PROVE  ClosedInv' /\ SourceInv' /\ IndexInv' /\ MempoolInv'
  <1>a. Base /\ ClosedInv /\ SourceInv /\ IndexInv /\ MempoolInv
    BY DEF CausalInv
  <1>b. /\ Frames' = Frames \ {Depth}
        /\ \A i \in Frames' : stack'[i] = stack[i] /\ i # Depth
    BY <1>a, PopFrames DEF Base, Return
  <1>c. UNCHANGED <<network, indexed, messages, committed, mempool, source>>
    BY DEF Return, store
  <1>d. /\ (CausalConfig' <=> CausalConfig) /\ (Atomic' <=> Atomic)
        /\ (MempoolSafe' <=> MempoolSafe) /\ IndexAncestors' = IndexAncestors
        /\ Rollback' = Rollback /\ ClosedPeers' = ClosedPeers
    BY <1>c, ConfigKept DEF network
  <1>e. Unindexed = {} /\ Unindexed' = {}
    <2>1. Unindexed = {}
      BY <1>a, UnindexedTop DEF Return, Late
    <2> QED
      BY <1>b, <2>1 DEF Unindexed
  <1> QED
    BY <1>a, <1>b, <1>c, <1>d, <1>e DEF ClosedInv, SourceInv, IndexInv, MempoolInv, network, mempool

LEMMA CommitKeepsCausal ==
  ASSUME CausalInv, Commit
  PROVE  ClosedInv' /\ SourceInv' /\ IndexInv' /\ MempoolInv'
  <1>a. Base /\ ClosedInv /\ SourceInv /\ IndexInv /\ MempoolInv
    BY DEF CausalInv
  <1>b. /\ Frames = {} /\ Unindexed = {} /\ Frames' = {} /\ Unindexed' = {}
    <2>1. Depth' = 0 /\ Frames' = {}
      BY DEF Commit, Depth, Frames
    <2> QED
      BY <2>1, NoFrames DEF Commit, Unindexed
  <1>c. /\ UNCHANGED <<config, parents, clock, messages, indexed, mempool>> /\ source' = {}
        /\ committed'.messages = messages /\ committed'.indexed = indexed
    BY SnapshotFields DEF Commit, store
  <1>d. /\ (CausalConfig' <=> CausalConfig) /\ (Atomic' <=> Atomic)
        /\ (MempoolSafe' <=> MempoolSafe) /\ IndexAncestors' = IndexAncestors
        /\ Rollback' = Rollback /\ ClosedPeers' = ClosedPeers
    BY <1>c, ConfigKept
  <1> QED
    BY <1>a, <1>b, <1>c, <1>d DEF ClosedInv, SourceInv, IndexInv, MempoolInv, mempool

LEMMA SyncOpenKeepsCausal ==
  ASSUME CausalInv, NEW S \in SUBSET Ids, SyncOpen(S)
  PROVE  ClosedInv' /\ SourceInv' /\ IndexInv' /\ MempoolInv'
  <1>a. ClosedInv /\ IndexInv /\ MempoolInv
    BY DEF CausalInv
  <1>b. UNCHANGED <<config, parents, clock, messages, indexed, committed, mempool, stack>>
    BY DEF SyncOpen, network, store
  <1>c. Frames' = Frames /\ Unindexed' = Unindexed
    BY <1>b DEF Frames, Depth, Unindexed
  <1>d. /\ (CausalConfig' <=> CausalConfig) /\ (Atomic' <=> Atomic)
        /\ (MempoolSafe' <=> MempoolSafe) /\ IndexAncestors' = IndexAncestors
        /\ Rollback' = Rollback /\ ClosedPeers' = ClosedPeers
    BY <1>b, ConfigKept
  <1>1. SourceInv'
    BY <1>b, <1>d DEF SyncOpen, SourceInv
  <1> QED
    BY <1>a, <1>b, <1>c, <1>d, <1>1 DEF ClosedInv, IndexInv, MempoolInv, mempool

LEMMA CausalStep == CausalInv /\ [Next]_vars => CausalInv'
  <1> SUFFICES ASSUME CausalInv, [Next]_vars
               PROVE  ClosedInv' /\ SourceInv' /\ IndexInv' /\ MempoolInv'
    BY BaseStep DEF CausalInv
  <1>t. Base
    BY DEF CausalInv
  <1>1. ASSUME NEW m \in Ids, Begin(m) PROVE ClosedInv' /\ SourceInv' /\ IndexInv' /\ MempoolInv'
    BY <1>1, BeginKeepsCausal
  <1>2. CASE Apply
    BY <1>2, MoveKeepsCausal DEF Apply, Phases, Late, store
  <1>3. CASE SetMessage
    BY <1>3, MoveKeepsCausal DEF SetMessage, Phases, Late
  <1>4. CASE SetHead \/ (\E p \in Ids : PruneHead(p)) \/ Pruned
    <2>1. PICK at \in {"prune", "index"}, todo \in SUBSET Ids : Advance(at, todo)
      BY <1>4, <1>t, TopKnown DEF SetHead, PruneHead, Pruned
    <2>2. stack # <<>> /\ Top.at \in {"head", "prune"} /\ Top.id \in messages
      BY <1>4, <1>t, TopKnown DEF SetHead, PruneHead, Pruned
    <2>3. UNCHANGED <<network, messages, indexed, committed, mempool, source>>
      BY <1>4 DEF SetHead, PruneHead, Pruned, store
    <2> QED
      BY <2>1, <2>2, <2>3, MoveKeepsCausal DEF Phases, Late
  <1>5. CASE SetAncestors
    BY <1>5, SetAncestorsKeepsCausal
  <1>6. ASSUME NEW c \in Ids, ObserveBlocked(c) \/ ObserveReady(c)
        PROVE  ClosedInv' /\ SourceInv' /\ IndexInv' /\ MempoolInv'
    BY <1>6, ObserveBlockedKeepsCausal, ObserveReadyKeepsCausal
  <1>7. CASE Return
    BY <1>7, ReturnKeepsCausal
  <1>8. CASE Commit
    BY <1>8, CommitKeepsCausal
  <1>9. ASSUME NEW S \in SUBSET Ids, SyncOpen(S)
        PROVE  ClosedInv' /\ SourceInv' /\ IndexInv' /\ MempoolInv'
    BY <1>9, SyncOpenKeepsCausal
  <1>10. CASE ApplyThrows \/ InternalThrows \/ SyncThrows
    BY <1>10, ThrowKeepsCausal
  <1>11. CASE Crash
    BY <1>11, CrashKeepsCausal
  <1>12. CASE UNCHANGED vars
    <2>1. UNCHANGED <<config, parents, clock, messages, indexed, committed, mempool, stack, source>>
      BY <1>12 DEF vars, network, store
    <2>2. Frames' = Frames /\ Unindexed' = Unindexed
      BY <2>1 DEF Frames, Depth, Unindexed
    <2>3. /\ (CausalConfig' <=> CausalConfig) /\ (Atomic' <=> Atomic)
          /\ (MempoolSafe' <=> MempoolSafe) /\ IndexAncestors' = IndexAncestors
          /\ Rollback' = Rollback /\ ClosedPeers' = ClosedPeers
      BY <2>1, ConfigKept
    <2> QED
      BY <2>1, <2>2, <2>3 DEF CausalInv, ClosedInv, SourceInv, IndexInv, MempoolInv, mempool
  <1> QED
    BY <1>1, <1>2, <1>3, <1>4, <1>5, <1>6, <1>7, <1>8, <1>9, <1>10, <1>11, <1>12
       DEF Next, Body, Begin

LEMMA CausalInvariant == Spec => []CausalInv
  BY InitCausal, CausalStep, PTL DEF Spec

\* An indexed log holds the parents of every message it holds.
THEOREM AlwaysCausallyClosed == Spec => []CausallyClosed
  <1>1. CausalInv => CausallyClosed
    BY DEF CausalInv, ClosedInv, CausallyClosed
  <1> QED
    BY <1>1, CausalInvariant, PTL

\* The assertions of Mempool.observe hold.
THEOREM MempoolAssertsHold == Spec => []MempoolAsserts
  <1>1. CausalInv => MempoolAsserts
    BY DEF CausalInv, MempoolInv, MempoolAsserts, Frames
  <1> QED
    BY <1>1, CausalInvariant, PTL

\* Between transactions every message of an indexed log has its ancestor entry.
THEOREM IndexAlwaysComplete == Spec => []IndexComplete
  <1>1. CausalInv => IndexComplete
    <2> SUFFICES ASSUME CausalInv, Idle, IndexAncestors, Atomic
                 PROVE  indexed = messages
      BY DEF IndexComplete
    <2>1. Unindexed = {}
      BY UnindexedTop DEF CausalInv, Base, Shape
    <2> QED
      BY <2>1 DEF CausalInv, IndexInv, Base, Known, StoresAgree
  <1> QED
    BY <1>1, CausalInvariant, PTL

\* The stores, the mempool and what was applied are always consistent.
THEOREM AlwaysConsistent == Spec => []Consistent
  <1>1. TypeOK /\ StoresAgree /\ MempoolAsserts /\ IndexComplete /\ PersistedApplied => Consistent
    BY DEF Consistent
  <1> QED
    BY <1>1, TypeCorrect, StoresAlwaysAgree, MempoolAssertsHold, IndexAlwaysComplete,
       PersistedAlwaysApplied, PTL

-----------------------------------------------------------------------------
(* What waits in the mempool is woken *)

\* A suspended loop over the children of p has yet to visit c.
Visiting(p, c) == \E i \in Frames : stack[i].at = "observe" /\ stack[i].id = p /\ c \in stack[i].todo

Called == {stack[i].id : i \in Frames}

\* A child misses every parent the log lacks; until a transaction throws it
\* misses one at least, and each of those will wake it; and in a log that
\* peers without gaps fill, an orphan has registered with each absent parent.
WakeInv ==
  /\ Quiet \/ ~Rollback => \A c \in pending : parents[c] \ missing[c] \subseteq messages
  /\ Quiet /\ Atomic =>
       \A c \in pending :
         /\ missing[c] # {}
         /\ \A p \in missing[c] : c \in waiting[p] \/ Visiting(p, c)
  /\ ClosedPeers /\ ~Durable =>
       \A m \in messages \cup Called : \A p \in Absent(m) : m \in pending /\ m \in waiting[p]

LEMMA InitWake == Init => WakeInv
  BY NoFrames DEF Init, WakeInv, Called

\* Which part of WakeInv applies depends on the configuration.
LEMMA WakeConfigKept ==
  ASSUME config' = config
  PROVE  /\ (Quiet' <=> Quiet) /\ (Atomic' <=> Atomic) /\ Rollback' = Rollback
         /\ Durable' = Durable /\ ClosedPeers' = ClosedPeers
  BY DEF Quiet, Atomic, Rollback, Durable, ClosedPeers, ApplyMayThrow, IndexAncestors

LEMMA NotDurable ==
  ASSUME Base, ~Durable
  PROVE  ~Rollback
  BY ConstantsAssumption, ConfigFields DEF Base, TypeOK

\* Between peers that hold the parents of what they hold, sync meets a
\* message after its parents, with an index or without.
LEMMA SyncMeetsParents ==
  ASSUME Base, SourceInv, ClosedPeers, NEW m \in Ids, SyncYields(m)
  PROVE  Absent(m) = {}
  <1> SUFFICES ASSUME NEW p \in Absent(m) PROVE FALSE
    OBVIOUS
  <1>1. p \in source \ messages /\ m \in created
    BY DEF SyncYields, SourceInv, Absent, Base, Known
  <1>2. clock[m] <= clock[p] /\ clock[p] < clock[m]
    BY <1>1 DEF SyncYields, Absent, Base, Known, ParentsFirst
  <1>3. clock[m] \in Nat /\ clock[p] \in Nat
    BY <1>1 DEF Base, TypeOK, Known
  <1> QED
    BY <1>2, <1>3

\* Where nothing is lost and no peer has gaps, no transaction throws.
LEMMA QuietNeverThrows ==
  ASSUME CausalInv, Quiet, Atomic
  PROVE  ~ApplyThrows /\ ~InternalThrows /\ ~SyncThrows
  <1>1. ~ApplyMayThrow /\ MempoolSafe /\ (IndexAncestors => CausalConfig /\ Atomic /\ ClosedPeers)
    BY DEF Quiet, MempoolSafe, CausalConfig
  <1>2. ~InternalThrows
    BY <1>1, NeverBroken DEF InternalThrows
  <1>3. ~SyncThrows
    <2>1. CASE IndexAncestors
      BY <1>1, <2>1, SyncNeverThrows
    <2>2. CASE ~IndexAncestors
      BY <2>2 DEF SyncThrows
    <2> QED
      BY <2>1, <2>2
  <1> QED
    BY <1>1, <1>2, <1>3 DEF ApplyThrows

\* In a step that begins something, the message called next, if it is an
\* orphan, is in the mempool: append and sync meet none.
LEMMA BeginOrphan ==
  ASSUME Base, SourceInv, ClosedPeers, NEW m \in Ids, Begin(m), stack' # <<>>
  PROVE  /\ stack' = <<NewFrame(m)>>
         /\ parents'[m] \subseteq messages \/ (InsertNow(m) /\ MempoolAdd(m))
  <1>1. stack = <<>>
    BY BeginFacts
  <1>2. stack' = <<NewFrame(m)>>
    BY <1>1, BeginFacts
  <1>3. CASE AppendMessage(m)
    <2>1. heads \in SUBSET Ids /\ heads \subseteq messages /\ Sign(m, heads)
      BY <1>3 DEF AppendMessage, Base, TypeOK, Known, StoresAgree
    <2> QED
      BY <1>2, <2>1, SignKeeps DEF Base
  <1>4. CASE SyncInsert(m)
    <2>1. Absent(m) = {} /\ parents' = parents
      BY <1>4, SyncMeetsParents DEF SyncInsert, network
    <2> QED
      BY <1>2, <2>1 DEF Absent
  <1>5. CASE InsertNow(m)
    BY <1>2, <1>5 DEF InsertNow, Absent, network
  <1>6. CASE RemoteAppend(m) \/ InsertDefer(m)
    BY <1>1, <1>6 DEF RemoteAppend, InsertDefer
  <1> QED
    BY <1>3, <1>4, <1>5, <1>6 DEF Begin

LEMMA BeginKeepsWake ==
  ASSUME CausalInv, WakeInv, NEW m \in Ids, Begin(m)
  PROVE  WakeInv'
  <1>a. Base /\ TypeOK /\ Known /\ SourceInv
    BY DEF CausalInv, Base
  <1>b. /\ stack = <<>> /\ Frames = {} /\ UNCHANGED <<config, messages>>
        /\ \A x \in created : parents'[x] = parents[x]
    BY <1>a, BeginFacts
  <1>c. /\ (Quiet' <=> Quiet) /\ (Atomic' <=> Atomic) /\ Rollback' = Rollback
        /\ Durable' = Durable /\ ClosedPeers' = ClosedPeers
    BY <1>b, WakeConfigKept
  <1>d. Called = {} /\ \A p, c \in Ids : ~Visiting(p, c)
    BY <1>b DEF Called, Visiting
  <1>e. Called' \subseteq {m} /\ (stack' = <<>> => Called' = {})
    <2>1. CASE stack' = <<>> /\ Frames' = {}
      BY <2>1 DEF Called
    <2>2. CASE stack' = <<NewFrame(m)>> /\ Frames' = {1} /\ stack'[1].id = m
      BY <2>2 DEF Called
    <2> QED
      BY <1>a, <2>1, <2>2, BeginFacts
  <1>f. pending \subseteq Ids /\ messages \subseteq Ids /\ \A c \in pending : missing[c] \subseteq Ids
    BY <1>a DEF TypeOK
  \* The mempool is as it was, or has m added, for every parent that is absent.
  <1>g. \/ UNCHANGED mempool
        \/ /\ pending' = pending \cup {m}
           /\ parents' = parents
           /\ \A c \in Ids : missing'[c] = IF c = m THEN Absent(m) ELSE missing[c]
           /\ \A p \in Ids : waiting'[p] = IF p \in Absent(m) THEN waiting[p] \cup {m} ELSE waiting[p]
           /\ Absent(m) # {}
    <2>1. UNCHANGED mempool \/ Absent(m) # {}
      BY DEF Begin, RemoteAppend, AppendMessage, InsertDefer, InsertNow, SyncInsert
    <2> QED
      BY <1>a, <2>1, BeginMempool
  <1>1. ASSUME Quiet \/ ~Rollback, NEW c \in pending' PROVE parents'[c] \ missing'[c] \subseteq messages'
    <2>1. CASE UNCHANGED mempool
      BY <1>a, <1>b, <1>1, <2>1 DEF WakeInv, Known, mempool
    <2>2. CASE ~UNCHANGED mempool
      BY <1>b, <1>f, <1>g, <1>1, <2>2 DEF WakeInv, Absent
    <2> QED
      BY <2>1, <2>2
  <1>2. ASSUME Quiet, Atomic, NEW c \in pending'
        PROVE missing'[c] # {} /\ \A p \in missing'[c] : c \in waiting'[p]
    <2>1. CASE UNCHANGED mempool
      BY <1>d, <1>f, <1>2, <2>1 DEF WakeInv, mempool
    <2>2. CASE ~UNCHANGED mempool
      <3>1. Absent(m) \subseteq Ids
        BY <1>a DEF Absent, TypeOK
      <3>2. CASE c = m
        BY <1>g, <2>2, <3>1, <3>2
      <3>3. CASE c # m
        <4>1. c \in pending /\ c \in Ids /\ missing'[c] = missing[c]
          BY <1>f, <1>g, <2>2, <3>3, <1>2
        <4>2. missing[c] # {} /\ \A p \in missing[c] : c \in waiting[p] /\ p \in Ids
          BY <1>d, <1>f, <1>2, <4>1 DEF WakeInv
        <4> QED
          BY <1>g, <2>2, <4>1, <4>2
      <3> QED
        BY <3>2, <3>3
    <2> QED
      BY <2>1, <2>2
  <1>3. ASSUME ClosedPeers, ~Durable, NEW x \in messages' \cup Called', NEW p \in parents'[x] \ messages'
        PROVE  x \in pending' /\ x \in waiting'[p]
    <2>1. CASE x \in messages
      <3>1. x \in pending /\ x \in waiting[p]
        BY <1>a, <1>b, <1>3, <2>1 DEF WakeInv, Absent, Known
      <3>2. p \in Ids
        BY <1>a, <1>b, <1>3, <2>1 DEF TypeOK, Known
      <3> QED
        BY <1>g, <3>1, <3>2 DEF mempool
    <2>2. CASE x \notin messages
      <3>1. x = m /\ stack' # <<>>
        BY <1>b, <1>e, <1>3, <2>2
      <3>2. InsertNow(m) /\ MempoolAdd(m)
        BY <1>a, <1>b, <1>3, <3>1, BeginOrphan
      <3>3. p \in Absent(m) /\ p \in Ids
        BY <1>a, <1>b, <1>3, <3>1, <3>2 DEF InsertNow, network, Absent, TypeOK
      <3> QED
        BY <3>1, <3>2, <3>3 DEF MempoolAdd
    <2> QED
      BY <1>b, <2>1, <2>2
  <1> QED
    BY <1>c, <1>1, <1>2, <1>3 DEF WakeInv, Absent

\* What the loop of a call that is not the innermost one still has to visit
\* stays to be visited when the innermost call moves on, calls or returns.
LEMMA VisitingKept ==
  ASSUME NEW p, NEW c, Visiting(p, c), Frames \ {Depth} \subseteq Frames',
         \A i \in Frames \ {Depth} : stack'[i] = stack[i],
         ~(Top.at = "observe" /\ Top.id = p /\ c \in Top.todo)
  PROVE  Visiting(p, c)'
  <1>1. PICK i \in Frames : stack[i].at = "observe" /\ stack[i].id = p /\ c \in stack[i].todo
    BY DEF Visiting
  <1>2. i # Depth
    BY <1>1 DEF Top
  <1>3. i \in Frames' /\ stack'[i] = stack[i]
    BY <1>1, <1>2
  <1> QED
    BY <1>1, <1>3 DEF Visiting

LEMMA MoveKeepsWake ==
  ASSUME Base, WakeInv, stack # <<>>, NEW at \in Phases, NEW todo \in SUBSET Ids, Advance(at, todo),
         Top.at # "observe", UNCHANGED <<network, mempool>>,
         messages \subseteq messages', messages' \subseteq messages \cup {Top.id}
  PROVE  WakeInv'
  <1>1. /\ Depth' = Depth /\ Frames' = Frames /\ Depth \in Frames
        /\ stack'[Depth] = [id |-> Top.id, at |-> at, todo |-> todo]
        /\ \A i \in Frames : i # Depth => stack'[i] = stack[i]
    BY AdvanceFrames DEF Base
  <1>2. Called' = Called /\ Top.id \in Called
    <2>1. \A i \in Frames : stack'[i].id = stack[i].id
      BY <1>1 DEF Top
    <2> QED
      BY <1>1, <2>1 DEF Called, Top
  <1>3. \A p, c : Visiting(p, c) => Visiting(p, c)'
    BY <1>1, VisitingKept
  <1>4. /\ (Quiet' <=> Quiet) /\ (Atomic' <=> Atomic) /\ Rollback' = Rollback
        /\ Durable' = Durable /\ ClosedPeers' = ClosedPeers
    BY WakeConfigKept DEF network
  <1> QED
    BY <1>2, <1>3, <1>4 DEF WakeInv, Absent, network, mempool

LEMMA SetAncestorsKeepsWake ==
  ASSUME Base, WakeInv, SetAncestors
  PROVE  WakeInv'
  <1>a. /\ stack # <<>> /\ Top.at = "index" /\ Top.id \in Ids /\ Top.id \in messages
        /\ waiting[Top.id] \in SUBSET Ids /\ pending \subseteq Ids
        /\ \A x \in created : parents[x] \subseteq Ids
        /\ messages \subseteq created
    BY TopKnown DEF SetAncestors, Base, TypeOK, Known
  <1>1. /\ Depth' = Depth /\ Frames' = Frames /\ Depth \in Frames
        /\ stack'[Depth] = [id |-> Top.id, at |-> "observe", todo |-> waiting[Top.id]]
        /\ \A i \in Frames : i # Depth => stack'[i] = stack[i]
    BY <1>a, AdvanceFrames DEF SetAncestors, Phases, Base
  <1>2. Called' = Called /\ Called \subseteq Ids
    <2>1. \A i \in Frames : stack'[i].id = stack[i].id /\ stack[i].id \in Ids
      BY <1>a, <1>1, FramesOfTop DEF Top, Base
    <2> QED
      BY <1>1, <2>1 DEF Called, Top
  <1>3. /\ UNCHANGED <<config, parents, messages, pending, missing>>
        /\ \A p \in Ids : waiting'[p] = IF p = Top.id THEN {} ELSE waiting[p]
    BY DEF SetAncestors, network, Base, TypeOK
  <1>4. /\ (Quiet' <=> Quiet) /\ (Atomic' <=> Atomic) /\ Rollback' = Rollback
        /\ Durable' = Durable /\ ClosedPeers' = ClosedPeers
    BY <1>3, WakeConfigKept
  <1>5. \A p, c : Visiting(p, c) => Visiting(p, c)'
    BY <1>a, <1>1, VisitingKept
  <1>6. \A p, c : p = Top.id /\ c \in waiting[p] => Visiting(p, c)'
    <2>1. stack'[Depth].at = "observe" /\ stack'[Depth].id = Top.id
          /\ stack'[Depth].todo = waiting[Top.id] /\ Depth \in Frames'
      BY <1>1
    <2> QED
      BY <2>1 DEF Visiting
  <1>7. ASSUME Quiet, Atomic, NEW c \in pending, NEW p \in missing[c]
        PROVE  c \in waiting'[p] \/ Visiting(p, c)'
    <2>1. p \in Ids
      BY <1>a, <1>7 DEF Base, TypeOK
    <2>2. c \in waiting[p] \/ Visiting(p, c)
      BY <1>7 DEF WakeInv
    <2> QED
      BY <1>3, <1>5, <1>6, <2>1, <2>2
  <1>8. ASSUME ClosedPeers, ~Durable, NEW m \in messages \cup Called, NEW p \in Absent(m)
        PROVE  m \in pending /\ m \in waiting'[p]
    <2>1. p \in Ids /\ p # Top.id
      BY <1>a, <1>2, <1>8 DEF Absent, Base, TypeOK
    <2> QED
      BY <1>3, <1>8, <2>1 DEF WakeInv
  <1> QED
    BY <1>2, <1>3, <1>4, <1>7, <1>8 DEF WakeInv, Absent

LEMMA ObserveBlockedKeepsWake ==
  ASSUME Base, WakeInv, NEW c \in Ids, ObserveBlocked(c)
  PROVE  WakeInv'
  <1>a. /\ stack # <<>> /\ Top.at = "observe" /\ Top.id \in Ids /\ Top.id \in messages
        /\ Top.todo \ {c} \in SUBSET Ids /\ pending \subseteq Ids
    BY TopKnown DEF ObserveBlocked, Base, TypeOK
  <1>1. /\ Depth' = Depth /\ Frames' = Frames /\ Depth \in Frames
        /\ stack'[Depth] = [id |-> Top.id, at |-> "observe", todo |-> Top.todo \ {c}]
        /\ \A i \in Frames : i # Depth => stack'[i] = stack[i]
    BY <1>a, AdvanceFrames DEF ObserveBlocked, Phases, Base
  <1>2. Called' = Called
    <2>1. \A i \in Frames : stack'[i].id = stack[i].id
      BY <1>1 DEF Top
    <2> QED
      BY <1>1, <2>1 DEF Called
  <1>3. /\ UNCHANGED <<config, parents, messages, pending, waiting>>
        /\ \A x \in Ids : missing'[x] = IF x = c THEN missing[c] \ {Top.id} ELSE missing[x]
        /\ missing[c] \ {Top.id} # {}
    BY DEF ObserveBlocked, network, store, Base, TypeOK
  <1>4. /\ (Quiet' <=> Quiet) /\ (Atomic' <=> Atomic) /\ Rollback' = Rollback
        /\ Durable' = Durable /\ ClosedPeers' = ClosedPeers
    BY <1>3, WakeConfigKept
  <1>5. \A p, x : Visiting(p, x) /\ ~(p = Top.id /\ x = c) => Visiting(p, x)'
    <2> SUFFICES ASSUME NEW p, NEW x, Visiting(p, x), ~(p = Top.id /\ x = c)
                 PROVE  Visiting(p, x)'
      OBVIOUS
    <2>1. CASE Top.id = p /\ x \in Top.todo
      <3>1. stack'[Depth].at = "observe" /\ stack'[Depth].id = p /\ x \in stack'[Depth].todo
        BY <1>1, <2>1
      <3> QED
        BY <1>1, <3>1 DEF Visiting
    <2>2. CASE ~(Top.id = p /\ x \in Top.todo)
      BY <1>1, <2>2, VisitingKept
    <2> QED
      BY <2>1, <2>2
  <1>6. ASSUME NEW x \in pending PROVE missing[x] \ {Top.id} \subseteq missing'[x]
    BY <1>a, <1>3, <1>6
  <1>7. ASSUME Quiet, Atomic, NEW x \in pending
        PROVE  missing'[x] # {} /\ \A p \in missing'[x] : x \in waiting[p] \/ Visiting(p, x)'
    BY <1>a, <1>3, <1>5, <1>7 DEF WakeInv
  <1> QED
    BY <1>a, <1>2, <1>3, <1>4, <1>6, <1>7 DEF WakeInv, Absent

LEMMA ObserveReadyKeepsWake ==
  ASSUME Base, WakeInv, NEW c \in Ids, ObserveReady(c)
  PROVE  WakeInv'
  <1>a. /\ stack # <<>> /\ Top.at = "observe" /\ Top.id \in Ids /\ Top.id \in messages
        /\ Top.todo \ {c} \in SUBSET Ids /\ pending \subseteq Ids /\ c \in pending
    BY TopKnown DEF ObserveReady, Base, TypeOK
  <1>1. /\ Depth' = Depth + 1 /\ Frames' = Frames \cup {Depth + 1} /\ Depth \in Frames
        /\ stack'[Depth + 1] = NewFrame(c)
        /\ stack'[Depth] = [id |-> Top.id, at |-> "observe", todo |-> Top.todo \ {c}]
        /\ \A i \in Frames : i # Depth => stack'[i] = stack[i]
    BY <1>a, PushFrames DEF ObserveReady, Base
  <1>2. Called' = Called \cup {c}
    <2>1. /\ \A i \in Frames : stack'[i].id = stack[i].id
          /\ stack'[Depth + 1].id = c
      BY <1>1 DEF Top, NewFrame
    <2> QED
      BY <1>1, <2>1 DEF Called
  <1>3. /\ UNCHANGED <<config, parents, messages, waiting>>
        /\ pending' = pending \ {c}
        /\ \A x \in Ids : x # c => missing'[x] = missing[x]
        /\ missing[c] \subseteq {Top.id}
    BY DEF ObserveReady, network, store, Base, TypeOK
  <1>4. /\ (Quiet' <=> Quiet) /\ (Atomic' <=> Atomic) /\ Rollback' = Rollback
        /\ Durable' = Durable /\ ClosedPeers' = ClosedPeers
    BY <1>3, WakeConfigKept
  <1>5. \A p, x : Visiting(p, x) /\ x # c => Visiting(p, x)'
    <2> SUFFICES ASSUME NEW p, NEW x, Visiting(p, x), x # c
                 PROVE  Visiting(p, x)'
      OBVIOUS
    <2>1. CASE Top.id = p /\ x \in Top.todo
      <3>1. stack'[Depth].at = "observe" /\ stack'[Depth].id = p /\ x \in stack'[Depth].todo
        BY <1>1, <2>1
      <3> QED
        BY <1>1, <3>1 DEF Visiting
    <2>2. CASE ~(Top.id = p /\ x \in Top.todo)
      BY <1>1, <2>2, VisitingKept
    <2> QED
      BY <2>1, <2>2
  \* The message that is woken lacks no parent.
  <1>6. Quiet \/ ~Rollback => Absent(c) = {}
    BY <1>a, <1>3 DEF WakeInv, Absent
  <1>7. ASSUME ClosedPeers, ~Durable, NEW m \in messages \cup Called', NEW p \in Absent(m)
        PROVE  m \in pending' /\ m \in waiting[p]
    <2>1. m # c
      BY <1>6, <1>7, NotDurable
    <2>2. m \in messages \cup Called
      BY <1>2, <1>7, <2>1
    <2> QED
      BY <1>3, <1>7, <2>1, <2>2 DEF WakeInv
  <1>8. ASSUME Quiet, Atomic, NEW x \in pending'
        PROVE  missing'[x] # {} /\ \A p \in missing'[x] : x \in waiting[p] \/ Visiting(p, x)'
    BY <1>a, <1>3, <1>5, <1>8 DEF WakeInv
  <1> QED
    BY <1>a, <1>3, <1>4, <1>7, <1>8 DEF WakeInv, Absent

LEMMA ReturnKeepsWake ==
  ASSUME Base, WakeInv, Return
  PROVE  WakeInv'
  <1>1. /\ Frames' = Frames \ {Depth}
        /\ \A i \in Frames' : stack'[i] = stack[i] /\ i # Depth
    BY PopFrames DEF Base, Return
  <1>2. Called' \subseteq Called
    BY <1>1 DEF Called
  <1>3. \A p, c : Visiting(p, c) => Visiting(p, c)'
    BY <1>1, VisitingKept DEF Return
  <1>4. UNCHANGED <<config, parents, messages, mempool>>
    BY DEF Return, network, store
  <1>5. /\ (Quiet' <=> Quiet) /\ (Atomic' <=> Atomic) /\ Rollback' = Rollback
        /\ Durable' = Durable /\ ClosedPeers' = ClosedPeers
    BY <1>4, WakeConfigKept
  <1> QED
    BY <1>2, <1>3, <1>4, <1>5 DEF WakeInv, Absent, mempool

\* A transaction that ends leaves no loop behind: one that throws does so
\* only where that loses no child, or where the store keeps what was written.
LEMMA EndKeepsWake ==
  ASSUME CausalInv, WakeInv, Commit \/ ApplyThrows \/ InternalThrows \/ SyncThrows \/ Crash
  PROVE  WakeInv'
  <1>a. Base /\ CausalInv
    BY DEF CausalInv
  <1>1. CASE Commit
    <2>1. stack = <<>> /\ stack' = stack /\ UNCHANGED <<config, parents, messages, mempool>>
      BY <1>1 DEF Commit, store
    <2>2. Frames' = Frames /\ Called' = Called /\ \A p, c : Visiting(p, c)' <=> Visiting(p, c)
      BY <2>1 DEF Frames, Depth, Called, Visiting
    <2>3. /\ (Quiet' <=> Quiet) /\ (Atomic' <=> Atomic) /\ Rollback' = Rollback
          /\ Durable' = Durable /\ ClosedPeers' = ClosedPeers
      BY <2>1, WakeConfigKept
    <2> QED
      BY <2>1, <2>2, <2>3 DEF WakeInv, Absent, mempool
  <1>2. CASE ApplyThrows \/ InternalThrows \/ SyncThrows
    <2>1. Abort /\ UNCHANGED mempool /\ ~(Quiet /\ Atomic)
      BY <1>2, QuietNeverThrows DEF ApplyThrows, InternalThrows, SyncThrows
    <2>2. /\ UNCHANGED <<config, parents>> /\ Frames' = {}
          /\ ~Rollback => messages' = messages
      BY <1>a, <2>1, AbortLeaves
    <2>3. Called' = {}
      BY <2>2 DEF Called
    <2>4. /\ (Quiet' <=> Quiet) /\ (Atomic' <=> Atomic) /\ Rollback' = Rollback
          /\ Durable' = Durable /\ ClosedPeers' = ClosedPeers
      BY <2>2, WakeConfigKept
    <2>5. ~Durable => ~Rollback
      BY <1>a, NotDurable
    <2>6. ~(Quiet /\ Rollback)
      BY <2>1 DEF Atomic
    <2> QED
      BY <2>1, <2>2, <2>3, <2>4, <2>5, <2>6 DEF WakeInv, Absent, mempool
  <1>3. CASE Crash
    <2>1. Durable /\ pending' = {} /\ config' = config
      BY <1>3 DEF Crash, Abort
    <2> QED
      BY <2>1, WakeConfigKept DEF WakeInv
  <1> QED
    BY <1>1, <1>2, <1>3

LEMMA WakeStep == CausalInv /\ WakeInv /\ [Next]_vars => WakeInv'
  <1> SUFFICES ASSUME CausalInv, WakeInv, [Next]_vars
               PROVE  WakeInv'
    OBVIOUS
  <1>t. Base
    BY DEF CausalInv
  <1>1. ASSUME NEW m \in Ids, Begin(m) PROVE WakeInv'
    BY <1>1, BeginKeepsWake
  <1>2. CASE Apply \/ SetMessage
    BY <1>t, <1>2, MoveKeepsWake DEF Apply, SetMessage, Phases, store
  <1>3. CASE SetHead \/ (\E p \in Ids : PruneHead(p)) \/ Pruned
    <2>1. PICK at \in Phases, todo \in SUBSET Ids : Advance(at, todo)
      BY <1>3, <1>t, TopKnown DEF SetHead, PruneHead, Pruned, Phases
    <2>2. stack # <<>> /\ Top.at # "observe" /\ UNCHANGED <<network, messages, mempool>>
      BY <1>3 DEF SetHead, PruneHead, Pruned, store
    <2> QED
      BY <1>t, <2>1, <2>2, MoveKeepsWake
  <1>4. CASE SetAncestors
    BY <1>t, <1>4, SetAncestorsKeepsWake
  <1>5. ASSUME NEW c \in Ids, ObserveBlocked(c) \/ ObserveReady(c) PROVE WakeInv'
    BY <1>t, <1>5, ObserveBlockedKeepsWake, ObserveReadyKeepsWake
  <1>6. CASE Return
    BY <1>t, <1>6, ReturnKeepsWake
  <1>7. CASE Commit \/ ApplyThrows \/ InternalThrows \/ SyncThrows \/ Crash
    BY <1>7, EndKeepsWake
  <1>8. ASSUME UNCHANGED <<config, parents, messages, mempool, stack>> PROVE WakeInv'
    <2>1. Frames' = Frames /\ Called' = Called /\ \A p, c : Visiting(p, c)' <=> Visiting(p, c)
      BY <1>8 DEF Frames, Depth, Called, Visiting
    <2>2. /\ (Quiet' <=> Quiet) /\ (Atomic' <=> Atomic) /\ Rollback' = Rollback
          /\ Durable' = Durable /\ ClosedPeers' = ClosedPeers
      BY <1>8, WakeConfigKept
    <2> QED
      BY <1>8, <2>1, <2>2 DEF WakeInv, Absent, mempool
  <1>9. CASE (\E S \in SUBSET Ids : SyncOpen(S)) \/ UNCHANGED vars
    BY <1>8, <1>9 DEF SyncOpen, vars, network, store
  <1> QED
    BY <1>1, <1>2, <1>3, <1>4, <1>5, <1>6, <1>7, <1>9 DEF Next, Body, Begin

LEMMA WakeInvariant == Spec => []WakeInv
  BY InitWake, WakeStep, CausalInvariant, PTL DEF Spec

\* Where no transaction throws, nothing is stranded in the mempool: what is
\* left there between transactions misses a parent, and exactly the parents
\* it misses will wake it.
THEOREM NothingEverStranded == Spec => []NothingStranded
  <1>1. CausalInv /\ WakeInv => NothingStranded
    <2> SUFFICES ASSUME CausalInv, WakeInv, Idle, Quiet, Atomic, NEW c \in pending
                 PROVE  /\ Absent(c) # {} /\ missing[c] = Absent(c)
                        /\ \A p \in missing[c] : c \in waiting[p]
      BY DEF NothingStranded
    <2>1. Frames = {} /\ Unindexed = {}
      BY NoFrames, UnindexedTop DEF CausalInv, Base, Shape
    <2>2. missing[c] # {} /\ \A p \in missing[c] : c \in waiting[p]
      BY <2>1 DEF WakeInv, Visiting
    <2>3. \A p \in messages : waiting[p] = {}
      BY <2>1 DEF CausalInv, MempoolInv, MempoolSafe
    <2>4. missing[c] = Absent(c)
      BY <2>2, <2>3 DEF WakeInv, Absent, CausalInv, Base, Known
    <2> QED
      BY <2>2, <2>4
  <1> QED
    BY <1>1, CausalInvariant, WakeInvariant, PTL

\* Without an index, an orphan of the log waits for each parent it lacks, also
\* after transactions that threw.
THEOREM OrphansAlwaysWait == Spec => []OrphansWait
  <1>1. WakeInv => OrphansWait
    BY DEF WakeInv, OrphansWait
  <1> QED
    BY <1>1, WakeInvariant, PTL

-----------------------------------------------------------------------------
(* The refinement of CausalLog *)

\* The log of the abstract specification.
Log == IF ~CausalConfig THEN {} ELSE IF Rollback THEN committed.messages ELSE messages

\* Steps that change neither the messages of the log nor what exists.
LEMMA LogStutters ==
  ASSUME UNCHANGED <<config, created, parents>>,
         CausalConfig => IF Rollback THEN committed' = committed ELSE messages' = messages
  PROVE  UNCHANGED <<created, parents, Log>>
  <1>1. (CausalConfig' <=> CausalConfig) /\ Rollback' = Rollback
    BY ConfigKept
  <1> QED
    BY <1>1 DEF Log

\* An abort takes nothing from the log, because where the store rolls back
\* the log is the last commit.
LEMMA AbortStutters ==
  ASSUME CausalInv, Abort
  PROVE  UNCHANGED <<created, parents, Log>>
  BY AbortLeaves, LogStutters DEF CausalInv

\* Signing is the abstract Sign.
LEMMA SignRefines ==
  ASSUME CausalInv, NEW m \in Ids, RemoteAppend(m) \/ AppendMessage(m)
  PROVE  \E P \in SUBSET Ids :
           /\ m \in Ids \ created /\ P \subseteq created
           /\ created' = created \cup {m} /\ parents' = [parents EXCEPT ![m] = P]
           /\ UNCHANGED Log
  <1>1. PICK P \in SUBSET Ids : Sign(m, P) /\ P \subseteq created
    BY DEF RemoteAppend, AppendMessage, CausalInv, Base, TypeOK, Known, StoresAgree
  <1>2. UNCHANGED <<config, messages, committed>>
    BY DEF RemoteAppend, AppendMessage, store
  <1>3. (CausalConfig' <=> CausalConfig) /\ Rollback' = Rollback
    BY <1>2, ConfigKept
  <1>4. UNCHANGED Log
    BY <1>2, <1>3 DEF Log
  <1> QED
    BY <1>1, <1>4 DEF Sign

\* The last commit is part of the log.
CommittedKept == committed.messages \subseteq messages

LEMMA CommittedKeptStep == Base /\ CommittedKept /\ [Next]_vars => CommittedKept'
  <1> SUFFICES ASSUME Base, CommittedKept, [Next]_vars
               PROVE  CommittedKept'
    OBVIOUS
  <1>1. CASE ApplyThrows \/ InternalThrows \/ SyncThrows \/ Crash
    <2>1. Abort
      BY <1>1 DEF ApplyThrows, InternalThrows, SyncThrows, Crash
    <2> QED
      BY <2>1, AbortLeaves DEF CommittedKept
  <1>2. CASE Commit
    BY <1>2, SnapshotFields DEF Commit, store, CommittedKept
  <1>3. ASSUME messages \subseteq messages', committed' = committed PROVE CommittedKept'
    BY <1>3 DEF CommittedKept
  <1> QED
    BY <1>1, <1>2, <1>3
       DEF Next, Body, RemoteAppend, AppendMessage, InsertDefer, InsertNow, SyncInsert, SyncOpen,
           Apply, SetMessage, SetHead, PruneHead, Pruned, SetAncestors, ObserveBlocked,
           ObserveReady, Return, store, vars

LEMMA CommittedKeptInvariant == Spec => []CommittedKept
  <1>1. Init => CommittedKept
    BY SnapshotFields DEF Init, CommittedKept
  <1> QED
    BY <1>1, CommittedKeptStep, BaseInvariant, PTL DEF Spec

\* The abstract Deliver, as a step of the detailed specification.
Delivers(S) ==
  /\ S \subseteq created /\ \A m \in S : parents[m] \subseteq Log \cup S
  /\ Log' = Log \cup S
  /\ UNCHANGED <<created, parents>>

\* messages.set of a store that does not roll back, and the commit of one
\* that does, are the abstract Deliver.
LEMMA DeliverRefines ==
  ASSUME CausalInv, CommittedKept, SetMessage \/ Commit
  PROVE  \E S \in SUBSET Ids : Delivers(S)
  <1>a. Base /\ TypeOK /\ Known /\ ClosedInv
    BY DEF CausalInv, Base
  <1>b. UNCHANGED <<config, created, parents>>
    BY DEF SetMessage, Commit, network
  <1>c. (CausalConfig' <=> CausalConfig) /\ Rollback' = Rollback
    BY <1>b, ConfigKept
  <1>d. ASSUME Log' = Log PROVE \E S \in SUBSET Ids : Delivers(S)
    <2>1. Delivers({}) /\ {} \in SUBSET Ids
      BY <1>b, <1>d DEF Delivers
    <2> QED
      BY <2>1
  <1>1. CASE ~CausalConfig
    BY <1>1, <1>c, <1>d DEF Log
  <1>2. CASE CausalConfig /\ Rollback
    <2>1. CASE SetMessage
      BY <1>2, <1>c, <1>d, <2>1 DEF Log, SetMessage
    <2>2. CASE Commit
      <3>1. Log' = messages /\ Log = committed.messages
        BY <1>2, <1>c, <2>2, SnapshotFields DEF Log, Commit
      <3>2. messages \subseteq created /\ messages \in SUBSET Ids
            /\ \A m \in messages : parents[m] \subseteq messages
        BY <1>a, <1>2 DEF TypeOK, Known, ClosedInv
      <3>3. Delivers(messages)
        BY <1>b, <3>1, <3>2 DEF Delivers, CommittedKept
      <3> QED
        BY <3>2, <3>3
    <2> QED
      BY <2>1, <2>2
  <1>3. CASE CausalConfig /\ ~Rollback
    <2>1. CASE SetMessage
      <3>1. Top.id \in created /\ Top.id \in Ids /\ parents[Top.id] \subseteq messages
        BY <1>a, <1>3, <2>1, TopKnown, FramesOfTop DEF SetMessage, ClosedInv, Top
      <3>2. Log = messages /\ Log' = messages \cup {Top.id}
        BY <1>3, <1>c, <2>1 DEF Log, SetMessage
      <3>3. Delivers({Top.id}) /\ {Top.id} \in SUBSET Ids
        BY <1>b, <3>1, <3>2 DEF Delivers
      <3> QED
        BY <3>3
    <2>2. CASE Commit
      BY <1>3, <1>c, <1>d, <2>2 DEF Log, Commit, store
    <2> QED
      BY <2>1, <2>2
  <1> QED
    BY <1>1, <1>2, <1>3

\* A replica with an ancestor index implements CausalLog.
THEOREM CausalLogRefined == Spec => ImplementsCausalLog
  <1>1. Init => Abstract!Init
    BY SnapshotFields DEF Init, Abstract!Init
  <1>2. CausalInv /\ CommittedKept /\ [Next]_vars => [Abstract!Next]_(Abstract!vars)
    <2> SUFFICES ASSUME CausalInv, CommittedKept, [Next]_vars
                 PROVE  [Abstract!Next]_(Abstract!vars)
      OBVIOUS
    <2>1. UNCHANGED <<created, parents, Log>> => UNCHANGED Abstract!vars
      BY DEF Abstract!vars, Log
    <2>2. ASSUME NEW m \in Ids, RemoteAppend(m) \/ AppendMessage(m) PROVE Abstract!Next
      BY <2>2, SignRefines DEF Abstract!Next, Abstract!Sign, Log
    <2>3. CASE SetMessage \/ Commit
      BY <2>3, DeliverRefines DEF Abstract!Next, Abstract!Deliver, Delivers, Log
    <2>4. CASE ApplyThrows \/ InternalThrows \/ SyncThrows \/ Crash
      BY <2>1, <2>4, AbortStutters DEF ApplyThrows, InternalThrows, SyncThrows, Crash
    <2>5. ASSUME UNCHANGED <<config, created, parents, messages, committed>>
          PROVE  UNCHANGED Abstract!vars
      BY <2>1, <2>5, LogStutters
    <2> QED
      BY <2>2, <2>3, <2>4, <2>5
         DEF Next, Body, InsertDefer, InsertNow, SyncInsert, SyncOpen, Apply, SetHead, PruneHead,
             Pruned, SetAncestors, ObserveBlocked, ObserveReady, Return, network, store, vars
  <1> QED
    BY <1>1, <1>2, CausalInvariant, CommittedKeptInvariant, PTL DEF Spec, ImplementsCausalLog, Abstract!Spec

=============================================================================
