-------------------------------- MODULE Driver --------------------------------
(***************************************************************************)
(* The walk over two merkle trees, packages/gossiplog/src/sync: the driver  *)
(* asks a source, through client and server, for the nodes that differ, and *)
(* yields entries to GossipLog.sync, which inserts them into the target     *)
(* before the walk goes on.  Inserts may release messages of the mempool,   *)
(* so the target may grow by more than what was yielded.                   *)
(*                                                                         *)
(* The trees are those of okra: an entry or node that its content makes a   *)
(* boundary begins a node one level up.  Entries are numbered in the order  *)
(* of their keys, and 0 is the anchor; a hash is what the node covers.  The *)
(* source is a snapshot.                                                   *)
(***************************************************************************)
EXTENDS Clock, FiniteSets, FiniteSetsExt

CONSTANTS
  Messages,   \* <<clock, hash>>
  MaxLevel,   \* bound: levels of a tree
  MaxWaiting  \* bound: messages in the mempool of the target

ASSUME DriverAssumption ==
  /\ Messages \subseteq (0..(N4 - 1)) \X (0..255)
  /\ MaxLevel \in Nat \ {0, 1} /\ MaxWaiting \in Nat

VARIABLES
  setup,    \* what is a boundary; what the source holds
  target,   \* what the target holds
  waiting,  \* what waits in the target's mempool
  level,    \* that of the target's root at the start, or -1 before
  todo,     \* the nodes and leaves of the source still to be visited
  yielded   \* the entries yielded, and whether the target lacked them

vars == <<setup, target, waiting, level, todo, yielded>>

-----------------------------------------------------------------------------
(* Entries and trees *)

\* The elements of a set in an order: the i-th has i - 1 before it.
Ordered(S, Before(_, _)) ==
  [i \in 1..Cardinality(S) |-> CHOOSE x \in S : Cardinality({y \in S : Before(y, x)}) = i - 1]

Ascending(numbers) == Ordered(numbers, <)

InOrder == Ordered(Messages, LAMBDA m, n : KeyBefore(Key(m[1], m[2]), Key(n[1], n[2])))
Entries == DOMAIN InOrder
ClockOf(e) == InOrder[e][1]

Total(entries) == FoldSet(+, 0, entries)

\* What an entry, or a node that covers some entries, is: a boundary or not.
Boundary(l, entries) ==
  IF l = 0 THEN entries \subseteq setup.boundaries
  ELSE l < MaxLevel - 1 /\ (Total(entries) + l + setup.seed) % 2 = 0

\* The entries up to the next node of the level.
Cover(tree, starts, key) ==
  {e \in tree : e >= key /\ \A other \in starts : other > key => e < other}

\* The keys of the nodes of a level, among those of the level below.
Above(tree, l, below) ==
  {0} \cup {key \in below \ {0} : Boundary(l - 1, IF l = 1 THEN {key} ELSE Cover(tree, below, key))}

Levels(tree) ==
  LET starts[l \in 0..MaxLevel] ==
        IF l = 0 THEN tree \cup {0} ELSE Above(tree, l, starts[l - 1])
  IN starts

Node(tree, l, key) ==
  [level |-> l, key |-> key,
   hash |-> IF l = 0 THEN {key} ELSE Cover(tree, Levels(tree)[l], key)]

GetRoot(tree) ==
  LET levels == Levels(tree)
      l == CHOOSE l \in 0..MaxLevel : levels[l] = {0} /\ \A m \in 0..(l - 1) : levels[m] # {0}
  IN Node(tree, l, 0)

HasNode(tree, l, key) == l <= MaxLevel /\ key \in Levels(tree)[l]

GetChildren(tree, l, key) ==
  LET levels == Levels(tree)
      children == Ascending(Cover(levels[l - 1], levels[l], key))
  IN [i \in DOMAIN children |-> Node(tree, l - 1, children[i])]

-----------------------------------------------------------------------------
(* The walk *)

Source == setup.source
Item(walk, node) == [walk |-> walk, node |-> node]
Items(walk, nodes) == [i \in DOMAIN nodes |-> Item(walk, nodes[i])]

Init ==
  /\ \E boundaries, source \in SUBSET Entries : \E seed \in 0..1 :
       setup = [boundaries |-> boundaries, seed |-> seed, source |-> source]
  /\ target \in SUBSET Entries
  /\ waiting \in {w \in SUBSET Entries : Cardinality(w) <= MaxWaiting /\ w \cap target = {}}
  /\ level = -1 /\ todo = <<>> /\ yielded = <<>>

\* sync
Start ==
  LET sourceRoot == GetRoot(Source)
      targetRoot == GetRoot(target)
  IN /\ level = -1 /\ level' = targetRoot.level
     /\ todo' = IF sourceRoot.level = 0 \/ sourceRoot = targetRoot THEN <<>>
                ELSE <<Item("root", sourceRoot)>>
     /\ UNCHANGED <<setup, target, waiting, yielded>>

Visits(walk) == todo # <<>> /\ Head(todo).walk = walk

Children(node) == GetChildren(Source, node.level, node.key)

\* syncRoot: down to the level of the target's root; of an empty target, all.
SyncRoot ==
  /\ Visits("root")
  /\ LET node == Head(todo).node IN
     todo' = (IF node.level <= level THEN <<Item("node", node)>>
              ELSE IF level = 0 /\ node.level = 1 THEN Items("all", Children(node))
              ELSE Items("root", Children(node))) \o Tail(todo)
  /\ UNCHANGED <<setup, target, waiting, level, yielded>>

\* Mutant: a node of the target with that key is taken for the same.
SyncNodeByKey ==
  /\ Visits("node")
  /\ LET node == Head(todo).node IN
     todo' = (IF HasNode(target, node.level, node.key) THEN <<>>
              ELSE Items(IF node.level > 1 THEN "node" ELSE "leaf", Children(node)))
                \o Tail(todo)
  /\ UNCHANGED <<setup, target, waiting, level, yielded>>

\* syncNode: what the target has too is passed over.
SyncNode ==
  /\ Visits("node")
  /\ LET node == Head(todo).node
         same == /\ HasNode(target, node.level, node.key)
                 /\ Node(target, node.level, node.key) = node
     IN todo' = (IF same THEN <<>>
                 ELSE Items(IF node.level > 1 THEN "node" ELSE "leaf", Children(node)))
                   \o Tail(todo)
  /\ UNCHANGED <<setup, target, waiting, level, yielded>>

\* The entry is inserted if the target lacks it, and with it messages that waited
\* for it, which have later clocks.
Yield(e) ==
  /\ yielded' = Append(yielded, [entry |-> e, lacked |-> e \notin target])
  /\ \E released \in SUBSET {w \in waiting : ClockOf(w) > ClockOf(e)} :
       /\ target' = target \cup {e} \cup released
       /\ waiting' = waiting \ (released \cup {e})

\* Mutant: the target is not looked at.
LeafUnchecked ==
  /\ Visits("leaf") /\ todo' = Tail(todo)
  /\ LET e == Head(todo).node.key IN
     IF e = 0 THEN UNCHANGED <<target, waiting, yielded>> ELSE Yield(e)
  /\ UNCHANGED <<setup, level>>

Leaf ==
  /\ Visits("leaf") /\ todo' = Tail(todo)
  /\ LET e == Head(todo).node.key IN
     IF e = 0 \/ e \in target THEN UNCHANGED <<target, waiting, yielded>> ELSE Yield(e)
  /\ UNCHANGED <<setup, level>>

LeafOfAll ==
  /\ Visits("all") /\ todo' = Tail(todo)
  /\ LET e == Head(todo).node.key IN
     IF e = 0 THEN UNCHANGED <<target, waiting, yielded>> ELSE Yield(e)
  /\ UNCHANGED <<setup, level>>

Next == Start \/ SyncRoot \/ SyncNode \/ Leaf \/ LeafOfAll

Spec == Init /\ [][Next]_vars

-----------------------------------------------------------------------------
(* Properties *)

\* SyncComplete.  When the walk is over the target has all the source has, however
\* the two trees differ in height and shape, and although the target's tree was
\* rebuilt under the walk by every insert.
SyncComplete == level >= 0 /\ todo = <<>> => Source \subseteq target

\* KeepsClockOrder.  gossiplog/README.md:117: key order "respects both logical
\* clock order and transitive dependency order", so sync inserts parents, which
\* have earlier clocks, first.
KeepsClockOrder ==
  \A j \in DOMAIN yielded : \A i \in 1..(j - 1) :
    ClockOf(yielded[i].entry) <= ClockOf(yielded[j].entry)

\* YieldsInOrder.  Below clock 16384 entries are yielded in clock order, and only
\* those that the target lacks, unless the target was empty at the start and the
\* mempool was faster.
YieldsInOrder ==
  /\ (\A m \in Messages : m[1] < N2) => KeepsClockOrder
  /\ \A j \in DOMAIN yielded : yielded[j].lacked \/ level = 0

=============================================================================
