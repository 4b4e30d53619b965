---------------------------- MODULE AncestorIndex ----------------------------
(***************************************************************************)
(* The ancestor index of packages/gossiplog and the queries that follow    *)
(* it, in a network of replicas that append messages and sync.             *)
(*                                                                         *)
(* A message is <<clock, tie>>: its key sorts by clock, then by hash, of   *)
(* which tie is the rank among the messages with the same clock.  The      *)
(* entry of a message is a function of its ancestors, so every replica     *)
(* that holds the message computes the same one.                           *)
(***************************************************************************)
EXTENDS Integers, SequencesExt, FiniteSets

CONSTANTS
  Replicas,
  TiesOf,     \* the ranks that the hashes of a replica's messages can have
  MaxClock    \* bound: no message has a later clock

Messages == (1..MaxClock) \X UNION {TiesOf[r] : r \in Replicas}

VARIABLES
  known,    \* the messages of each replica
  parents,  \* the parents of each message, in key order
  index,    \* its entry in the ancestor index: rows of links
  past      \* history: what the author held when it signed the message

vars == <<known, parents, index, past>>

Clock(m) == m[1]
Created == UNION {known[r] : r \in Replicas}
KeyLess(m, n) == m[1] < n[1] \/ (m[1] = n[1] /\ m[2] < n[2])
KeyOrder(S) == SetToSortSeq(S, KeyLess)

Heads(r) == known[r] \ UNION {ToSet(parents[m]) : m \in known[r]}

NextClock(S) == 1 + FoldSet(LAMBDA m, c : IF Clock(m) > c THEN Clock(m) ELSE c, 0, S)

\* Math.floor(Math.log2(n)) of a positive n
RECURSIVE Log2(_)
Log2(n) == IF n = 1 THEN 0 ELSE 1 + Log2(n \div 2)

\* getAncestorClocks: clock - 1, clock - 2, clock - 4, ... while positive
AncestorClocks(clock) ==
  IF clock = 1 THEN <<>> ELSE [i \in 1..(Log2(clock - 1) + 1) |-> clock - 2^(i - 1)]

AddNew(seq, x) == IF Contains(seq, x) THEN seq ELSE Append(seq, x)

-----------------------------------------------------------------------------
(* Queries *)

\* The row of an entry that reaches furthest back without overshooting.
Row(m, clock) == index[m][Log2(Clock(m) - clock) + 1]

\* The loop of #getAncestors over the links it has left, and the calls it
\* makes.  Meeting a visited message ends the loop, links left or not (410).
RECURSIVE GetAncestors(_, _, _)
GetAncestors(links, atOrBefore, walk) ==
  IF links = <<>> THEN walk
  ELSE IF Clock(Head(links)) <= atOrBefore
    THEN GetAncestors(Tail(links), atOrBefore, [walk EXCEPT !.results = AddNew(@, Head(links))])
  ELSE IF Head(links) \in walk.visited THEN walk
  ELSE GetAncestors(Tail(links), atOrBefore,
         GetAncestors(Row(Head(links), atOrBefore), atOrBefore,
           [walk EXCEPT !.visited = @ \cup {Head(links)}]))

\* Results are collected in insertion order, as a JavaScript Set does.
Collect(m, atOrBefore, results) ==
  GetAncestors(Row(m, atOrBefore), atOrBefore, [results |-> results, visited |-> {}]).results

AncestorsAt(m, atOrBefore) == ToSet(Collect(m, atOrBefore, <<>>))

\* Mutant: meeting a visited message ends the search, as in #getAncestors.
RECURSIVE FindAncestorReturns(_, _, _)
FindAncestorReturns(links, ancestor, walk) ==
  IF links = <<>> \/ walk.found \/ Head(links) \in walk.visited THEN walk
  ELSE IF Head(links) = ancestor THEN [walk EXCEPT !.found = TRUE]
  ELSE IF Clock(Head(links)) <= Clock(ancestor)
    THEN FindAncestorReturns(Tail(links), ancestor, walk)
  ELSE FindAncestorReturns(Tail(links), ancestor,
         FindAncestorReturns(Row(Head(links), Clock(ancestor)), ancestor,
           [walk EXCEPT !.visited = @ \cup {Head(links)}]))

\* The loop of isAncestor over the links it has left, and the calls it makes.
\* A visited message is skipped.
RECURSIVE FindAncestor(_, _, _)
FindAncestor(links, ancestor, walk) ==
  IF links = <<>> \/ walk.found THEN walk
  ELSE IF Head(links) = ancestor THEN [walk EXCEPT !.found = TRUE]
  ELSE IF Clock(Head(links)) <= Clock(ancestor) \/ Head(links) \in walk.visited
    THEN FindAncestor(Tail(links), ancestor, walk)
  ELSE FindAncestor(Tail(links), ancestor,
         FindAncestor(Row(Head(links), Clock(ancestor)), ancestor,
           [walk EXCEPT !.visited = @ \cup {Head(links)}]))

IsAncestor(m, ancestor) == FindAncestor(<<m>>, ancestor, [visited |-> {}, found |-> FALSE]).found

-----------------------------------------------------------------------------
(* Building an entry *)

\* Mutant: every row starts from the parents' links alone, without those of
\* the row before that are early enough already.
NextRowDeepOnly(row, clock) ==
  FoldLeft(
    LAMBDA links, child :
      IF Clock(child) <= clock THEN links
      ELSE Collect(child, clock, links),
    <<>>, row)

\* The links to the latest ancestors at or before a clock, found from those at
\* or before a later one.
NextRow(row, clock) ==
  FoldLeft(
    LAMBDA links, child :
      IF Clock(child) <= clock THEN AddNew(links, child)
      ELSE Collect(child, clock, links),
    <<>>, row)

\* The first row holds the parents; each other is found from the one before.
Links(ps, clock) ==
  FoldLeft(
    LAMBDA rows, ancestorClock :
      Append(rows, IF rows = <<>> THEN ps ELSE NextRow(Last(rows), ancestorClock)),
    <<>>, AncestorClocks(clock))

-----------------------------------------------------------------------------
Init ==
  /\ known = [r \in Replicas |-> {}]
  /\ parents = [m \in Messages |-> <<>>]
  /\ index = [m \in Messages |-> <<>>]
  /\ past = [m \in Messages |-> {}]

\* append, and the entry that #insert computes
AppendMessage(r, tie) ==
  LET m == <<NextClock(Heads(r)), tie>>
      ps == KeyOrder(Heads(r))
  IN /\ m \in Messages \ Created
     /\ known' = [known EXCEPT ![r] = @ \cup {m}]
     /\ parents' = [parents EXCEPT ![m] = ps]
     /\ index' = [index EXCEPT ![m] = Links(ps, Clock(m))]
     /\ past' = [past EXCEPT ![m] = known[r]]

\* sync with another replica, to the end
Sync(r, s) ==
  /\ ~(known[s] \subseteq known[r])
  /\ known' = [known EXCEPT ![r] = @ \cup known[s]]
  /\ UNCHANGED <<parents, index, past>>

Next ==
  \/ \E r \in Replicas : \E tie \in TiesOf[r] : AppendMessage(r, tie)
  \/ \E r, s \in Replicas : Sync(r, s)

Spec == Init /\ [][Next]_vars

-----------------------------------------------------------------------------
(* Properties.  Entries never change, so it is enough to query the heads:   *)
(* every message is one after it was appended.                              *)

Queried == UNION {Heads(r) : r \in Replicas}

\* The latest ancestors of m at or before a clock: those reached by an edge
\* that crosses it.
Frontier(m, clock) ==
  LET later == {m} \cup {n \in past[m] : Clock(n) > clock}
  IN {n \in past[m] : Clock(n) <= clock /\ \E l \in later : Contains(parents[l], n)}

Distance(m, clock) == Clock(m) - clock

\* Every row of an entry holds latest ancestors and nothing else; the rows that
\* reach at most 8 clocks back hold all of them (AbstractGossipLog.ts:443-465).
\* Rows that reach further are found by longer walks, which may lose some.
RowExact(m, i) == ToSet(index[m][i]) = Frontier(m, Clock(m) - 2^(i - 1))
RowSound(m, i) == ToSet(index[m][i]) \subseteq Frontier(m, Clock(m) - 2^(i - 1))
IndexExact ==
  \A m \in Queried : \A i \in DOMAIN index[m] :
    RowSound(m, i) /\ (i <= 4 => RowExact(m, i))

\* isAncestor answers as the graph does for messages less than 16 clocks apart,
\* and is never wrong when it says yes (AbstractGossipLog.ts:337-381).
IsAncestorExact ==
  \A m \in Queried : \A n \in Created :
    LET answer == IsAncestor(m, n)
    IN /\ answer => n \in past[m] \cup {m}
       /\ n \in past[m] \cup {m} /\ Clock(m) - Clock(n) < 16 => answer

\* getAncestors returns latest ancestors only, at least one, and all of them up
\* to 6 clocks back (AbstractGossipLog.ts:383-416).
GetAncestorsSound ==
  \A m \in Queried : \A clock \in 1..(Clock(m) - 1) :
    LET answer == AncestorsAt(m, clock)
    IN /\ answer \subseteq Frontier(m, clock) /\ answer # {}
       /\ Distance(m, clock) <= 6 => answer = Frontier(m, clock)

\* An entry and the query that walks it find the same latest ancestors.
FrontiersSound == IndexExact /\ GetAncestorsSound

\* What a test says.

\* isAncestor is true of what the author held when it signed the message, and
\* of nothing else (ancestors.test.ts:238).
IsAncestorAgrees ==
  \A m \in Queried : \A n \in Created \ {m} : IsAncestor(m, n) <=> n \in past[m]

=============================================================================
