-------------------------- MODULE Execution_proofs ---------------------------
(***************************************************************************)
(* Proofs about Execution, for every set of actions and every way in which *)
(* their branches read, write, fail and are joined: what is written for a  *)
(* message is what its action writes, and an action executed again writes  *)
(* it again.  And about Handles: the host frees what it has done with, and  *)
(* nothing sooner.                                                         *)
(***************************************************************************)
EXTENDS Execution, VMHandles, SequenceTheorems, WellFoundedInduction, TLAPS

-----------------------------------------------------------------------------
(* Types *)

Action(e) == runs[e].action
State(e, b) == branch[e][b]
InCode(e, b) == State(e, b).at <= Len(Code(e, b))
Op(e, b) == Code(e, b)[State(e, b).at]

\* A sequence of that length, of whatever values.
Long(s, n) == s = [i \in 1..n |-> s[i]]

IsState(s) ==
  /\ DOMAIN s = {"at", "saw", "end"}
  /\ s.at \in Nat \ {0} /\ s.end \in {"open", "returned", "threw"}

IsBranch(e, b) == e \in DOMAIN runs /\ b \in Branches(Action(e))
IsOpen(e, b) == IsBranch(e, b) /\ State(e, b).end = "open"

RunType == [action : Actions, outcome : {"running", "writing", "failed", "done"}]

\* The variables have their types.
TypeOK ==
  /\ kind \in Kinds /\ due \in BOOLEAN /\ inside \in BOOLEAN
  /\ runs \in Seq(RunType)
  /\ context \in 0..Len(runs)
  /\ Long(entries, Len(runs)) /\ Long(branch, Len(runs))
  /\ \A e \in DOMAIN runs :
       /\ entries[e] = [key \in DOMAIN entries[e] |-> entries[e][key]]
       /\ DOMAIN branch[e] = Branches(Action(e))
       /\ \A b \in Branches(Action(e)) : IsState(State(e, b))
  /\ jobs \in Seq(Nat \X Nat)

-----------------------------------------------------------------------------
(* The inductive invariant *)

In(t, queue) == \E i \in DOMAIN queue : queue[i] = t
Distinct(queue) == \A i, j \in DOMAIN queue : queue[i] = queue[j] => i = j

\* A branch that has not ended is in one place at most.
PlacesFit ==
  /\ Distinct(jobs)
  /\ \A t \in Nat \X Nat : In(t, jobs) => IsOpen(t[1], t[2])
  /\ \A r \in reads :
       /\ IsOpen(r.run, r.branch) /\ InCode(r.run, r.branch) /\ Op(r.run, r.branch).do = "get"
       /\ ~In(<<r.run, r.branch>>, jobs)
       /\ \A s \in reads : r.run = s.run /\ r.branch = s.branch => r = s

\* One execution is in progress, with the context.
ContextFits ==
  \A e \in DOMAIN runs :
    /\ runs[e].outcome \in {"running", "writing"} => e = Len(runs)
    /\ runs[e].outcome = "running" <=> e = context

\* What a branch has done.  Before its handler fails it throws only where it says.
BranchFits(e, b) ==
  /\ State(e, b).at <= Len(Code(e, b)) + 1
  /\ \A i \in 1..(State(e, b).at - 1) : Code(e, b)[i].do # "throw"
  /\ State(e, b).end = "returned" => State(e, b).at = Len(Code(e, b)) + 1
  /\ State(e, b).end = "threw" /\ runs[e].outcome # "failed" =>
       InCode(e, b) /\ Op(e, b).do = "throw"

\* Why an execution ended.
EndFits(e) ==
  /\ runs[e].outcome \in {"writing", "done"} => \A b \in Branches(Action(e)) : State(e, b).end # "open"
  /\ runs[e].outcome = "failed" =>
       /\ Program[Action(e)].join = "all"
       /\ \E b \in Branches(Action(e)) :
            State(e, b).end = "threw" /\ Does(Code(e, b), {"throw"})

\* Entries are of what branches have written.
WritesFit(e) ==
  runs[e].outcome # "failed" =>
    \A b \in Branches(Action(e)) : \A i \in 1..(State(e, b).at - 1) :
      Code(e, b)[i].do \in Writes => Has(e, Code(e, b)[i].key)

OwnFit(e) == Undisturbed(e) => \A key \in DOMAIN entries[e] : entries[e][key][2] = Action(e)

ReadsFit == \A r \in reads : r.run = context => r.for = context

-----------------------------------------------------------------------------
(* The history of an execution: what each of its branches had read before    *)
(* each of its operations                                                    *)

\* Of the operations before the n-th, the last that writes the entry.
IsLast(code, key, n, j) ==
  /\ j \in 1..(n - 1) /\ code[j].do \in Writes /\ code[j].key = key
  /\ \A k \in (j + 1)..(n - 1) : ~(code[k].do \in Writes /\ code[k].key = key)
NoWrite(code, key, n) == \A k \in 1..(n - 1) : ~(code[k].do \in Writes /\ code[k].key = key)

\* What an operation writes.
Puts(a, op, saw) == IF op.do = "set" THEN Value(a, saw) ELSE Null(a)

\* What a read finds: what its branch has written, or what was there before.
Finds(a, code, h, n, value) ==
  \/ \E j : IsLast(code, code[n].key, n, j) /\ value = Puts(a, code[j], h[j])
  \/ NoWrite(code, code[n].key, n) /\ value = Old

HistoryFits(a, code, n, saw, h) ==
  /\ h[1] = <<>> /\ h[n] = saw
  /\ \A i \in 1..(n - 1) :
       IF code[i].do = "get"
         THEN \E value : Finds(a, code, h, i, value) /\ h[i + 1] = Append(h[i], value)
         ELSE h[i + 1] = h[i]

EntryFits(e, histories, key) ==
  IF Has(e, key)
    THEN \E b \in Branches(Action(e)) : \E j :
           /\ IsLast(Code(e, b), key, State(e, b).at, j)
           /\ entries[e][key] = Puts(Action(e), Code(e, b)[j], histories[b][j])
    ELSE \A b \in Branches(Action(e)) : NoWrite(Code(e, b), key, State(e, b).at)

Explains(e, histories) ==
  /\ \A b \in Branches(Action(e)) :
       HistoryFits(Action(e), Code(e, b), State(e, b).at, State(e, b).saw, histories[b])
  /\ \A r \in reads : r.run = e =>
       Finds(Action(e), Code(e, r.branch), histories[r.branch], State(e, r.branch).at, r.value)
  /\ \A key : EntryFits(e, histories, key)

Explained(e) ==
  runs[e].outcome # "failed" /\ Undisturbed(e) /\ ~Crosses(Action(e)) =>
    \E histories : Explains(e, histories)

Fits(e) ==
  /\ EndFits(e) /\ WritesFit(e) /\ OwnFit(e) /\ Explained(e)
  /\ \A b \in Branches(Action(e)) : BranchFits(e, b)

ExecutionInv ==
  /\ TypeOK /\ PlacesFit /\ ContextFits /\ ReadsFit
  /\ \A e \in DOMAIN runs : Fits(e)

-----------------------------------------------------------------------------
(* What the parts of a step need to know *)

LEMMA Grows ==
  ASSUME NEW s, NEW n \in Nat, Long(s, n), NEW x
  PROVE  /\ Append(s, x) = [i \in 1..(n + 1) |-> IF i = n + 1 THEN x ELSE s[i]]
         /\ Long(Append(s, x), n + 1)
  <1> DEFINE S == {s[i] : i \in 1..n} \cup {x}
             t == [i \in 1..n |-> s[i]]
  <1>1. t \in Seq(S) /\ Len(t) = n
    OBVIOUS
  <1>2. Append(t, x) = [i \in 1..(n + 1) |-> IF i = n + 1 THEN x ELSE s[i]]
    BY <1>1
  <1>3. s = t
    BY DEF Long
  <1>4. Append(s, x) = [i \in 1..(n + 1) |-> IF i = n + 1 THEN x ELSE s[i]]
    BY <1>2, <1>3
  <1> QED
    BY <1>4 DEF Long

\* The text of a branch.
LEMMA Text ==
  ASSUME TypeOK, NEW e \in DOMAIN runs, NEW b \in Branches(Action(e))
  PROVE  /\ Action(e) \in Actions /\ b \in Nat /\ e \in 1..Len(runs) /\ Len(runs) \in Nat
         /\ Program[Action(e)].join \in {"all", "allSettled"}
         /\ Code(e, b) \in Seq([do : {"get", "set", "delete", "throw"}, key : Keys])
         /\ Code(e, b) = Program[Action(e)].branches[b]
         /\ IsState(State(e, b))
  <1>1. runs \in Seq(RunType) /\ IsState(State(e, b))
    BY DEF TypeOK
  <1>2. /\ Len(runs) \in Nat /\ e \in 1..Len(runs) /\ runs[e] \in RunType
        /\ Action(e) \in Actions
    <2>1. Len(runs) \in Nat /\ e \in 1..Len(runs) /\ runs[e] \in RunType
      BY <1>1
    <2> QED
      BY <2>1 DEF Action, RunType
  <1>3. /\ Program[Action(e)].join \in {"all", "allSettled"}
        /\ Program[Action(e)].branches \in
             Seq(Seq([do : {"get", "set", "delete", "throw"}, key : Keys]))
    BY <1>2, ProgramAssumption
  <1>4. b \in DOMAIN Program[Action(e)].branches
    BY DEF Branches
  <1>5. Code(e, b) = Program[Action(e)].branches[b]
    BY DEF Code, Action
  <1> QED
    BY <1>1, <1>2, <1>3, <1>4, <1>5

\* A branch that goes on after its handler has failed has nothing to write, unless
\* that is said of the handler.
LEMMA Straggler ==
  ASSUME ExecutionInv, NEW e \in DOMAIN runs, NEW b \in Branches(Action(e)), IsOpen(e, b),
         ~Straggles(Action(e)), e # context
  PROVE  ~Does(Code(e, b), Writes)
  <1>1. EndFits(e) /\ TypeOK /\ runs[e].outcome # "running"
    BY DEF ExecutionInv, ContextFits, Fits
  <1>2. runs[e].outcome = "failed"
    <2>1. runs \in Seq(RunType)
      BY <1>1 DEF TypeOK
    <2>2. runs[e] \in RunType
      BY <2>1
    <2>3. runs[e].outcome \in {"running", "writing", "failed", "done"}
      BY <2>2 DEF RunType
    <2> QED
      BY <1>1, <2>3 DEF EndFits, IsOpen
  <1>3. PICK c \in Branches(Action(e)) : State(e, c).end = "threw" /\ Does(Code(e, c), {"throw"})
    BY <1>1, <1>2 DEF EndFits
  <1>4. b # c
    BY <1>3 DEF IsOpen
  <1> QED
    BY <1>1, <1>2, <1>3, <1>4 DEF EndFits, Straggles, Code, Action

LEMMA Taken ==
  ASSUME NEW S, NEW q \in Seq(S), q # <<>>, Distinct(q)
  PROVE  /\ Head(q) \in S /\ In(Head(q), q)
         /\ Tail(q) \in Seq(S) /\ Distinct(Tail(q))
         /\ \A t : In(t, Tail(q)) <=> In(t, q) /\ t # Head(q)
  <1>1. /\ Len(q) \in Nat \ {0} /\ Head(q) = q[1] /\ Tail(q) \in Seq(S)
        /\ Len(Tail(q)) = Len(q) - 1 /\ DOMAIN q = 1..Len(q)
        /\ \A i \in 1..Len(Tail(q)) : Tail(q)[i] = q[i + 1]
    BY HeadTailProperties, LenProperties
  <1>2. DOMAIN Tail(q) = 1..(Len(q) - 1)
    BY <1>1
  <1>3. Head(q) \in S /\ In(Head(q), q)
    BY <1>1 DEF In
  <1>4. Distinct(Tail(q))
    BY <1>1, <1>2 DEF Distinct
  <1>5. ASSUME NEW t PROVE In(t, Tail(q)) <=> In(t, q) /\ t # Head(q)
    <2>1. ASSUME In(t, Tail(q)) PROVE In(t, q) /\ t # Head(q)
      BY <1>1, <1>2, <2>1 DEF In, Distinct
    <2>2. ASSUME In(t, q), t # Head(q) PROVE In(t, Tail(q))
      <3>1. PICK i \in 1..Len(q) : q[i] = t
        BY <1>1, <2>2 DEF In
      <3>2. i # 1
        BY <1>1, <2>2, <3>1
      <3>3. i - 1 \in DOMAIN Tail(q) /\ Tail(q)[i - 1] = t
        BY <1>1, <1>2, <3>1, <3>2
      <3> QED
        BY <3>3 DEF In
    <2> QED
      BY <2>1, <2>2
  <1> QED
    BY <1>1, <1>3, <1>4, <1>5

LEMMA Added ==
  ASSUME NEW S, NEW q \in Seq(S), Distinct(q), NEW t \in S, ~In(t, q)
  PROVE  /\ Append(q, t) \in Seq(S) /\ Distinct(Append(q, t))
         /\ \A u : In(u, Append(q, t)) <=> In(u, q) \/ u = t
  <1>1. /\ Len(q) \in Nat /\ DOMAIN q = 1..Len(q)
        /\ Append(q, t) \in Seq(S) /\ DOMAIN Append(q, t) = 1..(Len(q) + 1)
        /\ Append(q, t)[Len(q) + 1] = t
        /\ \A i \in 1..Len(q) : Append(q, t)[i] = q[i]
    BY AppendProperties, LenProperties
  <1>2. Distinct(Append(q, t))
    BY <1>1 DEF Distinct, In
  <1>3. ASSUME NEW u PROVE In(u, Append(q, t)) <=> In(u, q) \/ u = t
    BY <1>1 DEF In
  <1> QED
    BY <1>1, <1>2, <1>3

-----------------------------------------------------------------------------
(* What a step does not touch *)

\* An execution that a step does not concern.
LEMMA FitsKept ==
  ASSUME NEW f \in DOMAIN runs, Fits(f), f \in Nat,
         runs'[f] = runs[f], branch'[f] = branch[f], entries'[f] = entries[f],
         \A g \in 1..(f - 1) : runs'[g].action = runs[g].action,
         \A r \in reads' : r.run = f => r \in reads
  PROVE  Fits(f)'
  <1>1. /\ Action(f)' = Action(f) /\ \A b : Code(f, b)' = Code(f, b)
        /\ \A b : State(f, b)' = State(f, b) /\ Undisturbed(f)' = Undisturbed(f)
        /\ \A key : Has(f, key)' = Has(f, key)
    BY DEF Action, Code, State, Undisturbed, Has
  <1>2. EndFits(f)' /\ WritesFit(f)' /\ OwnFit(f)'
    BY <1>1 DEF Fits, EndFits, WritesFit, OwnFit
  <1>3. \A b \in Branches(Action(f)') : BranchFits(f, b)'
    BY <1>1 DEF Fits, BranchFits, InCode, Op
  <1>4. ASSUME NEW histories, Explains(f, histories) PROVE Explains(f, histories)'
    <2>1. \A key : EntryFits(f, histories, key)'
      BY <1>1, <1>4 DEF Explains, EntryFits
    <2> QED
      BY <1>1, <1>4, <2>1 DEF Explains
  <1>5. Explained(f)'
    BY <1>1, <1>4 DEF Fits, Explained
  <1> QED
    BY <1>2, <1>3, <1>5 DEF Fits

\* A branch, in a step.
LEMMA BranchTaken ==
  ASSUME TypeOK, NEW e \in DOMAIN runs, NEW b \in Branches(Action(e)), NEW s, IsState(s),
         runs' = runs, branch' = [branch EXCEPT ![e] = [@ EXCEPT ![b] = s]]
  PROVE  /\ State(e, b)' = s
         /\ \A c \in Branches(Action(e)) : c # b => State(e, c)' = State(e, c)
         /\ \A f \in DOMAIN runs : f # e => branch'[f] = branch[f]
         /\ Long(branch', Len(runs))
         /\ \A f \in DOMAIN runs :
              /\ DOMAIN branch'[f] = Branches(Action(f))
              /\ \A c \in Branches(Action(f)) : IsState(State(f, c)')
         /\ \A f : Action(f)' = Action(f) /\ \A c : Code(f, c)' = Code(f, c)
  <1>1. runs \in Seq(RunType) /\ Long(branch, Len(runs)) /\ DOMAIN branch[e] = Branches(Action(e))
    BY DEF TypeOK
  <1>2. DOMAIN branch = DOMAIN runs
    BY <1>1 DEF Long
  <1>3. /\ State(e, b)' = s
        /\ \A c \in Branches(Action(e)) : c # b => State(e, c)' = State(e, c)
        /\ \A f \in DOMAIN runs : f # e => branch'[f] = branch[f]
        /\ DOMAIN branch'[e] = Branches(Action(e))
    BY <1>1, <1>2 DEF State
  <1>4. Long(branch', Len(runs))
    BY <1>1, <1>2 DEF Long
  <1>5. ASSUME NEW f \in DOMAIN runs
        PROVE  /\ DOMAIN branch'[f] = Branches(Action(f))
               /\ \A c \in Branches(Action(f)) : IsState(State(f, c)')
    <2>1. CASE f = e
      <3>1. ASSUME NEW c \in Branches(Action(e)) PROVE IsState(State(e, c)')
        <4>1. State(e, c)' = s \/ State(e, c)' = State(e, c)
          BY <1>3
        <4>2. IsState(State(e, c))
          BY DEF TypeOK
        <4> QED
          BY <4>1, <4>2
      <3> QED
        BY <1>3, <2>1, <3>1
    <2>2. CASE f # e
      BY <1>3, <2>2 DEF TypeOK, State
    <2> QED
      BY <2>1, <2>2
  <1>6. \A f : Action(f)' = Action(f) /\ \A c : Code(f, c)' = Code(f, c)
    BY DEF Action, Code
  <1> QED
    BY <1>3, <1>4, <1>5, <1>6

\* Of an execution that failed little is left to say.
LEMMA FailedKept ==
  ASSUME ExecutionInv, NEW e \in DOMAIN runs, NEW b \in Branches(Action(e)), IsOpen(e, b),
         e # context, NEW s, IsState(s),
         runs' = runs, branch' = [branch EXCEPT ![e] = [@ EXCEPT ![b] = s]],
         entries'[e] = entries[e],
         s.at <= Len(Code(e, b)) + 1,
         s.end = "returned" => s.at = Len(Code(e, b)) + 1,
         \A i \in 1..(s.at - 1) : Code(e, b)[i].do # "throw"
  PROVE  Fits(e)'
  <1>t. TypeOK /\ Fits(e)
    BY DEF ExecutionInv
  <1>1. runs[e].outcome = "failed"
    <2>1. runs[e] \in RunType
      BY <1>t DEF TypeOK
    <2>2. runs[e].outcome # "running" /\ runs[e].outcome \in {"running", "writing", "failed", "done"}
      BY <2>1 DEF ExecutionInv, ContextFits, RunType
    <2> QED
      BY <1>t, <2>2 DEF Fits, EndFits, IsOpen
  <1>2. /\ State(e, b)' = s
        /\ \A c \in Branches(Action(e)) : c # b => State(e, c)' = State(e, c)
        /\ Action(e)' = Action(e) /\ \A c : Code(e, c)' = Code(e, c)
    BY <1>t, BranchTaken
  <1>3. EndFits(e)'
    <2>1. PICK c \in Branches(Action(e)) : State(e, c).end = "threw" /\ Does(Code(e, c), {"throw"})
      BY <1>1, <1>t DEF Fits, EndFits
    <2>2. State(e, c)' = State(e, c)
      BY <1>2, <2>1 DEF IsOpen
    <2> QED
      BY <1>1, <1>2, <1>t, <2>1, <2>2 DEF Fits, EndFits
  <1>4. WritesFit(e)' /\ Explained(e)'
    BY <1>1 DEF WritesFit, Explained
  <1>5. OwnFit(e)'
    BY <1>2, <1>t DEF Fits, OwnFit, Undisturbed
  <1>6. ASSUME NEW c \in Branches(Action(e)) PROVE BranchFits(e, c)'
    <2>1. CASE c = b
      BY <1>1, <1>2, <2>1 DEF BranchFits
    <2>2. CASE c # b
      BY <1>1, <1>2, <1>t, <2>2 DEF Fits, BranchFits
    <2> QED
      BY <2>1, <2>2
  <1> QED
    BY <1>2, <1>3, <1>4, <1>5, <1>6 DEF Fits

-----------------------------------------------------------------------------
(* A turn of a branch *)

Turn(e, b, s) ==
  /\ UNCHANGED <<kind, context, runs>>
  /\ branch' = [branch EXCEPT ![e] = [@ EXCEPT ![b] = s]]
  /\ jobs' \in Seq(Nat \X Nat) /\ due' \in BOOLEAN /\ inside' \in BOOLEAN
  /\ PlacesFit'

\* What is left to show of a turn that leaves the entries alone.
LEMMA TurnFits ==
  ASSUME ExecutionInv, NEW e \in DOMAIN runs, NEW b \in Branches(Action(e)), NEW s, IsState(s),
         Turn(e, b, s), entries' = entries, reads' \subseteq reads, Fits(e)'
  PROVE  ExecutionInv'
  <1>t. TypeOK /\ runs' = runs /\ context' = context
    BY DEF ExecutionInv, Turn
  <1>1. /\ \A f \in DOMAIN runs : f # e => branch'[f] = branch[f]
        /\ Long(branch', Len(runs))
        /\ \A f \in DOMAIN runs :
             /\ DOMAIN branch'[f] = Branches(Action(f))
             /\ \A c \in Branches(Action(f)) : IsState(State(f, c)')
        /\ \A f : Action(f)' = Action(f) /\ \A c : Code(f, c)' = Code(f, c)
    BY <1>t, BranchTaken DEF Turn
  <1>2. TypeOK'
    BY <1>t, <1>1 DEF TypeOK, Turn
  <1>3. ContextFits' /\ ReadsFit'
    BY <1>t DEF ExecutionInv, ContextFits, ReadsFit
  <1>4. ASSUME NEW f \in DOMAIN runs, f # e PROVE Fits(f)'
    <2>1. f \in Nat /\ Fits(f) /\ branch'[f] = branch[f]
      <3>1. runs \in Seq(RunType)
        BY <1>t DEF TypeOK
      <3> QED
        BY <1>1, <1>4, <3>1 DEF ExecutionInv
    <2> QED
      BY <1>t, <2>1, FitsKept
  <1> QED
    BY <1>t, <1>2, <1>3, <1>4 DEF ExecutionInv, Turn

\* The branch ends.
LEMMA StopFits ==
  ASSUME ExecutionInv, NEW e \in DOMAIN runs, NEW b \in Branches(Action(e)), IsOpen(e, b),
         NEW s, IsState(s), s.at = State(e, b).at, s.saw = State(e, b).saw, s.end # "open",
         s.end = "returned" => ~InCode(e, b),
         s.end = "threw" /\ context = e => InCode(e, b) /\ Op(e, b).do = "throw",
         Turn(e, b, s), entries' = entries, reads' \subseteq reads
  PROVE  ExecutionInv'
  <1>t. TypeOK /\ Fits(e) /\ runs' = runs /\ BranchFits(e, b)
    BY DEF ExecutionInv, Fits, Turn
  <1>c. Len(Code(e, b)) \in Nat /\ State(e, b).at \in Nat \ {0}
    BY <1>t, Text DEF IsState
  <1>1. /\ State(e, b)' = s
        /\ \A c \in Branches(Action(e)) : c # b => State(e, c)' = State(e, c)
        /\ Action(e)' = Action(e) /\ \A c : Code(e, c)' = Code(e, c)
    BY <1>t, BranchTaken DEF Turn
  <1>2. s.end = "returned" => s.at = Len(Code(e, b)) + 1
    BY <1>c, <1>t DEF InCode, BranchFits
  <1>3. CASE e # context
    <2>1. Fits(e)'
      BY <1>2, <1>3, <1>t, FailedKept DEF Turn, BranchFits
    <2> QED
      BY <2>1, TurnFits
  <1>4. CASE e = context
    <2>r. runs[e].outcome = "running"
      BY <1>4 DEF ExecutionInv, ContextFits
    <2>a. \A c \in Branches(Action(e)) :
            State(e, c)'.at = State(e, c).at /\ State(e, c)'.saw = State(e, c).saw
      BY <1>1
    <2>1. EndFits(e)'
      BY <1>t, <2>r DEF EndFits
    <2>2. WritesFit(e)' /\ OwnFit(e)'
      BY <1>1, <1>t, <2>a DEF Fits, WritesFit, OwnFit, Undisturbed, Has
    <2>3. Explained(e)'
      <3>1. ASSUME NEW histories, Explains(e, histories) PROVE Explains(e, histories)'
        <4>1. \A key : EntryFits(e, histories, key)'
          BY <1>1, <2>a, <3>1 DEF Explains, EntryFits, Has
        <4>2. \A r \in reads : r.run = e => r.branch \in Branches(Action(e))
          BY DEF ExecutionInv, PlacesFit, IsOpen, IsBranch
        <4> QED
          BY <1>1, <2>a, <3>1, <4>1, <4>2 DEF Explains
      <3> QED
        BY <1>1, <1>t, <3>1 DEF Fits, Explained, Undisturbed
    <2>4. ASSUME NEW c \in Branches(Action(e)) PROVE BranchFits(e, c)'
      <3>1. CASE c = b
        BY <1>1, <1>2, <1>4, <1>t, <3>1 DEF BranchFits, InCode, Op
      <3>2. CASE c # b
        BY <1>1, <1>t, <3>2 DEF Fits, BranchFits, InCode, Op
      <3> QED
        BY <3>1, <3>2
    <2>5. Fits(e)'
      BY <1>1, <2>1, <2>2, <2>3, <2>4 DEF Fits
    <2> QED
      BY <2>5, TurnFits
  <1> QED
    BY <1>3, <1>4

\* A history that goes on.
Longer(h, n, saw) == [i \in 1..(n + 1) |-> IF i = n + 1 THEN saw ELSE h[i]]

LEMMA FindsSame ==
  ASSUME NEW a, NEW code, NEW h, NEW g, NEW n \in Nat, \A j \in 1..(n - 1) : h[j] = g[j],
         NEW value, Finds(a, code, h, n, value)
  PROVE  Finds(a, code, g, n, value)
  <1>1. CASE NoWrite(code, code[n].key, n) /\ value = Old
    BY <1>1 DEF Finds
  <1>2. ASSUME NEW j, IsLast(code, code[n].key, n, j), value = Puts(a, code[j], h[j])
        PROVE  Finds(a, code, g, n, value)
    <2>1. h[j] = g[j]
      BY <1>2 DEF IsLast
    <2> QED
      BY <1>2, <2>1 DEF Finds
  <1> QED
    BY <1>1, <1>2 DEF Finds

LEMMA HistoryLonger ==
  ASSUME NEW a, NEW code, NEW n \in Nat \ {0}, NEW saw, NEW h, HistoryFits(a, code, n, saw, h),
         NEW next,
         IF code[n].do = "get"
           THEN \E value : Finds(a, code, h, n, value) /\ next = Append(saw, value)
           ELSE next = saw
  PROVE  HistoryFits(a, code, n + 1, next, Longer(h, n, next))
  <1> DEFINE g == Longer(h, n, next)
  <1>1. g[n + 1] = next /\ \A i \in 1..n : g[i] = h[i]
    BY DEF Longer
  <1> HIDE DEF g
  <1>2. g[1] = <<>>
    BY <1>1 DEF HistoryFits
  <1>3. ASSUME NEW i \in 1..n
        PROVE  IF code[i].do = "get"
                 THEN \E value : Finds(a, code, g, i, value) /\ g[i + 1] = Append(g[i], value)
                 ELSE g[i + 1] = g[i]
    <2>1. \A value : Finds(a, code, h, i, value) => Finds(a, code, g, i, value)
      BY <1>1, FindsSame
    <2>2. CASE i = n
      <3>1. g[i] = saw /\ g[i + 1] = next
        BY <1>1, <2>2 DEF HistoryFits
      <3> QED
        BY <2>1, <2>2, <3>1
    <2>3. CASE i # n
      <3>1. i \in 1..(n - 1) /\ g[i] = h[i] /\ g[i + 1] = h[i + 1]
        BY <1>1, <2>3
      <3> QED
        BY <2>1, <3>1 DEF HistoryFits
    <2> QED
      BY <2>2, <2>3
  <1>4. HistoryFits(a, code, n + 1, next, g)
    BY <1>1, <1>2, <1>3 DEF HistoryFits
  <1> QED
    BY <1>4 DEF g

\* Two operations of different branches on one entry, one of them a write.
LEMMA CrossesIf ==
  ASSUME NEW a, NEW b \in Branches(a), NEW c \in Branches(a), b # c,
         NEW n \in DOMAIN Program[a].branches[b], NEW j \in DOMAIN Program[a].branches[c],
         Program[a].branches[b][n].do # "throw", Program[a].branches[c][j].do \in Writes,
         Program[a].branches[b][n].key = Program[a].branches[c][j].key
  PROVE  Crosses(a)
  BY DEF Crosses

\* The branch has what it read.
LEMMA SeeFits ==
  ASSUME ExecutionInv, NEW e \in DOMAIN runs, NEW b \in Branches(Action(e)), IsOpen(e, b),
         InCode(e, b), Op(e, b).do = "get",
         NEW s, IsState(s), s.at = State(e, b).at + 1, s.end = "open",
         context = e => \E r \in reads :
           r.run = e /\ r.branch = b /\ s.saw = Append(State(e, b).saw, r.value),
         Turn(e, b, s), entries' = entries, reads' \subseteq reads,
         \A r \in reads' : r.run = e => r.branch # b
  PROVE  ExecutionInv'
  <1> DEFINE n == State(e, b).at
  <1>t. TypeOK /\ Fits(e) /\ runs' = runs /\ BranchFits(e, b)
    BY DEF ExecutionInv, Fits, Turn
  <1>c. Len(Code(e, b)) \in Nat /\ n \in Nat \ {0}
    BY <1>t, Text DEF IsState
  <1>1. /\ State(e, b)' = s
        /\ \A c \in Branches(Action(e)) : c # b => State(e, c)' = State(e, c)
        /\ Action(e)' = Action(e) /\ \A c : Code(e, c)' = Code(e, c)
    BY <1>t, BranchTaken DEF Turn
  <1>2. s.at <= Len(Code(e, b)) + 1 /\ \A i \in 1..(s.at - 1) : Code(e, b)[i].do # "throw"
    BY <1>c, <1>t DEF InCode, BranchFits, Op
  <1>3. CASE e # context
    <2>1. Fits(e)'
      BY <1>2, <1>3, <1>t, FailedKept DEF Turn
    <2> QED
      BY <2>1, TurnFits
  <1>4. CASE e = context
    <2>r. runs[e].outcome = "running"
      BY <1>4 DEF ExecutionInv, ContextFits
    <2>1. EndFits(e)'
      BY <1>t, <2>r DEF EndFits
    <2>2. OwnFit(e)'
      BY <1>1, <1>t DEF Fits, OwnFit, Undisturbed
    <2>3. WritesFit(e)'
      <3>1. ASSUME NEW c \in Branches(Action(e)), NEW i \in 1..(State(e, c)'.at - 1),
                   Code(e, c)[i].do \in Writes
            PROVE  i \in 1..(State(e, c).at - 1)
        <4>1. CASE c = b
          <5>1. i # n
            BY <3>1, <4>1 DEF Op, Writes
          <5> QED
            BY <1>1, <1>c, <4>1, <5>1
        <4>2. CASE c # b
          BY <1>1, <4>2
        <4> QED
          BY <4>1, <4>2
      <3> QED
        BY <1>1, <1>t, <2>r, <3>1 DEF Fits, WritesFit, Has
    <2>4. Explained(e)'
      <3>1. ASSUME NEW histories, Explains(e, histories)
            PROVE  \E others : Explains(e, others)'
        <4> DEFINE h == histories[b]
        <4>p. PICK longer : longer = [c \in Branches(Action(e)) |->
                                        IF c = b THEN Longer(h, n, s.saw) ELSE histories[c]]
          OBVIOUS
        <4>1. PICK r \in reads : /\ r.run = e /\ r.branch = b
                                 /\ s.saw = Append(State(e, b).saw, r.value)
          BY <1>4
        <4>2. Finds(Action(e), Code(e, b), h, n, r.value)
          BY <3>1, <4>1 DEF Explains
        <4>3. HistoryFits(Action(e), Code(e, b), n, State(e, b).saw, h)
          BY <3>1 DEF Explains
        <4>4. HistoryFits(Action(e), Code(e, b), n + 1, s.saw, Longer(h, n, s.saw))
          <5>1. Code(e, b)[n].do = "get"
            BY DEF Op
          <5>2. IF Code(e, b)[n].do = "get"
                  THEN \E value : /\ Finds(Action(e), Code(e, b), h, n, value)
                                  /\ s.saw = Append(State(e, b).saw, value)
                  ELSE s.saw = State(e, b).saw
            BY <4>1, <4>2, <5>1
          <5> HIDE DEF n, h
          <5> QED
            BY <1>c, <4>3, <5>2, HistoryLonger
        <4>5. /\ longer[b] = Longer(h, n, s.saw)
              /\ \A c \in Branches(Action(e)) : c # b => longer[c] = histories[c]
              /\ \A j \in 1..n : longer[b][j] = histories[b][j]
          BY <1>c, <4>p DEF Longer
        <4> HIDE DEF h
        <4>6. \A c \in Branches(Action(e)) :
                HistoryFits(Action(e), Code(e, c), State(e, c)'.at, State(e, c)'.saw, longer[c])
          BY <1>1, <3>1, <4>4, <4>5 DEF Explains
        <4>7. ASSUME NEW q \in reads', q.run = e
              PROVE  Finds(Action(e), Code(e, q.branch), longer[q.branch],
                           State(e, q.branch)'.at, q.value)
          <5>1. q \in reads /\ q.branch # b /\ q.branch \in Branches(Action(e))
            BY <4>7 DEF ExecutionInv, PlacesFit, IsOpen, IsBranch
          <5> QED
            BY <1>1, <3>1, <4>5, <4>7, <5>1 DEF Explains
        <4>8. ASSUME NEW key PROVE EntryFits(e, longer, key)'
          <5>1. \A c \in Branches(Action(e)) : \A j : IsLast(Code(e, c), key, State(e, c).at, j) =>
                  /\ IsLast(Code(e, c), key, State(e, c)'.at, j)
                  /\ longer[c][j] = histories[c][j]
            <6> SUFFICES ASSUME NEW c \in Branches(Action(e)), NEW j,
                                IsLast(Code(e, c), key, State(e, c).at, j)
                         PROVE  /\ IsLast(Code(e, c), key, State(e, c)'.at, j)
                                /\ longer[c][j] = histories[c][j]
              OBVIOUS
            <6>1. CASE c = b
              BY <1>1, <1>c, <4>5, <6>1 DEF IsLast, Op, Writes
            <6>2. CASE c # b
              BY <1>1, <4>5, <6>2
            <6> QED
              BY <6>1, <6>2
          <5>2. \A c \in Branches(Action(e)) :
                  NoWrite(Code(e, c), key, State(e, c).at) => NoWrite(Code(e, c), key, State(e, c)'.at)
            <6> SUFFICES ASSUME NEW c \in Branches(Action(e)), NoWrite(Code(e, c), key, State(e, c).at)
                         PROVE  NoWrite(Code(e, c), key, State(e, c)'.at)
              OBVIOUS
            <6>1. CASE c = b
              BY <1>1, <1>c, <6>1 DEF NoWrite, Op, Writes
            <6>2. CASE c # b
              BY <1>1, <6>2
            <6> QED
              BY <6>1, <6>2
          <5>3. CASE Has(e, key)
            <6>1. PICK c, j :
                    /\ c \in Branches(Action(e))
                    /\ IsLast(Code(e, c), key, State(e, c).at, j)
                    /\ entries[e][key] = Puts(Action(e), Code(e, c)[j], histories[c][j])
              BY <3>1, <5>3 DEF Explains, EntryFits
            <6>2. /\ IsLast(Code(e, c), key, State(e, c)'.at, j)
                  /\ entries'[e][key] = Puts(Action(e), Code(e, c)[j], longer[c][j])
              BY <5>1, <6>1
            <6> QED
              BY <1>1, <5>3, <6>1, <6>2 DEF EntryFits, Has
          <5>4. CASE ~Has(e, key)
            BY <1>1, <3>1, <5>2, <5>4 DEF Explains, EntryFits, Has
          <5> QED
            BY <5>3, <5>4
        <4>9. Explains(e, longer)'
          BY <1>1, <4>6, <4>7, <4>8 DEF Explains
        <4> QED
          BY <4>9
      <3> QED
        BY <1>1, <1>t, <3>1 DEF Fits, Explained, Undisturbed
    <2>5. ASSUME NEW c \in Branches(Action(e)) PROVE BranchFits(e, c)'
      <3>1. CASE c = b
        BY <1>1, <1>2, <3>1 DEF BranchFits
      <3>2. CASE c # b
        BY <1>1, <1>t, <3>2 DEF Fits, BranchFits, InCode, Op
      <3> QED
        BY <3>1, <3>2
    <2>6. Fits(e)'
      BY <1>1, <2>1, <2>2, <2>3, <2>4, <2>5 DEF Fits
    <2> QED
      BY <2>6, TurnFits
  <1> QED
    BY <1>3, <1>4

WritesEntry(key, value) ==
  context # None /\ entries' = [entries EXCEPT ![context] = With(@, key, value)]

\* What a turn does to the entries of the execution that has the context.
LEMMA PutTypes ==
  ASSUME ExecutionInv, NEW e \in DOMAIN runs, NEW b \in Branches(Action(e)), NEW s, IsState(s),
         Turn(e, b, s), NEW key, NEW value, WritesEntry(key, value), reads' = reads
  PROVE  /\ TypeOK' /\ ContextFits' /\ ReadsFit'
         /\ context \in DOMAIN runs
         /\ DOMAIN entries'[context] = DOMAIN entries[context] \cup {key}
         /\ entries'[context][key] = value
         /\ \A k \in DOMAIN entries[context] : k # key => entries'[context][k] = entries[context][k]
         /\ \A f \in DOMAIN runs : f # context => entries'[f] = entries[f]
  <1>t. TypeOK /\ runs' = runs /\ context' = context
    BY DEF ExecutionInv, Turn
  <1>1. /\ Long(branch', Len(runs))
        /\ \A f \in DOMAIN runs :
             /\ DOMAIN branch'[f] = Branches(Action(f))
             /\ \A c \in Branches(Action(f)) : IsState(State(f, c)')
        /\ \A f : Action(f)' = Action(f) /\ \A c : Code(f, c)' = Code(f, c)
    BY <1>t, BranchTaken DEF Turn
  <1>2. runs \in Seq(RunType) /\ Long(entries, Len(runs))
    BY <1>t DEF TypeOK
  <1>3. DOMAIN entries = DOMAIN runs /\ DOMAIN runs = 1..Len(runs) /\ Len(runs) \in Nat
    BY <1>2 DEF Long
  <1>4. context \in DOMAIN runs
    BY <1>3, <1>t DEF TypeOK, WritesEntry, None
  <1>5. /\ entries'[context] = With(entries[context], key, value)
        /\ \A f \in DOMAIN runs : f # context => entries'[f] = entries[f]
    BY <1>3, <1>4 DEF WritesEntry
  <1>6. /\ DOMAIN entries'[context] = DOMAIN entries[context] \cup {key}
        /\ entries'[context][key] = value
        /\ \A k \in DOMAIN entries[context] : k # key => entries'[context][k] = entries[context][k]
        /\ entries'[context] = [k \in DOMAIN entries'[context] |-> entries'[context][k]]
    BY <1>5 DEF With
  <1>7. Long(entries', Len(runs))
    BY <1>3 DEF Long, WritesEntry
  <1>8. \A f \in DOMAIN runs : entries'[f] = [k \in DOMAIN entries'[f] |-> entries'[f][k]]
    <2> SUFFICES ASSUME NEW f \in DOMAIN runs
                 PROVE  entries'[f] = [k \in DOMAIN entries'[f] |-> entries'[f][k]]
      OBVIOUS
    <2>1. CASE f = context
      BY <1>6, <2>1
    <2>2. CASE f # context
      <3>1. entries[f] = [k \in DOMAIN entries[f] |-> entries[f][k]]
        BY <1>t DEF TypeOK
      <3>2. entries'[f] = entries[f]
        BY <1>5, <2>2
      <3> QED
        BY <3>1, <3>2
    <2> QED
      BY <2>1, <2>2
  <1>9. TypeOK'
    BY <1>1, <1>7, <1>8, <1>t DEF TypeOK, Turn
  <1>10. ContextFits' /\ ReadsFit'
    BY <1>t DEF ExecutionInv, ContextFits, ReadsFit
  <1> QED
    BY <1>4, <1>5, <1>6, <1>9, <1>10

\* The branch has written, for the execution that has the context.
LEMMA PutFits ==
  ASSUME ExecutionInv, NEW e \in DOMAIN runs, NEW b \in Branches(Action(e)), IsOpen(e, b),
         InCode(e, b), Op(e, b).do \in Writes,
         NEW s, IsState(s), s.at = State(e, b).at + 1, s.saw = State(e, b).saw, s.end = "open",
         Turn(e, b, s),
         WritesEntry(Op(e, b).key, Puts(Action(e), Op(e, b), State(e, b).saw)),
         reads' = reads, \A r \in reads : r.run = e => r.branch # b
  PROVE  ExecutionInv'
  <1> DEFINE n == State(e, b).at
  <1>t. TypeOK /\ Fits(e) /\ runs' = runs /\ context' = context /\ BranchFits(e, b)
    BY DEF ExecutionInv, Fits, Turn
  <1>c. Len(Code(e, b)) \in Nat /\ n \in Nat \ {0} /\ Code(e, b)[n].do \in {"set", "delete"}
    BY <1>t, Text DEF IsState, Op, Writes
  <1>1. /\ State(e, b)' = s
        /\ \A c \in Branches(Action(e)) : c # b => State(e, c)' = State(e, c)
        /\ \A f \in DOMAIN runs : f # e => branch'[f] = branch[f]
        /\ \A f : Action(f)' = Action(f) /\ \A c : Code(f, c)' = Code(f, c)
    BY <1>t, BranchTaken DEF Turn
  <1>2. s.at <= Len(Code(e, b)) + 1 /\ \A i \in 1..(s.at - 1) : Code(e, b)[i].do # "throw"
    BY <1>c, <1>t DEF InCode, BranchFits
  <1>p. PICK key, value : key = Op(e, b).key /\ value = Puts(Action(e), Op(e, b), State(e, b).saw)
    OBVIOUS
  <1>3. /\ TypeOK' /\ ContextFits' /\ ReadsFit' /\ context \in DOMAIN runs
        /\ DOMAIN entries'[context] = DOMAIN entries[context] \cup {key}
        /\ entries'[context][key] = value
        /\ \A k \in DOMAIN entries[context] : k # key => entries'[context][k] = entries[context][k]
        /\ \A f \in DOMAIN runs : f # context => entries'[f] = entries[f]
    <2>1. WritesEntry(key, value)
      BY <1>p
    <2> QED
      BY <2>1, PutTypes
  <1>v. value[2] = Action(e)
    BY <1>p DEF Puts, Value, Null
  <1>o. ASSUME NEW f \in DOMAIN runs, f # e, f # context PROVE Fits(f)'
    <2>1. f \in Nat /\ Fits(f)
      <3>1. runs \in Seq(RunType)
        BY <1>t DEF TypeOK
      <3> QED
        BY <1>o, <3>1 DEF ExecutionInv
    <2> QED
      BY <1>1, <1>3, <1>o, <1>t, <2>1, FitsKept
  <1>4. CASE e # context
    <2>1. Fits(e)'
      BY <1>2, <1>3, <1>4, <1>t, FailedKept DEF Turn
    <2>2. ~Undisturbed(context)
      <3>1. Straggles(Action(e))
        <4>1. n \in DOMAIN Code(e, b)
          BY <1>c, <1>t, Text DEF InCode
        <4>2. Does(Code(e, b), Writes)
          BY <4>1 DEF Does, Op
        <4> QED
          BY <1>4, <4>2, Straggler
      <3>2. runs \in Seq(RunType) /\ context \in 1..Len(runs) /\ e \in 1..Len(runs)
        BY <1>3, <1>t DEF TypeOK
      <3>3. context = Len(runs)
        BY <1>3 DEF ExecutionInv, ContextFits
      <3>4. e \in 1..(context - 1)
        BY <1>4, <3>2, <3>3
      <3> QED
        BY <3>1, <3>4 DEF Undisturbed, Action
    <2>3. PICK g \in DOMAIN runs : g = context
      BY <1>3
    <2>4. /\ Fits(g) /\ ~Undisturbed(g) /\ g # e
          /\ \A k : Has(g, k) => Has(g, k)'
          /\ \A c : State(g, c)' = State(g, c)
      BY <1>1, <1>3, <1>4, <2>2, <2>3 DEF ExecutionInv, Has, State
    <2>5. EndFits(g)' /\ WritesFit(g)'
      BY <1>1, <1>t, <2>4 DEF Fits, EndFits, WritesFit
    <2>6. ~Undisturbed(g)'
      BY <1>t, <2>4 DEF Undisturbed
    <2>7. \A c \in Branches(Action(g)) : BranchFits(g, c)'
      BY <1>1, <1>t, <2>4 DEF Fits, BranchFits, InCode, Op
    <2>8. Fits(g)'
      BY <1>1, <2>5, <2>6, <2>7 DEF Fits, OwnFit, Explained
    <2> QED
      BY <1>3, <1>o, <1>t, <2>1, <2>3, <2>8 DEF ExecutionInv, Turn
  <1>5. CASE e = context
    <2>r. runs[e].outcome = "running"
      BY <1>5 DEF ExecutionInv, ContextFits
    <2>h. \A k : Has(e, k)' <=> Has(e, k) \/ k = key
      BY <1>3, <1>5 DEF Has
    <2>1. EndFits(e)'
      BY <1>t, <2>r DEF EndFits
    <2>2. OwnFit(e)'
      BY <1>1, <1>3, <1>5, <1>t, <1>v DEF Fits, OwnFit, Undisturbed
    <2>3. WritesFit(e)'
      <3>1. ASSUME NEW c \in Branches(Action(e)), NEW i \in 1..(State(e, c)'.at - 1),
                   Code(e, c)[i].do \in Writes
            PROVE  Code(e, c)[i].key \in DOMAIN entries'[e]
        <4>1. CASE i \in 1..(State(e, c).at - 1)
          BY <1>3, <1>5, <1>t, <2>r, <3>1, <4>1 DEF Fits, WritesFit, Has
        <4>2. CASE i \notin 1..(State(e, c).at - 1)
          <5>1. c = b /\ i = n
            BY <1>1, <1>c, <3>1, <4>2
          <5> QED
            BY <1>3, <1>5, <1>p, <5>1 DEF Op
        <4> QED
          BY <4>1, <4>2
      <3> QED
        BY <1>1, <3>1 DEF WritesFit, Has
    <2>4. Explained(e)'
      <3>1. ASSUME NEW histories, Explains(e, histories)
            PROVE  \E others : Explains(e, others)'
        <4> DEFINE h == histories[b]
        <4>p. PICK longer : longer = [c \in Branches(Action(e)) |->
                                        IF c = b THEN Longer(h, n, s.saw) ELSE histories[c]]
          OBVIOUS
        <4>3. HistoryFits(Action(e), Code(e, b), n, State(e, b).saw, h)
          BY <3>1 DEF Explains
        <4>4. HistoryFits(Action(e), Code(e, b), n + 1, s.saw, Longer(h, n, s.saw))
          <5>2. IF Code(e, b)[n].do = "get"
                  THEN \E found : /\ Finds(Action(e), Code(e, b), h, n, found)
                                  /\ s.saw = Append(State(e, b).saw, found)
                  ELSE s.saw = State(e, b).saw
            BY <1>c
          <5> HIDE DEF n, h
          <5> QED
            BY <1>c, <4>3, <5>2, HistoryLonger
        <4>5. /\ longer[b] = Longer(h, n, s.saw)
              /\ \A c \in Branches(Action(e)) : c # b => longer[c] = histories[c]
              /\ \A j \in 1..n : longer[b][j] = histories[b][j]
          BY <1>c, <4>p DEF Longer
        <4>6. histories[b][n] = State(e, b).saw
          BY <4>3 DEF HistoryFits
        <4> HIDE DEF h
        <4>7. \A c \in Branches(Action(e)) :
                HistoryFits(Action(e), Code(e, c), State(e, c)'.at, State(e, c)'.saw, longer[c])
          BY <1>1, <3>1, <4>4, <4>5 DEF Explains
        <4>8. ASSUME NEW q \in reads', q.run = e
              PROVE  Finds(Action(e), Code(e, q.branch), longer[q.branch],
                           State(e, q.branch)'.at, q.value)
          <5>1. q \in reads /\ q.branch # b /\ q.branch \in Branches(Action(e))
            BY <4>8 DEF ExecutionInv, PlacesFit, IsOpen, IsBranch
          <5> QED
            BY <1>1, <3>1, <4>5, <4>8, <5>1 DEF Explains
        <4>9. EntryFits(e, longer, key)'
          <5>1. IsLast(Code(e, b), key, n + 1, n)
            BY <1>c, <1>p DEF IsLast, Op
          <5>2. entries'[e][key] = Puts(Action(e), Code(e, b)[n], longer[b][n])
            BY <1>3, <1>5, <1>c, <1>p, <4>5, <4>6 DEF Op
          <5> QED
            BY <1>1, <2>h, <5>1, <5>2 DEF EntryFits
        <4>10. ASSUME NEW k, k # key PROVE EntryFits(e, longer, k)'
          <5>1. \A c \in Branches(Action(e)) : \A j : IsLast(Code(e, c), k, State(e, c).at, j) =>
                  /\ IsLast(Code(e, c), k, State(e, c)'.at, j)
                  /\ longer[c][j] = histories[c][j]
            <6> SUFFICES ASSUME NEW c \in Branches(Action(e)), NEW j,
                                IsLast(Code(e, c), k, State(e, c).at, j)
                         PROVE  /\ IsLast(Code(e, c), k, State(e, c)'.at, j)
                                /\ longer[c][j] = histories[c][j]
              OBVIOUS
            <6>1. CASE c = b
              <7>1. State(e, b).at = n /\ State(e, b)'.at = n + 1 /\ Code(e, b)[n].key # k
                BY <1>1, <1>p, <4>10 DEF Op
              <7>2. IsLast(Code(e, b), k, n + 1, j)
                BY <1>c, <6>1, <7>1 DEF IsLast
              <7>3. j \in 1..(n - 1)
                BY <6>1, <7>1 DEF IsLast
              <7>4. longer[b][j] = histories[b][j]
                BY <1>c, <4>5, <7>3
              <7> QED
                BY <6>1, <7>1, <7>2, <7>4
            <6>2. CASE c # b
              BY <1>1, <4>5, <6>2
            <6> QED
              BY <6>1, <6>2
          <5>2. \A c \in Branches(Action(e)) :
                  NoWrite(Code(e, c), k, State(e, c).at) => NoWrite(Code(e, c), k, State(e, c)'.at)
            <6> SUFFICES ASSUME NEW c \in Branches(Action(e)), NoWrite(Code(e, c), k, State(e, c).at)
                         PROVE  NoWrite(Code(e, c), k, State(e, c)'.at)
              OBVIOUS
            <6>1. CASE c = b
              BY <1>1, <1>c, <1>p, <4>10, <6>1 DEF NoWrite, Op
            <6>2. CASE c # b
              BY <1>1, <6>2
            <6> QED
              BY <6>1, <6>2
          <5>3. CASE Has(e, k)
            <6>1. PICK c, j :
                    /\ c \in Branches(Action(e))
                    /\ IsLast(Code(e, c), k, State(e, c).at, j)
                    /\ entries[e][k] = Puts(Action(e), Code(e, c)[j], histories[c][j])
              BY <3>1, <5>3 DEF Explains, EntryFits
            <6>2. entries'[e][k] = entries[e][k]
              BY <1>3, <1>5, <4>10, <5>3 DEF Has
            <6>3. /\ IsLast(Code(e, c), k, State(e, c)'.at, j)
                  /\ entries'[e][k] = Puts(Action(e), Code(e, c)[j], longer[c][j])
              BY <5>1, <6>1, <6>2
            <6> QED
              BY <1>1, <2>h, <5>3, <6>1, <6>3 DEF EntryFits
          <5>4. CASE ~Has(e, k)
            BY <1>1, <2>h, <3>1, <4>10, <5>2, <5>4 DEF Explains, EntryFits
          <5> QED
            BY <5>3, <5>4
        <4>11. \A k : EntryFits(e, longer, k)'
          BY <4>9, <4>10
        <4>12. Explains(e, longer)'
          BY <1>1, <4>7, <4>8, <4>11 DEF Explains
        <4> QED
          BY <4>12
      <3> QED
        BY <1>1, <1>t, <3>1 DEF Fits, Explained, Undisturbed
    <2>5. ASSUME NEW c \in Branches(Action(e)) PROVE BranchFits(e, c)'
      <3>1. CASE c = b
        BY <1>1, <1>2, <3>1 DEF BranchFits
      <3>2. CASE c # b
        BY <1>1, <1>t, <3>2 DEF Fits, BranchFits, InCode, Op
      <3> QED
        BY <3>1, <3>2
    <2>6. Fits(e)'
      BY <1>1, <2>1, <2>2, <2>3, <2>4, <2>5 DEF Fits
    <2> QED
      BY <1>3, <1>5, <1>o, <1>t, <2>6 DEF ExecutionInv, Turn
  <1> QED
    BY <1>4, <1>5

\* The branch reads: what it has written itself, if no other may have.
LEMMA GetFits ==
  ASSUME ExecutionInv, NEW e \in DOMAIN runs, NEW b \in Branches(Action(e)), IsOpen(e, b),
         InCode(e, b), Op(e, b).do = "get",
         UNCHANGED <<kind, context, runs, entries, branch>>, context # None,
         jobs' \in Seq(Nat \X Nat), due' \in BOOLEAN, inside' \in BOOLEAN, PlacesFit',
         NEW r, r.run = e, r.branch = b, r.for = context,
         r.value = IF Has(context, Op(e, b).key) THEN entries[context][Op(e, b).key] ELSE Old,
         reads' = reads \cup {r}
  PROVE  ExecutionInv'
  <1> DEFINE n == State(e, b).at
             key == Op(e, b).key
  <1>t. TypeOK /\ Fits(e)
    BY DEF ExecutionInv
  <1>1. /\ \A f : Action(f)' = Action(f) /\ \A c : Code(f, c)' = Code(f, c)
        /\ \A f, c : State(f, c)' = State(f, c)
        /\ \A f, k : Has(f, k)' = Has(f, k)
        /\ \A f : Undisturbed(f)' = Undisturbed(f)
    BY DEF Action, Code, State, Has, Undisturbed
  <1>2. TypeOK'
    BY <1>t, <1>1 DEF TypeOK
  <1>3. ContextFits' /\ ReadsFit'
    BY DEF ExecutionInv, ContextFits, ReadsFit
  <1>4. ASSUME NEW f \in DOMAIN runs, f # e PROVE Fits(f)'
    <2>1. f \in Nat /\ Fits(f)
      <3>1. runs \in Seq(RunType)
        BY <1>t DEF TypeOK
      <3> QED
        BY <1>4, <3>1 DEF ExecutionInv
    <2> QED
      BY <1>4, <2>1, FitsKept
  <1>5. EndFits(e)' /\ WritesFit(e)' /\ OwnFit(e)'
    BY <1>1, <1>t DEF Fits, EndFits, WritesFit, OwnFit
  <1>6. \A c \in Branches(Action(e)) : BranchFits(e, c)'
    BY <1>1, <1>t DEF Fits, BranchFits, InCode, Op
  <1>7. Explained(e)'
    <2>1. ASSUME runs[e].outcome # "failed", ~Crosses(Action(e)),
                 NEW histories, Explains(e, histories)
          PROVE  Explains(e, histories)'
      <3>c. context = e
        <4>1. runs[e].outcome \in {"running", "writing", "failed", "done"}
          <5>1. runs[e] \in RunType
            BY <1>t DEF TypeOK
          <5> QED
            BY <5>1 DEF RunType
        <4>2. runs[e].outcome = "running"
          BY <1>t, <2>1, <4>1 DEF Fits, EndFits, IsOpen
        <4> QED
          BY <4>2 DEF ExecutionInv, ContextFits
      <3>1. Finds(Action(e), Code(e, b), histories[b], n, r.value)
        <4>1. CASE Has(e, key)
          <5>1. PICK c, j :
                  /\ c \in Branches(Action(e))
                  /\ IsLast(Code(e, c), key, State(e, c).at, j)
                  /\ entries[e][key] = Puts(Action(e), Code(e, c)[j], histories[c][j])
            BY <2>1, <4>1 DEF Explains, EntryFits
          <5>2. c = b
            <6>1. Len(Code(e, b)) \in Nat /\ n \in Nat \ {0} /\ DOMAIN Code(e, b) = 1..Len(Code(e, b))
              BY <1>t, Text DEF IsState
            <6>2. /\ Len(Code(e, c)) \in Nat /\ State(e, c).at \in Nat \ {0}
                  /\ DOMAIN Code(e, c) = 1..Len(Code(e, c))
                  /\ State(e, c).at <= Len(Code(e, c)) + 1
              BY <1>t, <5>1, Text DEF IsState, Fits, BranchFits
            <6>3. n \in DOMAIN Code(e, b) /\ j \in DOMAIN Code(e, c)
              BY <5>1, <6>1, <6>2 DEF IsLast, InCode
            <6>4. /\ Code(e, b)[n].do # "throw" /\ Code(e, c)[j].do \in Writes
                  /\ Code(e, b)[n].key = Code(e, c)[j].key
              BY <5>1 DEF IsLast, Op
            <6>5. /\ Code(e, b) = Program[Action(e)].branches[b]
                  /\ Code(e, c) = Program[Action(e)].branches[c]
              BY <1>t, <5>1, Text
            <6> QED
              <7>1. PICK x, y : x = Code(e, b) /\ y = Code(e, c)
                OBVIOUS
              <7>2. ~Crosses(Action(e)) /\ b \in Branches(Action(e)) /\ c \in Branches(Action(e))
                BY <2>1, <5>1
              <7>3. ASSUME b # c PROVE Crosses(Action(e))
                <8>1. /\ x = Program[Action(e)].branches[b] /\ n \in DOMAIN x
                      /\ y = Program[Action(e)].branches[c] /\ j \in DOMAIN y
                      /\ x[n].do # "throw" /\ y[j].do \in Writes /\ x[n].key = y[j].key
                  BY <6>3, <6>4, <6>5, <7>1
                <8> QED
                  BY <7>2, <7>3, <8>1, CrossesIf
              <7> QED
                BY <7>2, <7>3
          <5>3. r.value = entries[e][key] /\ key = Code(e, b)[n].key
            BY <3>c, <4>1 DEF Op
          <5> QED
            BY <5>1, <5>2, <5>3 DEF Finds
        <4>2. CASE ~Has(e, key)
          <5>1. NoWrite(Code(e, b), key, n) /\ r.value = Old
            BY <2>1, <3>c, <4>2 DEF Explains, EntryFits
          <5> QED
            BY <5>1 DEF Finds, Op
        <4> QED
          BY <4>1, <4>2
      <3>2. \A k : EntryFits(e, histories, k)'
        BY <1>1, <2>1 DEF Explains, EntryFits
      <3>3. ASSUME NEW q \in reads', q.run = e
            PROVE  Finds(Action(e), Code(e, q.branch), histories[q.branch], State(e, q.branch).at, q.value)
        BY <2>1, <3>1, <3>3 DEF Explains
      <3> QED
        BY <1>1, <2>1, <3>2, <3>3 DEF Explains
    <2> QED
      BY <1>1, <1>t, <2>1 DEF Fits, Explained
  <1>8. Fits(e)'
    BY <1>1, <1>5, <1>6, <1>7 DEF Fits
  <1> QED
    BY <1>2, <1>3, <1>4, <1>8 DEF ExecutionInv

\* Where the branches are after a turn of one of them.
LEMMA PlacesKept ==
  ASSUME TypeOK, PlacesFit, NEW e \in DOMAIN runs, NEW b \in Branches(Action(e)),
         NEW s, IsState(s), runs' = runs, branch' = [branch EXCEPT ![e] = [@ EXCEPT ![b] = s]],
         Distinct(jobs'), reads' \subseteq reads,
         \A r \in reads' : r.run = e => r.branch # b,
         \A t \in Nat \X Nat : In(t, jobs') =>
           \/ In(t, jobs) /\ t # <<e, b>>
           \/ t = <<e, b>> /\ s.end = "open"
  PROVE  PlacesFit'
  <1>1. /\ State(e, b)' = s
        /\ \A c \in Branches(Action(e)) : c # b => State(e, c)' = State(e, c)
        /\ \A f \in DOMAIN runs : f # e => branch'[f] = branch[f]
        /\ \A f : Action(f)' = Action(f) /\ \A c : Code(f, c)' = Code(f, c)
    BY BranchTaken
  <1>2. ASSUME NEW f, NEW c, IsOpen(f, c), f # e \/ c # b
        PROVE  IsOpen(f, c)' /\ State(f, c)' = State(f, c)
    <2>1. State(f, c)' = State(f, c)
      BY <1>1, <1>2 DEF IsOpen, IsBranch, State
    <2> QED
      BY <1>1, <1>2, <2>1 DEF IsOpen, IsBranch
  <1>3. ASSUME NEW t \in Nat \X Nat, In(t, jobs') PROVE IsOpen(t[1], t[2])'
    <2>1. CASE In(t, jobs) /\ t # <<e, b>>
      <3>1. IsOpen(t[1], t[2]) /\ (t[1] # e \/ t[2] # b)
        BY <2>1 DEF PlacesFit
      <3>2. PICK f, c : f = t[1] /\ c = t[2]
        OBVIOUS
      <3> QED
        BY <1>2, <3>1, <3>2
    <2>2. CASE t = <<e, b>> /\ s.end = "open"
      <3>1. IsOpen(e, b)'
        BY <1>1, <2>2 DEF IsOpen, IsBranch
      <3> QED
        BY <2>2, <3>1
    <2> QED
      BY <1>3, <2>1, <2>2
  <1>4. ASSUME NEW r \in reads'
        PROVE  /\ IsOpen(r.run, r.branch)' /\ InCode(r.run, r.branch)'
               /\ Op(r.run, r.branch)'.do = "get" /\ ~In(<<r.run, r.branch>>, jobs')
    <2>1. /\ r \in reads /\ IsOpen(r.run, r.branch) /\ InCode(r.run, r.branch)
          /\ Op(r.run, r.branch).do = "get" /\ ~In(<<r.run, r.branch>>, jobs)
          /\ (r.run # e \/ r.branch # b)
      BY <1>4 DEF PlacesFit
    <2>2. PICK f, c : f = r.run /\ c = r.branch
      OBVIOUS
    <2>3. IsOpen(f, c)' /\ State(f, c)' = State(f, c)
      BY <1>2, <2>1, <2>2
    <2>4. InCode(f, c)' /\ Op(f, c)' = Op(f, c)
      BY <1>1, <2>1, <2>2, <2>3 DEF InCode, Op
    <2>5. <<f, c>> \in Nat \X Nat
      <3>1. f \in DOMAIN runs /\ c \in Branches(Action(f))
        BY <2>1, <2>2 DEF IsOpen, IsBranch
      <3> QED
        BY <3>1, Text
    <2>6. ~In(<<f, c>>, jobs')
      BY <2>1, <2>2, <2>5
    <2> QED
      BY <2>1, <2>2, <2>3, <2>4, <2>6
  <1>5. \A r, q \in reads' : r.run = q.run /\ r.branch = q.branch => r = q
    BY DEF PlacesFit
  <1> QED
    BY <1>3, <1>4, <1>5 DEF PlacesFit

\* The state that a branch is left in.
LEMMA EndsAs ==
  ASSUME TypeOK, NEW e \in DOMAIN runs, NEW b \in Branches(Action(e)),
         NEW how \in {"returned", "threw"}, Ends(e, b, how)
  PROVE  \E s : /\ IsState(s) /\ s.at = State(e, b).at /\ s.saw = State(e, b).saw /\ s.end = how
                /\ branch' = [branch EXCEPT ![e] = [@ EXCEPT ![b] = s]]
  <1> DEFINE s == [State(e, b) EXCEPT !.end = how]
  <1>1. IsState(State(e, b))
    BY Text
  <1>2. IsState(s) /\ s.at = State(e, b).at /\ s.saw = State(e, b).saw /\ s.end = how
    BY <1>1 DEF IsState
  <1>3. branch' = [branch EXCEPT ![e] = [@ EXCEPT ![b] = s]]
    BY DEF Ends, State
  <1> QED
    BY <1>2, <1>3

LEMMA GoesOnAs ==
  ASSUME TypeOK, NEW e \in DOMAIN runs, NEW b \in Branches(Action(e)), IsOpen(e, b), GoesOn(e, b)
  PROVE  \E s : /\ IsState(s) /\ s.at = State(e, b).at + 1 /\ s.saw = State(e, b).saw
                /\ s.end = "open" /\ branch' = [branch EXCEPT ![e] = [@ EXCEPT ![b] = s]]
  <1> DEFINE s == [State(e, b) EXCEPT !.at = @ + 1]
  <1>1. IsState(State(e, b))
    BY Text
  <1>2. IsState(s) /\ s.at = State(e, b).at + 1 /\ s.saw = State(e, b).saw /\ s.end = "open"
    BY <1>1 DEF IsState, IsOpen
  <1>3. branch' = [branch EXCEPT ![e] = [@ EXCEPT ![b] = s]]
    BY DEF GoesOn, State
  <1> QED
    BY <1>2, <1>3

LEMMA SeesAs ==
  ASSUME TypeOK, NEW e \in DOMAIN runs, NEW b \in Branches(Action(e)), IsOpen(e, b),
         NEW value, Sees(e, b, value)
  PROVE  \E s : /\ IsState(s) /\ s.at = State(e, b).at + 1
                /\ s.saw = Append(State(e, b).saw, value) /\ s.end = "open"
                /\ branch' = [branch EXCEPT ![e] = [@ EXCEPT ![b] = s]]
  <1> DEFINE s == [State(e, b) EXCEPT !.at = @ + 1, !.saw = Append(@, value)]
  <1>1. IsState(State(e, b))
    BY Text
  <1>2. /\ IsState(s) /\ s.at = State(e, b).at + 1
        /\ s.saw = Append(State(e, b).saw, value) /\ s.end = "open"
    BY <1>1 DEF IsState, IsOpen
  <1>3. branch' = [branch EXCEPT ![e] = [@ EXCEPT ![b] = s]]
    <2>1. /\ e \in DOMAIN branch /\ b \in DOMAIN branch[e]
          /\ DOMAIN State(e, b) = {"at", "saw", "end"}
      <3>1. runs \in Seq(RunType) /\ Long(branch, Len(runs)) /\ DOMAIN branch[e] = Branches(Action(e))
        BY DEF TypeOK
      <3>2. DOMAIN branch = DOMAIN runs
        BY <3>1 DEF Long
      <3> QED
        BY <1>1, <3>1, <3>2 DEF IsState
    <2> QED
      BY <2>1 DEF Sees, State
  <1> QED
    BY <1>2, <1>3

\* The job that is taken, and the queue without it.
IsNext(e, b) ==
  /\ Head(jobs) = <<e, b>> /\ Head(jobs)[1] = e /\ Head(jobs)[2] = b /\ IsOpen(e, b)
  /\ \A r \in reads : r.run = e => r.branch # b
  /\ Tail(jobs) \in Seq(Nat \X Nat) /\ Distinct(Tail(jobs))
  /\ \A t : In(t, Tail(jobs)) => In(t, jobs) /\ t # <<e, b>>
  /\ Append(Tail(jobs), <<e, b>>) \in Seq(Nat \X Nat)
  /\ Distinct(Append(Tail(jobs), <<e, b>>))
  /\ \A t : In(t, Append(Tail(jobs), <<e, b>>)) =>
       (In(t, jobs) /\ t # <<e, b>>) \/ t = <<e, b>>

LEMMA JobTaken == ASSUME ExecutionInv, jobs # <<>> PROVE \E e, b : IsNext(e, b)
  <1>1. jobs \in Seq(Nat \X Nat) /\ Distinct(jobs) /\ PlacesFit
    BY DEF ExecutionInv, TypeOK, PlacesFit
  <1>2. /\ Head(jobs) \in Nat \X Nat /\ In(Head(jobs), jobs)
        /\ Tail(jobs) \in Seq(Nat \X Nat) /\ Distinct(Tail(jobs))
        /\ \A t : In(t, Tail(jobs)) <=> In(t, jobs) /\ t # Head(jobs)
    BY <1>1, Taken
  <1>3. /\ Append(Tail(jobs), Head(jobs)) \in Seq(Nat \X Nat)
        /\ Distinct(Append(Tail(jobs), Head(jobs)))
        /\ \A t : In(t, Append(Tail(jobs), Head(jobs))) <=> In(t, Tail(jobs)) \/ t = Head(jobs)
    <2>2. PICK S, t : S = Nat \X Nat /\ t = Head(jobs)
      OBVIOUS
    <2>3. t \in S /\ Tail(jobs) \in Seq(S) /\ Distinct(Tail(jobs)) /\ ~In(t, Tail(jobs))
      BY <1>2, <2>2
    <2>4. /\ Append(Tail(jobs), t) \in Seq(S) /\ Distinct(Append(Tail(jobs), t))
          /\ \A u : In(u, Append(Tail(jobs), t)) <=> In(u, Tail(jobs)) \/ u = t
      BY <2>3, Added
    <2> QED
      BY <2>2, <2>4
  <1>4. PICK e, b : Head(jobs) = <<e, b>> /\ Head(jobs)[1] = e /\ Head(jobs)[2] = b
    BY <1>2
  <1>5. IsOpen(e, b)
    BY <1>1, <1>2, <1>4 DEF PlacesFit
  <1>6. ASSUME NEW r \in reads, r.run = e PROVE r.branch # b
    BY <1>1, <1>2, <1>4, <1>6 DEF PlacesFit
  <1> QED
    BY <1>2, <1>3, <1>4, <1>5, <1>6 DEF IsNext

LEMMA RunJobFits == ASSUME ExecutionInv, RunJob PROVE ExecutionInv'
  <1>t. TypeOK /\ PlacesFit /\ jobs # <<>>
    BY DEF ExecutionInv, RunJob
  <1>p. PICK e, b : IsNext(e, b)
    BY <1>t, JobTaken
  <1>1. /\ e \in DOMAIN runs /\ b \in Branches(Action(e))
        /\ Head(jobs) = <<e, b>> /\ Head(jobs)[1] = e /\ Head(jobs)[2] = b /\ IsOpen(e, b)
        /\ \A r \in reads : r.run = e => r.branch # b
        /\ Tail(jobs) \in Seq(Nat \X Nat) /\ Distinct(Tail(jobs))
        /\ \A t : In(t, Tail(jobs)) => In(t, jobs) /\ t # <<e, b>>
        /\ Append(Tail(jobs), <<e, b>>) \in Seq(Nat \X Nat)
        /\ Distinct(Append(Tail(jobs), <<e, b>>))
        /\ \A t : In(t, Append(Tail(jobs), <<e, b>>)) =>
             (In(t, jobs) /\ t # <<e, b>>) \/ t = <<e, b>>
    BY <1>p DEF IsNext, IsOpen, IsBranch
  <1>e. e \in DOMAIN runs /\ b \in Branches(Action(e)) /\ IsOpen(e, b)
    BY <1>1
  <1>2. /\ UNCHANGED <<kind, context, runs, due>> /\ due' \in BOOLEAN /\ inside' \in BOOLEAN
        /\ IF InCode(e, b) THEN Operation(e, b, Op(e, b))
           ELSE Ends(e, b, "returned") /\ jobs' = Tail(jobs) /\ UNCHANGED <<entries, reads>>
    BY <1>1, <1>t DEF RunJob, TypeOK, InCode, Op, State
  <1>3. e \in 1..Len(runs)
    BY <1>e, <1>t, Text
  \* It ends.
  <1>4. ASSUME NEW how \in {"returned", "threw"}, Ends(e, b, how), jobs' = Tail(jobs),
               UNCHANGED <<entries, reads>>, how = "returned" => ~InCode(e, b),
               how = "threw" /\ context = e => InCode(e, b) /\ Op(e, b).do = "throw"
        PROVE  ExecutionInv'
    <2>1. PICK s : /\ IsState(s) /\ s.at = State(e, b).at /\ s.saw = State(e, b).saw /\ s.end = how
                   /\ branch' = [branch EXCEPT ![e] = [@ EXCEPT ![b] = s]]
      BY <1>4, <1>e, <1>t, EndsAs
    <2>2. PlacesFit'
      <3>1. /\ Distinct(jobs') /\ \A r \in reads' : r.run = e => r.branch # b
            /\ reads' = reads /\ runs' = runs
            /\ \A t \in Nat \X Nat : In(t, jobs') =>
                 (In(t, jobs) /\ t # <<e, b>>) \/ (t = <<e, b>> /\ s.end = "open")
        BY <1>1, <1>2, <1>4, <2>1
      <3> QED
        BY <1>e, <1>t, <2>1, <3>1, PlacesKept
    <2>3. Turn(e, b, s)
      BY <1>1, <1>2, <1>4, <2>1, <2>2 DEF Turn
    <2> QED
      BY <1>1, <1>4, <2>1, <2>3, StopFits
  \* It goes on after having read.
  <1>5. ASSUME InCode(e, b), Op(e, b).do = "get", context = None, NEW value, Sees(e, b, value),
               jobs' = Append(Tail(jobs), <<e, b>>), UNCHANGED <<entries, reads>>
        PROVE  ExecutionInv'
    <2>1. PICK s : /\ IsState(s) /\ s.at = State(e, b).at + 1
                   /\ s.saw = Append(State(e, b).saw, value) /\ s.end = "open"
                   /\ branch' = [branch EXCEPT ![e] = [@ EXCEPT ![b] = s]]
      BY <1>5, <1>e, <1>t, SeesAs
    <2>2. PlacesFit'
      <3>1. /\ Distinct(jobs') /\ \A r \in reads' : r.run = e => r.branch # b
            /\ reads' = reads /\ runs' = runs
            /\ \A t \in Nat \X Nat : In(t, jobs') =>
                 (In(t, jobs) /\ t # <<e, b>>) \/ (t = <<e, b>> /\ s.end = "open")
        BY <1>1, <1>2, <1>5, <2>1
      <3> QED
        BY <1>e, <1>t, <2>1, <3>1, PlacesKept
    <2>3. Turn(e, b, s)
      BY <1>1, <1>2, <1>5, <2>1, <2>2 DEF Turn
    <2>4. context # e
      BY <1>3, <1>5 DEF None
    <2> QED
      BY <1>1, <1>5, <2>1, <2>3, <2>4, SeeFits
  \* It goes on after having written.
  <1>6. ASSUME InCode(e, b), Op(e, b).do \in Writes, context # None, GoesOn(e, b),
               entries' = [entries EXCEPT ![context] =
                             With(@, Op(e, b).key, Puts(Action(e), Op(e, b), State(e, b).saw))],
               jobs' = Append(Tail(jobs), <<e, b>>), UNCHANGED reads
        PROVE  ExecutionInv'
    <2>1. PICK s : /\ IsState(s) /\ s.at = State(e, b).at + 1 /\ s.saw = State(e, b).saw
                   /\ s.end = "open" /\ branch' = [branch EXCEPT ![e] = [@ EXCEPT ![b] = s]]
      BY <1>6, <1>e, <1>t, GoesOnAs
    <2>2. PlacesFit'
      <3>1. /\ Distinct(jobs') /\ \A r \in reads' : r.run = e => r.branch # b
            /\ reads' = reads /\ runs' = runs
            /\ \A t \in Nat \X Nat : In(t, jobs') =>
                 (In(t, jobs) /\ t # <<e, b>>) \/ (t = <<e, b>> /\ s.end = "open")
        BY <1>1, <1>2, <1>6, <2>1
      <3> QED
        BY <1>e, <1>t, <2>1, <3>1, PlacesKept
    <2>3. Turn(e, b, s)
      BY <1>1, <1>2, <1>6, <2>1, <2>2 DEF Turn
    <2>4. WritesEntry(Op(e, b).key, Puts(Action(e), Op(e, b), State(e, b).saw))
      BY <1>6 DEF WritesEntry
    <2> QED
      BY <1>1, <1>6, <2>1, <2>3, <2>4, PutFits
  \* It asks the database.
  <1>7. ASSUME InCode(e, b), Op(e, b).do = "get", context # None,
               reads' = reads \cup {[run |-> e, branch |-> b, for |-> context,
                 value |-> IF Has(context, Op(e, b).key) THEN entries[context][Op(e, b).key] ELSE Old]},
               jobs' = Tail(jobs), UNCHANGED <<entries, branch>>
        PROVE  ExecutionInv'
    <2>1. PICK r : /\ r.run = e /\ r.branch = b /\ r.for = context
                   /\ r.value = IF Has(context, Op(e, b).key) THEN entries[context][Op(e, b).key] ELSE Old
                   /\ reads' = reads \cup {r}
      <3> DEFINE q == [run |-> e, branch |-> b, for |-> context,
                       value |-> IF Has(context, Op(e, b).key)
                                   THEN entries[context][Op(e, b).key] ELSE Old]
      <3>1. /\ q.run = e /\ q.branch = b /\ q.for = context
            /\ q.value = IF Has(context, Op(e, b).key) THEN entries[context][Op(e, b).key] ELSE Old
        OBVIOUS
      <3>2. reads' = reads \cup {q}
        BY <1>7
      <3> HIDE DEF q
      <3> QED
        BY <3>1, <3>2
    <2>2. PlacesFit'
      <3>1. /\ \A f, c : IsOpen(f, c)' = IsOpen(f, c)
            /\ \A f, c : InCode(f, c)' = InCode(f, c) /\ Op(f, c)' = Op(f, c)
        BY <1>2, <1>7 DEF IsOpen, IsBranch, InCode, Op, State, Code, Action
      <3>2. \A t : In(t, jobs') => In(t, jobs) /\ t # <<e, b>>
        BY <1>1, <1>7
      <3>3. Distinct(jobs')
        BY <1>1, <1>7
      <3>4. \A t \in Nat \X Nat : In(t, jobs') => IsOpen(t[1], t[2])'
        BY <1>t, <3>1, <3>2 DEF PlacesFit
      <3>5. ASSUME NEW q \in reads'
            PROVE  /\ IsOpen(q.run, q.branch)' /\ InCode(q.run, q.branch)'
                   /\ Op(q.run, q.branch)'.do = "get" /\ ~In(<<q.run, q.branch>>, jobs')
        <4>1. CASE q = r
          BY <1>1, <1>7, <2>1, <3>1, <3>2, <4>1
        <4>2. CASE q \in reads
          BY <1>t, <3>1, <3>2, <4>2 DEF PlacesFit
        <4> QED
          BY <2>1, <4>1, <4>2
      <3>6. \A q, p \in reads' : q.run = p.run /\ q.branch = p.branch => q = p
        <4>1. \A q \in reads : ~(q.run = r.run /\ q.branch = r.branch)
          BY <1>1, <2>1
        <4>2. \A q, p \in reads : q.run = p.run /\ q.branch = p.branch => q = p
          BY <1>t DEF PlacesFit
        <4> QED
          BY <2>1, <4>1, <4>2
      <3> QED
        BY <3>3, <3>4, <3>5, <3>6 DEF PlacesFit
    <2> QED
      BY <1>1, <1>2, <1>7, <2>1, <2>2, GetFits
  <1>8. CASE ~InCode(e, b)
    BY <1>2, <1>4, <1>8
  <1>9. CASE InCode(e, b)
    <2>1. Operation(e, b, Op(e, b))
      BY <1>2, <1>9
    <2>2. CASE Op(e, b).do = "get" /\ Get(e, b, Op(e, b).key)
      <3>1. CASE context # None
        BY <1>7, <1>9, <2>2, <3>1 DEF Get
      <3>2. CASE context = None /\ kind = "contract"
        BY <1>5, <1>9, <2>2, <3>2 DEF Get
      <3>3. CASE context = None /\ kind # "contract"
        <4>1. context # e
          BY <1>3, <3>3 DEF None
        <4> QED
          BY <1>4, <2>2, <3>3, <4>1 DEF Get
      <3> QED
        BY <3>1, <3>2, <3>3
    <2>3. ASSUME NEW value, Op(e, b).do \in Writes, Put(e, b, Op(e, b).key, value),
                 value = Puts(Action(e), Op(e, b), State(e, b).saw)
          PROVE  ExecutionInv'
      <3>1. CASE context # None
        BY <1>6, <1>9, <2>3, <3>1 DEF Put
      <3>2. CASE context = None
        <4>1. context # e
          BY <1>3, <3>2 DEF None
        <4> QED
          BY <1>4, <2>3, <3>2, <4>1 DEF Put
      <3> QED
        BY <3>1, <3>2
    <2>4. CASE Op(e, b).do = "set" /\ Put(e, b, Op(e, b).key, Value(runs[e].action, branch[e][b].saw))
      <3>1. Value(runs[e].action, branch[e][b].saw) = Puts(Action(e), Op(e, b), State(e, b).saw)
        BY <2>4 DEF Puts, Action, State
      <3> QED
        BY <2>3, <2>4, <3>1 DEF Writes
    <2>5. CASE Op(e, b).do = "delete" /\ Put(e, b, Op(e, b).key, Null(runs[e].action))
      <3>1. Null(runs[e].action) = Puts(Action(e), Op(e, b), State(e, b).saw)
        BY <2>5 DEF Puts, Action
      <3> QED
        BY <2>3, <2>5, <3>1 DEF Writes
    <2>6. CASE /\ Op(e, b).do = "throw" /\ Ends(e, b, "threw") /\ jobs' = Tail(jobs)
               /\ UNCHANGED <<entries, reads>>
      BY <1>4, <1>9, <2>6
    <2> QED
      BY <2>1, <2>2, <2>4, <2>5, <2>6 DEF Operation
  <1> QED
    BY <1>8, <1>9

LEMMA SettleFits == ASSUME ExecutionInv, NEW r \in reads, Settle(r) PROVE ExecutionInv'
  <1>t. TypeOK /\ PlacesFit /\ ReadsFit
    BY DEF ExecutionInv
  <1>p. PICK e, b, value : e = r.run /\ b = r.branch /\ value = r.value
    OBVIOUS
  <1>e. e \in DOMAIN runs /\ b \in Branches(Action(e)) /\ IsOpen(e, b)
    BY <1>t, <1>p DEF PlacesFit, IsOpen, IsBranch
  <1>1. /\ InCode(e, b) /\ Op(e, b).do = "get" /\ ~In(<<e, b>>, jobs)
        /\ \A q \in reads' : q.run = e => q.branch # b
        /\ reads' \subseteq reads
    BY <1>t, <1>p DEF PlacesFit, Settle
  <1>2. /\ UNCHANGED <<kind, context, runs, entries>> /\ due' \in BOOLEAN /\ inside' \in BOOLEAN
    BY <1>t DEF Settle, TypeOK
  <1>3. jobs \in Seq(Nat \X Nat) /\ Distinct(jobs)
    BY <1>t DEF TypeOK, PlacesFit
  \* The branch goes on with what it has read.
  <1>4. CASE Sees(r.run, r.branch, r.value) /\ jobs' = Append(jobs, <<r.run, r.branch>>)
    <2>s. Sees(e, b, value)
      BY <1>4, <1>p DEF Sees
    <2>1. PICK s : /\ IsState(s) /\ s.at = State(e, b).at + 1
                   /\ s.saw = Append(State(e, b).saw, value) /\ s.end = "open"
                   /\ branch' = [branch EXCEPT ![e] = [@ EXCEPT ![b] = s]]
      BY <2>s, <1>e, <1>t, SeesAs
    <2>2. /\ jobs' \in Seq(Nat \X Nat) /\ Distinct(jobs')
          /\ \A u : In(u, jobs') <=> In(u, jobs) \/ u = <<e, b>>
      <3>1. PICK S, t : S = Nat \X Nat /\ t = <<e, b>>
        OBVIOUS
      <3>2. t \in S
        BY <1>e, <1>t, <3>1, Text
      <3>3. jobs \in Seq(S) /\ ~In(t, jobs) /\ jobs' = Append(jobs, t)
        BY <1>1, <1>3, <1>4, <1>p, <3>1
      <3>4. /\ Append(jobs, t) \in Seq(S) /\ Distinct(Append(jobs, t))
            /\ \A u : In(u, Append(jobs, t)) <=> In(u, jobs) \/ u = t
        BY <1>3, <3>2, <3>3, Added
      <3> QED
        BY <3>1, <3>3, <3>4
    <2>3. PlacesFit'
      <3>1. /\ IsState(s) /\ branch' = [branch EXCEPT ![e] = [@ EXCEPT ![b] = s]]
            /\ runs' = runs /\ Distinct(jobs') /\ reads' \subseteq reads
            /\ \A q \in reads' : q.run = e => q.branch # b
            /\ \A t \in Nat \X Nat : In(t, jobs') =>
                 (In(t, jobs) /\ t # <<e, b>>) \/ (t = <<e, b>> /\ s.end = "open")
        BY <1>1, <1>2, <2>1, <2>2
      <3> QED
        BY <1>e, <1>t, <3>1, PlacesKept
    <2>4. Turn(e, b, s)
      BY <1>2, <2>1, <2>2, <2>3 DEF Turn
    <2> QED
      BY <1>1, <1>2, <1>e, <1>p, <2>1, <2>4, SeeFits, SMTT(20)
  \* Its transaction was over, and so was its execution.
  <1>5. CASE r.for # context /\ Ends(r.run, r.branch, "threw") /\ UNCHANGED jobs
    <2>s. Ends(e, b, "threw")
      BY <1>5, <1>p DEF Ends
    <2>1. PICK s : /\ IsState(s) /\ s.at = State(e, b).at /\ s.saw = State(e, b).saw
                   /\ s.end = "threw" /\ branch' = [branch EXCEPT ![e] = [@ EXCEPT ![b] = s]]
      BY <2>s, <1>e, <1>t, EndsAs
    <2>2. context # e
      BY <1>5, <1>p, <1>t DEF ReadsFit
    <2>3. PlacesFit'
      <3>1. Distinct(jobs') /\ \A t \in Nat \X Nat : In(t, jobs') =>
              (In(t, jobs) /\ t # <<e, b>>) \/ (t = <<e, b>> /\ s.end = "open")
        BY <1>1, <1>3, <1>5
      <3> QED
        BY <1>1, <1>2, <1>e, <1>t, <2>1, <3>1, PlacesKept
    <2>4. Turn(e, b, s)
      BY <1>2, <1>3, <1>5, <2>1, <2>3 DEF Turn
    <2> QED
      BY <1>1, <1>2, <1>e, <2>1, <2>2, <2>4, StopFits
  <1> QED
    BY <1>4, <1>5 DEF Settle

\* The calls of the branches of a handler, before what is due.
LEMMA Called ==
  ASSUME NEW n \in Nat, NEW e \in Nat, NEW q \in Seq(Nat \X Nat), Distinct(q),
         \A t \in Nat \X Nat : In(t, q) => t[1] # e,
         NEW begun, begun = [b \in 1..n |-> <<e, b>>]
  PROVE  /\ begun \o q \in Seq(Nat \X Nat) /\ Distinct(begun \o q)
         /\ \A t : In(t, begun \o q) => (\E b \in 1..n : t = <<e, b>>) \/ In(t, q)
  <1>1. begun \in Seq(Nat \X Nat) /\ Len(begun) = n
    <2>1. \A b \in 1..n : begun[b] \in Nat \X Nat
      OBVIOUS
    <2> QED
      BY <2>1
  <1>2. /\ begun \o q \in Seq(Nat \X Nat) /\ Len(begun \o q) = n + Len(q)
        /\ \A i \in 1..(n + Len(q)) :
             (begun \o q)[i] = IF i <= n THEN begun[i] ELSE q[i - n]
    BY <1>1, ConcatProperties
  <1>3. Len(q) \in Nat /\ DOMAIN q = 1..Len(q) /\ DOMAIN (begun \o q) = 1..(n + Len(q))
    BY <1>2
  <1>4. ASSUME NEW i \in 1..Len(q) PROVE q[i] \in Nat \X Nat /\ q[i][1] # e
    <2>1. q[i] \in Nat \X Nat
      BY ElementOfSeq
    <2>2. In(q[i], q)
      BY <1>3 DEF In
    <2> QED
      BY <2>1, <2>2
  <1>5. ASSUME NEW i \in 1..(n + Len(q))
        PROVE  \/ i \in 1..n /\ (begun \o q)[i] = <<e, i>>
               \/ i - n \in 1..Len(q) /\ (begun \o q)[i] = q[i - n]
    <2>1. CASE i <= n
      BY <1>2, <1>3, <2>1
    <2>2. CASE ~(i <= n)
      BY <1>2, <1>3, <2>2
    <2> QED
      BY <2>1, <2>2
  <1>6. Distinct(begun \o q)
    <2>1. ASSUME NEW i \in 1..(n + Len(q)), NEW j \in 1..(n + Len(q)),
                 (begun \o q)[i] = (begun \o q)[j]
          PROVE  i = j
      <3>1. CASE i \in 1..n /\ (begun \o q)[i] = <<e, i>>
        <4>1. (begun \o q)[j][1] = e
          BY <2>1, <3>1
        <4>2. j \in 1..n /\ (begun \o q)[j] = <<e, j>>
          BY <1>4, <1>5, <4>1
        <4> QED
          BY <2>1, <3>1, <4>2
      <3>2. CASE i - n \in 1..Len(q) /\ (begun \o q)[i] = q[i - n]
        <4>1. (begun \o q)[j][1] # e
          BY <1>4, <2>1, <3>2
        <4>2. j - n \in 1..Len(q) /\ (begun \o q)[j] = q[j - n]
          BY <1>5, <4>1
        <4>3. i - n = j - n
          BY <1>3, <2>1, <3>2, <4>2 DEF Distinct
        <4> QED
          BY <4>3
      <3> QED
        BY <1>5, <3>1, <3>2
    <2> QED
      BY <1>3, <2>1 DEF Distinct
  <1>7. ASSUME NEW t, In(t, begun \o q) PROVE (\E b \in 1..n : t = <<e, b>>) \/ In(t, q)
    <2>1. PICK i \in 1..(n + Len(q)) : (begun \o q)[i] = t
      BY <1>3, <1>7 DEF In
    <2> QED
      BY <1>3, <1>5, <2>1 DEF In
  <1> QED
    BY <1>2, <1>6, <1>7

\* The history of an execution that begins.
LEMMA StartFits ==
  ASSUME NEW e \in Nat, NEW a \in Actions, Action(e)' = a, branch'[e] = Start(a),
         entries'[e] = <<>>, runs'[e].outcome = "running", \A r \in reads' : r.run # e
  PROVE  Fits(e)'
  <1>1. \A b \in Branches(a) : /\ State(e, b)' = [at |-> 1, saw |-> <<>>, end |-> "open"]
                              /\ Code(e, b)' = Program[a].branches[b]
    BY DEF Start, State, Code, Action
  <1>2. ASSUME NEW b \in Branches(a) PROVE Len(Program[a].branches[b]) \in Nat
    <2>1. Program[a].branches \in Seq(Seq([do : {"get", "set", "delete", "throw"}, key : Keys]))
      BY ProgramAssumption
    <2>2. Program[a].branches[b] \in Seq([do : {"get", "set", "delete", "throw"}, key : Keys])
      BY <2>1 DEF Branches
    <2> QED
      BY <2>2
  <1>3. \A b \in Branches(Action(e)') : BranchFits(e, b)'
    BY <1>1, <1>2 DEF BranchFits
  <1>4. EndFits(e)' /\ WritesFit(e)' /\ OwnFit(e)'
    BY <1>1 DEF EndFits, WritesFit, OwnFit
  <1>5. Explained(e)'
    <2> DEFINE histories == [b \in Branches(a) |-> [i \in 1..1 |-> <<>>]]
    <2>1. PICK hs : hs = histories
      OBVIOUS
    <2>2. \A b \in Branches(a) :
            HistoryFits(a, Program[a].branches[b], 1, <<>>, hs[b])
      BY <2>1 DEF HistoryFits
    <2>3. \A b \in Branches(a) :
            HistoryFits(a, Code(e, b)', State(e, b)'.at, State(e, b)'.saw, hs[b])
      BY <1>1, <2>2
    <2>4. \A key : EntryFits(e, hs, key)'
      BY <1>1 DEF EntryFits, Has, NoWrite
    <2>5. Explains(e, hs)'
      BY <2>3, <2>4 DEF Explains
    <2> QED
      BY <2>5 DEF Explained
  <1> QED
    BY <1>3, <1>4, <1>5 DEF Fits

LEMMA ExecuteFits ==
  ASSUME ExecutionInv, NEW a \in Actions, Execute(a) PROVE ExecutionInv'
  <1>t. TypeOK /\ PlacesFit /\ ContextFits /\ ReadsFit /\ \A f \in DOMAIN runs : Fits(f)
    BY DEF ExecutionInv
  <1>p. PICK n, e : n = Len(runs) /\ e = Len(runs) + 1
    OBVIOUS
  <1>1. /\ runs \in Seq(RunType) /\ n \in Nat /\ e = n + 1 /\ DOMAIN runs = 1..n
        /\ jobs \in Seq(Nat \X Nat)
    BY <1>t, <1>p DEF TypeOK
  <1>2. /\ runs' = Append(runs, [action |-> a, outcome |-> "running"]) /\ context' = e
        /\ entries' = Append(entries, <<>>) /\ branch' = Append(branch, Start(a))
        /\ jobs' = Calls(a, e) \o jobs /\ inside' \in BOOLEAN
        /\ UNCHANGED <<kind, reads, due>> /\ ~InProgress
    BY <1>p DEF Execute
  <1>3. /\ runs' \in Seq(RunType) /\ Len(runs') = e /\ DOMAIN runs' = 1..e
        /\ \A f \in 1..n : runs'[f] = runs[f]
        /\ runs'[e] = [action |-> a, outcome |-> "running"]
    <2>1. [action |-> a, outcome |-> "running"] \in RunType
      BY DEF RunType
    <2> QED
      BY <1>1, <1>2, <1>p, <2>1, AppendProperties
  <1>4. /\ Long(entries', e) /\ Long(branch', e)
        /\ \A f \in 1..n : entries'[f] = entries[f] /\ branch'[f] = branch[f]
        /\ entries'[e] = <<>> /\ branch'[e] = Start(a)
    <2>1. Long(entries, n) /\ Long(branch, n)
      BY <1>t, <1>p DEF TypeOK
    <2>2. /\ entries' = [i \in 1..(n + 1) |-> IF i = n + 1 THEN <<>> ELSE entries[i]]
          /\ Long(entries', n + 1)
      BY <1>1, <1>2, <2>1, Grows
    <2>3. /\ branch' = [i \in 1..(n + 1) |-> IF i = n + 1 THEN Start(a) ELSE branch[i]]
          /\ Long(branch', n + 1)
      BY <1>1, <1>2, <2>1, Grows
    <2> QED
      BY <1>1, <2>2, <2>3
  <1>5. /\ Action(e)' = a
        /\ \A f \in 1..n : /\ Action(f)' = Action(f)
                          /\ \A b : State(f, b)' = State(f, b) /\ Code(f, b)' = Code(f, b)
    BY <1>3, <1>4 DEF Action, State, Code
  <1>6. \A b \in Branches(a) : State(e, b)' = [at |-> 1, saw |-> <<>>, end |-> "open"]
    BY <1>4 DEF State, Start
  <1>7. \A f \in 1..n : runs[f].outcome \notin {"running", "writing"}
    BY <1>1, <1>2 DEF InProgress
  <1>8. \A r \in reads : r.run \in 1..n
    BY <1>1, <1>t DEF PlacesFit, IsOpen, IsBranch
  <1>9. /\ jobs' \in Seq(Nat \X Nat) /\ Distinct(jobs')
        /\ \A t : In(t, jobs') => (\E b \in Branches(a) : t = <<e, b>>) \/ In(t, jobs)
    <2>1. PICK m : m \in Nat /\ Branches(a) = 1..m
      <3>1. Program[a].branches \in Seq(Seq([do : {"get", "set", "delete", "throw"}, key : Keys]))
        BY ProgramAssumption
      <3>2. Len(Program[a].branches) \in Nat /\ Branches(a) = 1..Len(Program[a].branches)
        BY <3>1 DEF Branches
      <3> QED
        BY <3>2
    <2>2. PICK begun : begun = Calls(a, e) /\ begun = [b \in 1..m |-> <<e, b>>]
      BY <2>1 DEF Calls
    <2>3. Distinct(jobs) /\ \A t \in Nat \X Nat : In(t, jobs) => t[1] # e
      BY <1>1, <1>t DEF PlacesFit, IsOpen, IsBranch
    <2>4. /\ begun \o jobs \in Seq(Nat \X Nat) /\ Distinct(begun \o jobs)
          /\ \A t : In(t, begun \o jobs) => (\E b \in 1..m : t = <<e, b>>) \/ In(t, jobs)
      <3>1. /\ m \in Nat /\ e \in Nat /\ jobs \in Seq(Nat \X Nat) /\ Distinct(jobs)
            /\ \A t \in Nat \X Nat : In(t, jobs) => t[1] # e
            /\ begun = [b \in 1..m |-> <<e, b>>]
        <4>1. m \in Nat /\ e \in Nat /\ jobs \in Seq(Nat \X Nat)
          BY <1>1, <2>1
        <4>2. begun = [b \in 1..m |-> <<e, b>>]
          BY <2>2
        <4> QED
          BY <2>3, <4>1, <4>2
      <3> QED
        BY <3>1, Called
    <2>5. jobs' = begun \o jobs
      BY <1>2, <2>2
    <2> QED
      BY <2>1, <2>4, <2>5
  <1>10. TypeOK'
    <2>1. ASSUME NEW f \in DOMAIN runs'
          PROVE  /\ entries'[f] = [key \in DOMAIN entries'[f] |-> entries'[f][key]]
                 /\ DOMAIN branch'[f] = Branches(Action(f)')
                 /\ \A b \in Branches(Action(f)') : IsState(State(f, b)')
      <3>1. CASE f \in 1..n
        BY <1>1, <1>4, <1>5, <1>t, <3>1 DEF TypeOK
      <3>2. CASE f = e
        BY <1>4, <1>5, <1>6, <3>2 DEF Start, IsState
      <3> QED
        BY <1>1, <1>3, <3>1, <3>2
    <2>2. context' \in 0..Len(runs')
      BY <1>1, <1>2, <1>3
    <2>3. kind' \in Kinds /\ due' \in BOOLEAN /\ inside' \in BOOLEAN
      BY <1>2, <1>t DEF TypeOK
    <2> QED
      BY <1>3, <1>4, <1>9, <2>1, <2>2, <2>3 DEF TypeOK
  <1>11. \A f, b : IsOpen(f, b) => f \in 1..n /\ IsOpen(f, b)'
    BY <1>1, <1>3, <1>5 DEF IsOpen, IsBranch
  <1>12. PlacesFit'
    <2>1. ASSUME NEW t \in Nat \X Nat, In(t, jobs') PROVE IsOpen(t[1], t[2])'
      <3>1. CASE \E b \in Branches(a) : t = <<e, b>>
        <4>1. PICK b \in Branches(a) : t = <<e, b>>
          BY <3>1
        <4>2. IsOpen(e, b)'
          BY <1>1, <1>3, <1>5, <1>6 DEF IsOpen, IsBranch
        <4> QED
          BY <4>1, <4>2
      <3>2. CASE In(t, jobs)
        <4>1. IsOpen(t[1], t[2])
          BY <1>t, <3>2 DEF PlacesFit
        <4>2. PICK f, c : f = t[1] /\ c = t[2]
          OBVIOUS
        <4> QED
          BY <1>11, <4>1, <4>2
      <3> QED
        BY <1>9, <2>1, <3>1, <3>2
    <2>2. ASSUME NEW r \in reads
          PROVE  /\ IsOpen(r.run, r.branch)' /\ InCode(r.run, r.branch)'
                 /\ Op(r.run, r.branch)'.do = "get" /\ ~In(<<r.run, r.branch>>, jobs')
      <3>1. PICK f, c : f = r.run /\ c = r.branch
        OBVIOUS
      <3>2. /\ IsOpen(f, c) /\ InCode(f, c) /\ Op(f, c).do = "get" /\ ~In(<<f, c>>, jobs)
            /\ f \in 1..n
        BY <1>8, <1>t, <3>1 DEF PlacesFit
      <3>3. IsOpen(f, c)' /\ InCode(f, c)' /\ Op(f, c)' = Op(f, c)
        BY <1>11, <1>5, <3>2 DEF InCode, Op
      <3>4. ~In(<<f, c>>, jobs')
        BY <1>1, <1>9, <3>2
      <3> QED
        BY <3>1, <3>2, <3>3, <3>4
    <2>3. reads' = reads /\ \A r, s \in reads : r.run = s.run /\ r.branch = s.branch => r = s
      BY <1>2, <1>t DEF PlacesFit
    <2> QED
      BY <1>9, <2>1, <2>2, <2>3 DEF PlacesFit
  <1>13. ContextFits' /\ ReadsFit'
    <2>1. \A f \in 1..e : f = e \/ (f \in 1..n /\ f # e)
      BY <1>1
    <2>2. ContextFits'
      BY <1>2, <1>3, <1>7, <2>1 DEF ContextFits
    <2>3. ReadsFit'
      BY <1>1, <1>2, <1>8 DEF ReadsFit
    <2> QED
      BY <2>2, <2>3
  <1>14. ASSUME NEW f \in DOMAIN runs' PROVE Fits(f)'
    <2>1. CASE f \in 1..n
      <3>1. f \in DOMAIN runs /\ f \in Nat /\ Fits(f)
        BY <1>1, <1>t, <2>1
      <3>2. /\ runs'[f] = runs[f] /\ branch'[f] = branch[f] /\ entries'[f] = entries[f]
            /\ \A r \in reads' : r.run = f => r \in reads
        BY <1>2, <1>3, <1>4, <2>1
      <3>3. \A g \in 1..(f - 1) : g \in 1..n
        BY <1>1, <2>1
      <3>4. \A g \in 1..(f - 1) : runs'[g].action = runs[g].action
        BY <1>3, <3>3
      <3> QED
        BY <3>1, <3>2, <3>4, FitsKept
    <2>2. CASE f = e
      <3>1. /\ e \in Nat /\ runs'[e].outcome = "running" /\ \A r \in reads' : r.run # e
        BY <1>1, <1>2, <1>3, <1>8
      <3> QED
        BY <1>4, <1>5, <2>2, <3>1, StartFits
    <2> QED
      BY <1>1, <1>3, <2>1, <2>2
  <1> QED
    BY <1>10, <1>12, <1>13, <1>14 DEF ExecutionInv

-----------------------------------------------------------------------------
(* An execution ends, or is written *)

LEMMA OutcomeFits ==
  ASSUME ExecutionInv, NEW e \in DOMAIN runs, NEW how \in {"writing", "failed", "done"},
         runs[e].outcome \in {"running", "writing"},
         runs' = [runs EXCEPT ![e].outcome = how],
         UNCHANGED <<kind, entries, branch, jobs, reads, due, inside>>,
         context' # e, context' = context \/ (context' = None /\ context = e),
         how # "failed" => \A b \in Branches(Action(e)) : State(e, b).end # "open",
         how = "failed" => /\ Program[Action(e)].join = "all"
                           /\ \E b \in Branches(Action(e)) : State(e, b).end = "threw"
  PROVE  ExecutionInv'
  <1>t. TypeOK /\ PlacesFit /\ ContextFits /\ ReadsFit /\ \A f \in DOMAIN runs : Fits(f)
    BY DEF ExecutionInv
  <1>p. PICK n : n = Len(runs)
    OBVIOUS
  <1>1. /\ runs \in Seq(RunType) /\ n \in Nat /\ DOMAIN runs = 1..n /\ e \in 1..n
        /\ runs[e] \in RunType
    BY <1>t, <1>p DEF TypeOK
  <1>2. /\ runs' \in Seq(RunType) /\ Len(runs') = n /\ DOMAIN runs' = DOMAIN runs
        /\ \A f \in DOMAIN runs : f # e => runs'[f] = runs[f]
        /\ runs'[e].outcome = how /\ runs'[e].action = runs[e].action
    <2>1. [runs[e] EXCEPT !.outcome = how] \in RunType
      BY <1>1 DEF RunType
    <2>2. runs' = [runs EXCEPT ![e] = [runs[e] EXCEPT !.outcome = how]]
      BY <1>1
    <2>3. /\ [runs[e] EXCEPT !.outcome = how].outcome = how
          /\ [runs[e] EXCEPT !.outcome = how].action = runs[e].action
      BY <1>1 DEF RunType
    <2> QED
      BY <1>1, <1>p, <2>1, <2>2, <2>3
  <1>3. /\ \A f \in DOMAIN runs : Action(f)' = Action(f)
        /\ \A f, b : State(f, b)' = State(f, b)
        /\ \A f \in DOMAIN runs : \A b : Code(f, b)' = Code(f, b)
        /\ \A f, key : Has(f, key)' = Has(f, key)
    BY <1>2 DEF Action, State, Code, Has
  <1>4. TypeOK'
    <2>1. context' \in 0..Len(runs')
      BY <1>1, <1>2, <1>p, <1>t DEF TypeOK, None
    <2>2. Long(entries', Len(runs')) /\ Long(branch', Len(runs')) /\ jobs' \in Seq(Nat \X Nat)
      BY <1>2, <1>p, <1>t DEF TypeOK
    <2>3. \A f \in DOMAIN runs' :
            /\ entries'[f] = [key \in DOMAIN entries'[f] |-> entries'[f][key]]
            /\ DOMAIN branch'[f] = Branches(Action(f)')
            /\ \A b \in Branches(Action(f)') : IsState(State(f, b)')
      BY <1>2, <1>3, <1>t DEF TypeOK
    <2> QED
      BY <1>2, <1>t, <2>1, <2>2, <2>3 DEF TypeOK
  <1>5. PlacesFit'
    <2>1. /\ \A f, b : IsOpen(f, b)' = IsOpen(f, b)
          /\ \A f \in DOMAIN runs : \A b : InCode(f, b)' = InCode(f, b) /\ Op(f, b)' = Op(f, b)
      BY <1>2, <1>3 DEF IsOpen, IsBranch, InCode, Op
    <2>2. \A r \in reads : r.run \in DOMAIN runs
      BY <1>t DEF PlacesFit, IsOpen, IsBranch
    <2>3. jobs' = jobs /\ reads' = reads
      OBVIOUS
    <2> QED
      BY <1>t, <2>1, <2>2, <2>3 DEF PlacesFit
  <1>6. ContextFits' /\ ReadsFit'
    <2>1. ContextFits'
      BY <1>1, <1>2, <1>p, <1>t DEF ContextFits, None
    <2>2. \A r \in reads : r.run \in 1..n
      BY <1>1, <1>t DEF PlacesFit, IsOpen, IsBranch
    <2>3. ReadsFit'
      BY <1>1, <1>t, <2>2 DEF ReadsFit, None
    <2> QED
      BY <2>1, <2>3
  <1>7. \A f \in DOMAIN runs : Undisturbed(f)' = Undisturbed(f)
    <2>1. ASSUME NEW f \in DOMAIN runs PROVE \A g \in 1..(f - 1) : runs'[g].action = runs[g].action
      <3>1. \A g \in 1..(f - 1) : g \in DOMAIN runs
        BY <1>1
      <3> QED
        BY <1>2, <3>1
    <2> QED
      BY <2>1 DEF Undisturbed
  <1>8. ASSUME NEW f \in DOMAIN runs, f # e PROVE Fits(f)'
    <2>1. /\ \A g \in 1..(f - 1) : runs'[g].action = runs[g].action
          /\ f \in Nat /\ Fits(f)
      <3>1. \A g \in 1..(f - 1) : g \in DOMAIN runs
        BY <1>1
      <3> QED
        BY <1>1, <1>2, <1>t, <3>1
    <2>2. /\ runs'[f] = runs[f] /\ branch'[f] = branch[f] /\ entries'[f] = entries[f]
          /\ \A r \in reads' : r.run = f => r \in reads
      BY <1>2, <1>8
    <2> QED
      BY <2>1, <2>2, FitsKept
  <1>9. Fits(e)'
    <2>1. Fits(e) /\ runs[e].outcome # "failed" /\ Action(e)' = Action(e)
      BY <1>3, <1>t
    <2>2. WritesFit(e)' /\ OwnFit(e)'
      BY <1>3, <1>7, <2>1 DEF Fits, WritesFit, OwnFit
    <2>3. \A b \in Branches(Action(e)') : BranchFits(e, b)'
      BY <1>3, <2>1 DEF Fits, BranchFits, InCode, Op
    <2>4. EndFits(e)'
      <3>1. \A b \in Branches(Action(e)) : State(e, b).end = "threw" => Does(Code(e, b), {"throw"})
        <4>1. ASSUME NEW b \in Branches(Action(e)), State(e, b).end = "threw"
              PROVE  Does(Code(e, b), {"throw"})
          <5>1. InCode(e, b) /\ Op(e, b).do = "throw"
            BY <2>1, <4>1 DEF Fits, BranchFits
          <5>2. State(e, b).at \in DOMAIN Code(e, b)
            BY <1>t, <5>1, Text DEF InCode, IsState
          <5> QED
            BY <5>1, <5>2 DEF Does, Op
        <4> QED
          BY <4>1
      <3>2. how = "failed" =>
              /\ Program[Action(e)].join = "all"
              /\ \E b \in Branches(Action(e)) :
                   State(e, b).end = "threw" /\ Does(Code(e, b), {"throw"})
        BY <3>1
      <3> QED
        BY <1>2, <1>3, <2>1, <3>2 DEF EndFits
    <2>5. Explained(e)'
      <3>1. ASSUME NEW histories, Explains(e, histories) PROVE Explains(e, histories)'
        <4>1. \A key : EntryFits(e, histories, key)'
          BY <1>3, <2>1, <3>1 DEF Explains, EntryFits
        <4> QED
          BY <1>3, <2>1, <3>1, <4>1 DEF Explains
      <3> QED
        BY <1>7, <2>1, <3>1 DEF Fits, Explained
    <2> QED
      BY <2>2, <2>3, <2>4, <2>5 DEF Fits
  <1> QED
    BY <1>2, <1>4, <1>5, <1>6, <1>8, <1>9 DEF ExecutionInv

LEMMA ReturnFits ==
  ASSUME ExecutionInv, NEW e \in DOMAIN runs, Return(e) PROVE ExecutionInv'
  <1>1. ContextFits /\ TypeOK /\ context = e /\ context' = None
    BY DEF ExecutionInv, ContextFits, Return
  <1>2. context' # e
    <2>1. runs \in Seq(RunType)
      BY <1>1 DEF TypeOK
    <2> QED
      BY <1>1, <2>1 DEF None
  <1>3. PICK how \in {"writing", "failed"} :
          /\ runs' = [runs EXCEPT ![e].outcome = how]
          /\ how = "failed" => Fails(e)
          /\ how = "writing" => Succeeds(e)
    BY DEF Return
  <1>4. /\ how # "failed" => \A b \in Branches(Action(e)) : State(e, b).end # "open"
        /\ how = "failed" => /\ Program[Action(e)].join = "all"
                             /\ \E b \in Branches(Action(e)) : State(e, b).end = "threw"
    BY <1>3 DEF Fails, Succeeds, Action, State
  <1>5. /\ UNCHANGED <<kind, entries, branch, jobs, reads, due, inside>>
        /\ runs[e].outcome \in {"running", "writing"} /\ how \in {"writing", "failed", "done"}
    BY DEF Return
  <1> QED
    BY <1>1, <1>2, <1>3, <1>4, <1>5, OutcomeFits

LEMMA WrittenFits ==
  ASSUME ExecutionInv, NEW e \in DOMAIN runs, Written(e) PROVE ExecutionInv'
  <1>1. /\ UNCHANGED <<kind, context, entries, branch, jobs, reads, due, inside>>
        /\ runs[e].outcome = "writing" /\ runs' = [runs EXCEPT ![e].outcome = "done"]
    BY DEF Written
  <1>2. context' # e /\ context' = context
    BY <1>1 DEF ExecutionInv, ContextFits
  <1>3. \A b \in Branches(Action(e)) : State(e, b).end # "open"
    BY <1>1 DEF ExecutionInv, Fits, EndFits
  <1> QED
    BY <1>1, <1>2, <1>3, OutcomeFits

\* Steps that concern no execution.
LEMMA FitsAside ==
  ASSUME ExecutionInv, UNCHANGED <<kind, context, runs, entries, branch, jobs, reads>>,
         due' \in BOOLEAN, inside' \in BOOLEAN
  PROVE  ExecutionInv'
  <1>t. TypeOK /\ PlacesFit /\ ContextFits /\ ReadsFit /\ \A f \in DOMAIN runs : Fits(f)
    BY DEF ExecutionInv
  <1>1. /\ \A f : Action(f)' = Action(f)
        /\ \A f, b : State(f, b)' = State(f, b) /\ Code(f, b)' = Code(f, b)
    BY DEF Action, State, Code
  <1>2. TypeOK'
    <2>1. Long(entries', Len(runs')) /\ Long(branch', Len(runs'))
      BY <1>t DEF TypeOK
    <2> QED
      BY <1>1, <1>t, <2>1 DEF TypeOK
  <1>3. PlacesFit' /\ ContextFits' /\ ReadsFit'
    <2>1. /\ \A f, b : IsOpen(f, b)' = IsOpen(f, b)
          /\ \A f, b : InCode(f, b)' = InCode(f, b) /\ Op(f, b)' = Op(f, b)
      BY <1>1 DEF IsOpen, IsBranch, InCode, Op
    <2>2. jobs' = jobs /\ reads' = reads /\ runs' = runs /\ context' = context
      OBVIOUS
    <2>3. PlacesFit'
      BY <1>t, <2>1, <2>2 DEF PlacesFit
    <2> QED
      BY <1>t, <2>2, <2>3 DEF ContextFits, ReadsFit
  <1>4. ASSUME NEW f \in DOMAIN runs PROVE Fits(f)'
    <2>1. Fits(f) /\ f \in Nat
      <3>1. runs \in Seq(RunType)
        BY <1>t DEF TypeOK
      <3> QED
        BY <1>t, <3>1
    <2>2. /\ runs'[f] = runs[f] /\ branch'[f] = branch[f] /\ entries'[f] = entries[f]
          /\ \A g \in 1..(f - 1) : runs'[g].action = runs[g].action
          /\ \A r \in reads' : r.run = f => r \in reads
      OBVIOUS
    <2> QED
      BY <2>1, <2>2, FitsKept
  <1> QED
    BY <1>2, <1>3, <1>4 DEF ExecutionInv

-----------------------------------------------------------------------------
(* The invariant *)

LEMMA InitFits == ASSUME Init PROVE ExecutionInv
  <1>1. runs = <<>> /\ DOMAIN runs = {} /\ Len(runs) = 0 /\ runs \in Seq(RunType)
    BY DEF Init
  <1>2. jobs = <<>> /\ DOMAIN jobs = {} /\ jobs \in Seq(Nat \X Nat) /\ reads = {}
    BY DEF Init
  <1>3. Long(entries, Len(runs)) /\ Long(branch, Len(runs))
    <2>1. <<>> = [i \in 1..0 |-> <<>>[i]]
      OBVIOUS
    <2> QED
      BY <1>1, <2>1 DEF Init, Long
  <1>4. TypeOK
    <2>1. kind \in Kinds /\ due \in BOOLEAN /\ inside \in BOOLEAN /\ context = 0
      BY DEF Init, None
    <2>2. context \in 0..Len(runs)
      BY <1>1, <2>1
    <2> QED
      BY <1>1, <1>2, <1>3, <2>1, <2>2 DEF TypeOK
  <1>5. PlacesFit
    BY <1>2 DEF PlacesFit, In, Distinct
  <1>6. ContextFits /\ ReadsFit
    BY <1>1, <1>2 DEF ContextFits, ReadsFit
  <1> QED
    BY <1>1, <1>4, <1>5, <1>6 DEF ExecutionInv

LEMMA ExecutionStep == ASSUME ExecutionInv, [Next]_vars PROVE ExecutionInv'
  <1>1. ASSUME NEW a \in Actions, Execute(a) PROVE ExecutionInv'
    BY <1>1, ExecuteFits
  <1>2. ASSUME RunJob PROVE ExecutionInv'
    BY <1>2, RunJobFits
  <1>3. ASSUME ExecutePendingJobs PROVE ExecutionInv'
    <2>1. due' \in BOOLEAN /\ inside' \in BOOLEAN
      BY <1>3 DEF ExecutePendingJobs
    <2>2. UNCHANGED <<kind, context, runs, entries, branch, jobs, reads>>
      BY <1>3 DEF ExecutePendingJobs
    <2> QED
      BY <2>1, <2>2, FitsAside
  <1>4. ASSUME NEW r \in reads, Settle(r) PROVE ExecutionInv'
    BY <1>4, SettleFits
  <1>5. ASSUME NEW e \in DOMAIN runs, Return(e) PROVE ExecutionInv'
    BY <1>5, ReturnFits
  <1>6. ASSUME NEW e \in DOMAIN runs, Written(e) PROVE ExecutionInv'
    BY <1>6, WrittenFits
  <1>7. ASSUME UNCHANGED vars PROVE ExecutionInv'
    <2>1. due' \in BOOLEAN /\ inside' \in BOOLEAN
      BY <1>7 DEF vars, ExecutionInv, TypeOK
    <2>2. UNCHANGED <<kind, context, runs, entries, branch, jobs, reads>>
      BY <1>7 DEF vars
    <2> QED
      BY <2>1, <2>2, FitsAside
  <1> QED
    BY <1>1, <1>2, <1>3, <1>4, <1>5, <1>6, <1>7 DEF Next

LEMMA AlwaysFits == Spec => []ExecutionInv
  <1>1. Init => ExecutionInv
    BY InitFits
  <1>2. ExecutionInv /\ [Next]_vars => ExecutionInv'
    BY ExecutionStep
  <1> QED
    BY <1>1, <1>2, PTL DEF Spec

\* The variables of executions have their types.
THEOREM ExecutionTypes == Spec => []TypeOK
  <1>1. ExecutionInv => TypeOK
    BY DEF ExecutionInv
  <1> QED
    BY <1>1, AlwaysFits, PTL

-----------------------------------------------------------------------------
(* What is written for a message *)

\* Where the branches of an execution that is done have ended.
LEMMA Stopped ==
  ASSUME ExecutionInv, NEW e \in DOMAIN runs, Done(e), NEW b \in Branches(Action(e))
  PROVE  /\ State(e, b).at \in Nat \ {0} /\ Len(Code(e, b)) \in Nat
         /\ DOMAIN Code(e, b) = 1..Len(Code(e, b))
         /\ \A i \in 1..(State(e, b).at - 1) : Code(e, b)[i].do # "throw"
         /\ \/ State(e, b).at = Len(Code(e, b)) + 1
            \/ State(e, b).at \in 1..Len(Code(e, b)) /\ Op(e, b).do = "throw"
  <1>1. TypeOK /\ Fits(e) /\ BranchFits(e, b)
    BY DEF ExecutionInv, Fits
  <1>2. IsState(State(e, b)) /\ Len(Code(e, b)) \in Nat /\ DOMAIN Code(e, b) = 1..Len(Code(e, b))
    BY <1>1, Text
  <1>3. State(e, b).end # "open" /\ runs[e].outcome # "failed"
    BY <1>1 DEF Fits, EndFits, Done
  <1> QED
    BY <1>1, <1>2, <1>3 DEF BranchFits, IsState, InCode

\* For every action, and every order in which reads are answered, the entries
\* written for a message are all those that its action sets before it may throw,
\* and, unless a handler that failed before it had yet to write, only its own
\* (FunctionRuntime.ts, ContractRuntime.ts).
THEOREM AlwaysTogether == Spec => []ExecutedTogether
  <1>1. ASSUME ExecutionInv, NEW e \in DOMAIN runs, Done(e)
        PROVE  /\ \A b \in Branches(runs[e].action) : \A i \in Reached(Code(e, b)) :
                    Code(e, b)[i].do \in Writes => Has(e, Code(e, b)[i].key)
               /\ Undisturbed(e) =>
                    \A key \in DOMAIN entries[e] : entries[e][key][2] = runs[e].action
    <2>1. Fits(e) /\ runs[e].outcome # "failed" /\ Action(e) = runs[e].action
      BY <1>1 DEF ExecutionInv, Done, Action
    <2>2. ASSUME NEW b \in Branches(Action(e)), NEW i \in Reached(Code(e, b)),
                 Code(e, b)[i].do \in Writes
          PROVE  Has(e, Code(e, b)[i].key)
      <3>1. i \in 1..Len(Code(e, b)) /\ \A j \in 1..i : Code(e, b)[j].do # "throw"
        BY <1>1, Stopped DEF Reached
      <3>2. i \in 1..(State(e, b).at - 1)
        BY <1>1, <3>1, Stopped DEF Op
      <3> QED
        BY <2>1, <2>2, <3>2 DEF Fits, WritesFit
    <2> QED
      BY <2>1, <2>2 DEF Fits, OwnFit
  <1>2. ExecutionInv => ExecutedTogether
    BY <1>1 DEF ExecutedTogether
  <1> QED
    BY <1>2, AlwaysFits, PTL

-----------------------------------------------------------------------------
(* What an action executed again does *)

\* What a read finds is determined by what its branch had read before.
LEMMA FindsOne ==
  ASSUME NEW a, NEW code, NEW n \in Nat, NEW h, NEW g, \A j \in 1..(n - 1) : h[j] = g[j],
         NEW v, NEW w, Finds(a, code, h, n, v), Finds(a, code, g, n, w)
  PROVE  v = w
  <1>1. Finds(a, code, g, n, v)
    BY FindsSame
  <1>2. \A j, k : IsLast(code, code[n].key, n, j) /\ IsLast(code, code[n].key, n, k) => j = k
    BY DEF IsLast
  <1>3. \A j : IsLast(code, code[n].key, n, j) => ~NoWrite(code, code[n].key, n)
    BY DEF IsLast, NoWrite
  <1> QED
    BY <1>1, <1>2, <1>3 DEF Finds

\* So two histories of a branch are one: the first place in which they differed
\* would be after a read that found two values.
LEMMA OneHistory ==
  ASSUME NEW a, NEW code, NEW n \in Nat \ {0}, NEW u, NEW v, NEW h, NEW g,
         HistoryFits(a, code, n, u, h), HistoryFits(a, code, n, v, g)
  PROVE  \A i \in 1..n : h[i] = g[i]
  <1> DEFINE Apart == {i \in 1..n : h[i] # g[i]}
  <1>1. SUFFICES ASSUME Apart # {} PROVE FALSE
    OBVIOUS
  <1>2. PICK i \in Apart : \A j \in Apart : <<j, i>> \notin OpToRel(<, Nat)
    <2>1. Apart \subseteq Nat
      OBVIOUS
    <2> HIDE DEF Apart
    <2> QED
      BY <1>1, <2>1, NatLessThanWellFounded, WFMin
  <1>3. i \in 1..n /\ h[i] # g[i] /\ \A j \in 1..(i - 1) : h[j] = g[j]
    <2>1. ASSUME NEW j \in Apart, j < i PROVE FALSE
      <3>1. i \in Nat /\ j \in Nat
        OBVIOUS
      <3>2. <<j, i>> \in OpToRel(<, Nat)
        BY <2>1, <3>1 DEF OpToRel
      <3> QED
        BY <1>2, <3>2
    <2> QED
      BY <2>1
  <1>4. i # 1
    BY <1>3 DEF HistoryFits
  <1>5. i - 1 \in 1..(n - 1) /\ (i - 1) + 1 = i
    BY <1>3, <1>4
  <1>6. PICK k : k = i - 1
    OBVIOUS
  <1>7. h[k] = g[k] /\ \A j \in 1..(k - 1) : h[j] = g[j]
    BY <1>3, <1>5, <1>6
  <1>8. CASE code[k].do = "get"
    <2>1. PICK x : Finds(a, code, h, k, x) /\ h[k + 1] = Append(h[k], x)
      BY <1>5, <1>6, <1>8 DEF HistoryFits
    <2>2. PICK y : Finds(a, code, g, k, y) /\ g[k + 1] = Append(g[k], y)
      BY <1>5, <1>6, <1>8 DEF HistoryFits
    <2>3. k \in Nat
      BY <1>5, <1>6
    <2>4. x = y
      BY <1>7, <2>1, <2>2, <2>3, FindsOne
    <2> QED
      BY <1>3, <1>5, <1>6, <1>7, <2>1, <2>2, <2>4
  <1>9. CASE code[k].do # "get"
    <2>1. h[k + 1] = h[k] /\ g[k + 1] = g[k]
      BY <1>5, <1>6, <1>9 DEF HistoryFits
    <2> QED
      BY <1>3, <1>5, <1>6, <1>7, <2>1
  <1> QED
    BY <1>8, <1>9

\* For every action whose branches leave each other's entries alone, and every
\* order in which reads are answered, two executions of it read the same and
\* write the same (FunctionRuntime.ts, ContractRuntime.ts).
THEOREM ReplaysAlwaysAgree == Spec => []ReplaysAgree
  <1>1. ASSUME ExecutionInv, NEW e \in DOMAIN runs, NEW f \in DOMAIN runs,
               Done(e), Done(f), Undisturbed(e), Undisturbed(f),
               runs[e].action = runs[f].action, ~Crosses(runs[e].action)
        PROVE  /\ entries[e] = entries[f]
               /\ \A b \in Branches(runs[e].action) : branch[e][b].saw = branch[f][b].saw
    <2>t. TypeOK /\ Fits(e) /\ Fits(f)
      BY <1>1 DEF ExecutionInv
    <2>p. PICK a : a = Action(e) /\ a = Action(f) /\ a = runs[e].action
      BY <1>1 DEF Action
    <2>1. \A b : Code(e, b) = Code(f, b) /\ Code(e, b) = Program[a].branches[b]
      BY <2>p DEF Code, Action
    <2>2. PICK he : Explains(e, he)
      BY <1>1, <2>p, <2>t DEF Fits, Explained, Done
    <2>3. PICK hf : Explains(f, hf)
      BY <1>1, <2>p, <2>t DEF Fits, Explained, Done
    <2>4. ASSUME NEW b \in Branches(a)
          PROVE  /\ State(e, b).at = State(f, b).at /\ State(e, b).at \in Nat \ {0}
                 /\ DOMAIN Code(e, b) = 1..Len(Code(e, b)) /\ State(e, b).at <= Len(Code(e, b)) + 1
                 /\ \A i \in 1..State(e, b).at : he[b][i] = hf[b][i]
      <3>1. /\ State(e, b).at \in Nat \ {0} /\ Len(Code(e, b)) \in Nat
            /\ DOMAIN Code(e, b) = 1..Len(Code(e, b))
            /\ \A i \in 1..(State(e, b).at - 1) : Code(e, b)[i].do # "throw"
            /\ \/ State(e, b).at = Len(Code(e, b)) + 1
               \/ State(e, b).at \in 1..Len(Code(e, b)) /\ Code(e, b)[State(e, b).at].do = "throw"
        BY <1>1, <2>p, Stopped DEF Op
      <3>2. /\ State(f, b).at \in Nat \ {0}
            /\ \A i \in 1..(State(f, b).at - 1) : Code(f, b)[i].do # "throw"
            /\ \/ State(f, b).at = Len(Code(f, b)) + 1
               \/ State(f, b).at \in 1..Len(Code(f, b)) /\ Code(f, b)[State(f, b).at].do = "throw"
        BY <1>1, <2>p, Stopped DEF Op
      <3>3. State(e, b).at = State(f, b).at
        BY <2>1, <3>1, <3>2
      <3>4. /\ HistoryFits(a, Code(e, b), State(e, b).at, State(e, b).saw, he[b])
            /\ HistoryFits(a, Code(e, b), State(e, b).at, State(f, b).saw, hf[b])
        BY <2>1, <2>2, <2>3, <2>p, <3>3 DEF Explains
      <3>5. \A i \in 1..State(e, b).at : he[b][i] = hf[b][i]
        <4>1. PICK n, code, u, v, h, g :
                /\ n = State(e, b).at /\ code = Code(e, b) /\ h = he[b] /\ g = hf[b]
                /\ u = State(e, b).saw /\ v = State(f, b).saw
          OBVIOUS
        <4>2. /\ n \in Nat \ {0} /\ HistoryFits(a, code, n, u, h) /\ HistoryFits(a, code, n, v, g)
          BY <3>1, <3>4, <4>1
        <4>3. \A i \in 1..n : h[i] = g[i]
          BY <4>2, OneHistory
        <4> QED
          BY <4>1, <4>3
      <3> QED
        BY <3>1, <3>3, <3>5
    <2>5. ASSUME NEW b \in Branches(a) PROVE State(e, b).saw = State(f, b).saw
      <3>1. he[b][State(e, b).at] = State(e, b).saw /\ hf[b][State(f, b).at] = State(f, b).saw
        BY <2>2, <2>3, <2>p DEF Explains, HistoryFits
      <3> QED
        BY <2>4, <3>1
    <2>6. \A b, c \in Branches(a) : \A key, j, k :
            IsLast(Code(e, b), key, State(e, b).at, j) /\ IsLast(Code(f, c), key, State(f, c).at, k)
              => b = c /\ j = k
      <3>1. SUFFICES ASSUME NEW b \in Branches(a), NEW c \in Branches(a), NEW key, NEW j, NEW k,
                            IsLast(Code(e, b), key, State(e, b).at, j),
                            IsLast(Code(f, c), key, State(f, c).at, k)
                     PROVE  b = c /\ j = k
        OBVIOUS
      <3>2. /\ j \in DOMAIN Code(e, b) /\ Code(e, b)[j].do \in Writes /\ Code(e, b)[j].key = key
            /\ k \in DOMAIN Code(e, c) /\ Code(e, c)[k].do \in Writes /\ Code(e, c)[k].key = key
        BY <2>1, <2>4, <3>1 DEF IsLast
      <3>3. b = c
        <4>1. SUFFICES ASSUME b # c PROVE Crosses(a)
          BY <1>1, <2>p
        <4>2. /\ j \in DOMAIN Program[a].branches[b] /\ k \in DOMAIN Program[a].branches[c]
              /\ Program[a].branches[b][j].do # "throw"
              /\ Program[a].branches[c][k].do \in Writes
              /\ Program[a].branches[b][j].key = Program[a].branches[c][k].key
          BY <2>1, <3>2 DEF Writes
        <4> QED
          BY <4>1, <4>2 DEF Crosses
      <3> QED
        BY <2>1, <2>4, <3>1, <3>3 DEF IsLast
    <2>7. ASSUME NEW key PROVE /\ Has(e, key) <=> Has(f, key)
                               /\ Has(e, key) => entries[e][key] = entries[f][key]
      <3>1. EntryFits(e, he, key) /\ EntryFits(f, hf, key)
        BY <2>2, <2>3 DEF Explains
      <3>2. \A b \in Branches(a) : \A j :
              IsLast(Code(e, b), key, State(e, b).at, j) <=> IsLast(Code(f, b), key, State(f, b).at, j)
        BY <2>1, <2>4
      <3>3. \A b \in Branches(a) : \A j :
              /\ IsLast(Code(e, b), key, State(e, b).at, j) => ~NoWrite(Code(e, b), key, State(e, b).at)
              /\ IsLast(Code(f, b), key, State(f, b).at, j) => ~NoWrite(Code(f, b), key, State(f, b).at)
        BY DEF IsLast, NoWrite
      <3>4. Has(e, key) <=> Has(f, key)
        BY <2>p, <3>1, <3>2, <3>3 DEF EntryFits
      <3>5. ASSUME Has(e, key) PROVE entries[e][key] = entries[f][key]
        <4>1. PICK b, j :
                /\ b \in Branches(a)
                /\ IsLast(Code(e, b), key, State(e, b).at, j)
                /\ entries[e][key] = Puts(a, Code(e, b)[j], he[b][j])
          BY <2>p, <3>1, <3>5 DEF EntryFits
        <4>2. PICK c, k :
                /\ c \in Branches(a)
                /\ IsLast(Code(f, c), key, State(f, c).at, k)
                /\ entries[f][key] = Puts(a, Code(f, c)[k], hf[c][k])
          BY <2>p, <3>1, <3>4, <3>5 DEF EntryFits
        <4>3. b = c /\ j = k
          BY <2>6, <4>1, <4>2
        <4>4. j \in 1..State(e, b).at
          BY <2>4, <4>1 DEF IsLast
        <4>5. he[b][j] = hf[b][j]
          BY <2>4, <4>1, <4>4
        <4> QED
          BY <2>1, <4>1, <4>2, <4>3, <4>5
      <3> QED
        BY <3>4, <3>5
    <2>8. entries[e] = entries[f]
      <3>1. /\ entries[e] = [key \in DOMAIN entries[e] |-> entries[e][key]]
            /\ entries[f] = [key \in DOMAIN entries[f] |-> entries[f][key]]
        BY <2>t DEF TypeOK
      <3>2. DOMAIN entries[e] = DOMAIN entries[f]
        BY <2>7 DEF Has
      <3>3. \A key \in DOMAIN entries[e] : entries[e][key] = entries[f][key]
        BY <2>7 DEF Has
      <3> QED
        BY <3>1, <3>2, <3>3
    <2> QED
      BY <2>5, <2>8, <2>p DEF State
  <1>2. ExecutionInv => ReplaysAgree
    BY <1>1 DEF ReplaysAgree
  <1> QED
    BY <1>2, AlwaysFits, PTL

-----------------------------------------------------------------------------
(* Handles: what the host frees                                            *)

HandleTypes ==
  /\ started \in Nat /\ calls \in Nat /\ run \in 0..started
  /\ waiting \subseteq (Nat \ {0}) \X Nat
  /\ \A h \in cached : h.run = Machine!None
  /\ phase = "new" => run = Machine!None /\ waiting = {}

\* A handle is the machine's own, or one of a run in which something was refused; or
\* it is an argument of the run under way, or an end of a promise that waits.
Accounted(h) ==
  \/ h.run \in failed \cup {Machine!None}
  \/ run # Machine!None /\ h \in Machine!Arguments(run)
  \/ \E w \in waiting : h \in Machine!Resolvers(w)

HandlesInv ==
  /\ HandleTypes /\ Machine!UsedAreLive
  /\ phase = "open" => \A h \in live : Accounted(h)

-----------------------------------------------------------------------------

USE DEF Machine!None

\* Of handles, what is told by the run or by what they are of.
LEMMA HandleFields ==
  /\ \A p : Machine!Path(p).run = 0
  /\ \A a : Machine!Action(a).run = 0
  /\ Machine!Api.run = 0
  /\ \A a, f : Machine!Field(a, f).run = 0
  /\ \A e, what : Machine!Of(e, what).run = e /\ Machine!Of(e, what).what = what
  /\ \A e, i, what : /\ Machine!OfCall(e, i, what).run = e /\ Machine!OfCall(e, i, what).call = i
                     /\ Machine!OfCall(e, i, what).what = what
  /\ \A e, i, key : Machine!Handle(e, i, "key", Machine!Nothing, key).run = e
  BY DEF Machine!Path, Machine!Action, Machine!Api, Machine!Field, Machine!Of, Machine!OfCall,
         Machine!Handle

LEMMA HandleRuns ==
  /\ \A p : Machine!Path(p).run = 0
  /\ \A e : \A h \in Machine!Arguments(e) : h.run = e /\ h.what \in {"args", "ctx"}
  /\ \A w : \A h \in Machine!Resolvers(w) :
       h.run = w[1] /\ h.call = w[2] /\ h.what \in {"resolve", "reject"}
  /\ \A e, i, k : \A h \in Machine!KeysAfter(e, i, k) : h.run = e
  <1>1. \A e : \A h \in Machine!Arguments(e) : h.run = e /\ h.what \in {"args", "ctx"}
    BY HandleFields DEF Machine!Arguments
  <1>2. \A w : \A h \in Machine!Resolvers(w) :
          h.run = w[1] /\ h.call = w[2] /\ h.what \in {"resolve", "reject"}
    BY HandleFields DEF Machine!Resolvers
  <1>3. \A e, i, k : \A h \in Machine!KeysAfter(e, i, k) : h.run = e
    BY HandleFields DEF Machine!KeysAfter
  <1> QED
    BY <1>1, <1>2, <1>3, HandleFields

LEMMA ApartResolvers ==
  ASSUME NEW v \in (Nat \ {0}) \X Nat, NEW w \in (Nat \ {0}) \X Nat, v # w
  PROVE  Machine!Resolvers(v) \cap Machine!Resolvers(w) = {}
  BY HandleRuns

LEMMA HandlesInit == Machine!Init => HandlesInv
  BY DEF Machine!Init, HandlesInv, HandleTypes, Machine!UsedAreLive

\* What a step keeps that frees nothing, and adds what is accounted for.
LEMMA HandlesGrow ==
  ASSUME HandlesInv, phase = "open", phase' = phase, cached' = cached, HandleTypes',
         NEW ps, paths' = paths \cup ps,
         NEW new, live' = live \cup {Machine!Path(p) : p \in paths'} \cup new,
         failed \subseteq failed', waiting \subseteq waiting', run' = run,
         \A w \in waiting' \ waiting : Machine!Resolvers(w) \subseteq new,
         \A h \in new : Accounted(h)'
  PROVE  HandlesInv'
  <1>1. Machine!UsedAreLive'
    BY DEF HandlesInv, Machine!UsedAreLive
  <1>2. ASSUME NEW h \in live' PROVE Accounted(h)'
    <2>1. CASE h \in live
      BY <2>1 DEF HandlesInv, Accounted
    <2>2. CASE h \in new
      BY <2>2
    <2>3. ASSUME NEW p \in paths', h = Machine!Path(p) PROVE Accounted(h)'
      BY <2>3, HandleRuns DEF Accounted
    <2> QED
      BY <2>1, <2>2, <2>3
  <1> QED
    BY <1>1, <1>2 DEF HandlesInv

\* What a call of the contract and an answer keep of the types.
LEMMA TypesKept ==
  ASSUME HandleTypes, started' = started, calls' \in {calls, calls + 1}, run' \in {run, Machine!None},
         cached' = cached, phase # "new", phase' = phase, waiting' \subseteq waiting
  PROVE  HandleTypes'
  BY DEF HandleTypes

LEMMA ImportKeeps == ASSUME HandlesInv, Machine!Import PROVE HandlesInv'
  <1>1. PICK c \in Contracts : Machine!Load(c) \/ Machine!Refuse(c)
    BY DEF Machine!Import
  <1>2. /\ phase = "new" /\ run' = run /\ started' = started /\ calls' = calls
        /\ failed' = failed /\ waiting' = waiting
    BY <1>1 DEF Machine!Import, Machine!Load, Machine!Refuse
  <1>3. run = 0 /\ waiting = {}
    BY <1>2 DEF HandlesInv, HandleTypes
  <1>4. CASE Machine!Load(c)
    <2>1. /\ phase' = "open" /\ cached \subseteq cached \cup cached'
          /\ live' = cached' \cup {Machine!Path(p) : p \in paths'} \cup Machine!Leaves(c)
          /\ cached' = {Machine!Action(a) : a \in DOMAIN c.actions} \cup {Machine!Api}
      BY <1>4 DEF Machine!Load
    <2>2. \A h \in cached' : h.run = 0
      BY <2>1, HandleFields
    <2>3. \A h \in Machine!Leaves(c) : h.run = 0
      BY HandleFields DEF Machine!Leaves
    <2>4. \A h \in live' : Accounted(h)'
      BY <2>1, <2>2, <2>3, HandleRuns DEF Accounted
    <2> QED
      BY <1>2, <1>3, <2>1, <2>2, <2>4 DEF HandlesInv, HandleTypes, Machine!UsedAreLive
  <1>5. CASE Machine!Refuse(c)
    BY <1>2, <1>3, <1>5 DEF Machine!Refuse, HandlesInv, HandleTypes, Machine!UsedAreLive
  <1> QED
    BY <1>1, <1>4, <1>5

LEMMA ExecuteKeeps == ASSUME HandlesInv, Machine!Execute PROVE HandlesInv'
  <1>1. /\ phase = "open" /\ run = 0 /\ started' = started + 1 /\ run' = started' /\ calls' = 0
        /\ live' = live \cup Machine!Arguments(started')
        /\ phase' = phase /\ paths' = paths /\ cached' = cached /\ failed' = failed /\ waiting' = waiting
    BY DEF Machine!Execute
  <1>2. HandleTypes'
    BY <1>1 DEF HandlesInv, HandleTypes
  <1>3. Machine!UsedAreLive'
    BY <1>1 DEF HandlesInv, Machine!UsedAreLive
  <1>4. run' # 0
    BY <1>1 DEF HandlesInv, HandleTypes
  <1>5. \A h \in live' : Accounted(h)'
    BY <1>1, <1>4 DEF HandlesInv, Accounted
  <1> QED
    BY <1>2, <1>3, <1>5 DEF HandlesInv

LEMMA GetKeeps == ASSUME HandlesInv, Machine!Get PROVE HandlesInv'
  <1> DEFINE w == <<run, calls'>>
  <1>1. /\ phase = "open" /\ run # 0 /\ calls' = calls + 1 /\ waiting' = waiting \cup {w}
        /\ paths' = paths \cup {"Object", "Object.is"}
        /\ live' = live \cup {Machine!Path(p) : p \in paths'} \cup Machine!Resolvers(w)
        /\ phase' = phase /\ cached' = cached /\ run' = run /\ started' = started /\ failed' = failed
    BY DEF Machine!Get, Machine!Calling
  <1>2. HandleTypes'
    BY <1>1 DEF HandlesInv, HandleTypes
  <1>3. \A v \in waiting' \ waiting : Machine!Resolvers(v) \subseteq Machine!Resolvers(w)
    BY <1>1
  <1>4. \A h \in Machine!Resolvers(w) : Accounted(h)'
    BY <1>1 DEF Accounted
  <1> HIDE DEF w
  <1> QED
    BY <1>1, <1>2, <1>3, <1>4, HandlesGrow

LEMMA GetRefusedKeeps == ASSUME HandlesInv, Machine!GetRefused PROVE HandlesInv'
  <1> DEFINE new == {Machine!OfCall(run, calls', "stack")}
  <1>1. /\ phase = "open" /\ run # 0 /\ calls' = calls + 1 /\ failed' = failed \cup {run}
        /\ paths' = paths \cup (Machine!ErrorPaths \cup {"Object", "Object.is"})
        /\ live' = live \cup {Machine!Path(p) : p \in paths'} \cup new
        /\ phase' = phase /\ cached' = cached /\ run' = run /\ started' = started /\ waiting' = waiting
    BY DEF Machine!GetRefused, Machine!Calling, Machine!Refused
  <1>2. HandleTypes'
    BY <1>1, TypesKept DEF HandlesInv
  <1>3. \A h \in new : Accounted(h)'
    BY <1>1, HandleFields DEF Accounted
  <1> HIDE DEF new
  <1> QED
    BY <1>1, <1>2, <1>3, HandlesGrow

LEMMA SetKeeps == ASSUME HandlesInv, Machine!Set PROVE HandlesInv'
  <1>1. /\ phase = "open" /\ run # 0 /\ calls' = calls + 1
        /\ paths' = paths \cup Machine!ValuePaths
        /\ live' = live \cup {Machine!Path(p) : p \in Machine!ValuePaths}
        /\ phase' = phase /\ cached' = cached /\ run' = run /\ started' = started
        /\ failed' = failed /\ waiting' = waiting
    BY DEF Machine!Set, Machine!Calling, Machine!Looks
  <1>2. HandleTypes'
    BY <1>1, TypesKept DEF HandlesInv
  <1>3. live' = live \cup {Machine!Path(p) : p \in paths'} \cup {}
    BY <1>1 DEF HandlesInv, Machine!UsedAreLive
  <1>4. /\ \A w \in waiting' \ waiting : Machine!Resolvers(w) \subseteq {}
        /\ \A h \in {} : Accounted(h)'
    BY <1>1
  <1> QED
    BY <1>1, <1>2, <1>3, <1>4, HandlesGrow

LEMMA SetRefusedKeeps == ASSUME HandlesInv, Machine!SetRefused PROVE HandlesInv'
  <1>1. PICK k \in 1..Length :
          live' = live \cup {Machine!Path(p) : p \in paths'} \cup Machine!KeysAfter(run, calls', k)
    BY DEF Machine!SetRefused
  <1>2. /\ phase = "open" /\ run # 0 /\ calls' = calls + 1 /\ failed' = failed \cup {run}
        /\ paths' = paths \cup Machine!ValuePaths
        /\ phase' = phase /\ cached' = cached /\ run' = run /\ started' = started /\ waiting' = waiting
    BY DEF Machine!SetRefused, Machine!Calling, Machine!Refused
  <1>3. HandleTypes'
    BY <1>2, TypesKept DEF HandlesInv
  <1>4. \A h \in Machine!KeysAfter(run, calls', k) : Accounted(h)'
    BY <1>2, HandleRuns DEF Accounted
  <1> QED
    BY <1>1, <1>2, <1>3, <1>4, HandlesGrow

\* The answer to a read frees the two ends of its promise, and of no other.
LEMMA AnswerKeeps ==
  ASSUME HandlesInv, NEW w \in waiting, Machine!Resolve(w) \/ Machine!Reject(w)
  PROVE  HandlesInv'
  <1>1. PICK new :
          /\ live' = (live \ Machine!Resolvers(w)) \cup new
          /\ \A h \in new : h.run = 0 \/ h.run \in failed'
          /\ {Machine!Path(p) : p \in paths' \ paths} \subseteq new
    <2>1. CASE Machine!Resolve(w)
      <3>1. live' = (live \ Machine!Resolvers(w)) \cup {} /\ paths' = paths
        BY <2>1 DEF Machine!Resolve
      <3>2. {Machine!Path(p) : p \in paths' \ paths} = {}
        BY <3>1
      <3> QED
        BY <3>1, <3>2
    <2>2. CASE Machine!Reject(w)
      <3> DEFINE late == {Machine!OfCall(w[1], w[2], what) : what \in {"error", "stack"}}
                 new == {Machine!Path(p) : p \in paths'} \cup late
      <3>1. live' = (live \ Machine!Resolvers(w)) \cup new /\ w[1] \in failed'
        BY <2>2 DEF Machine!Reject
      <3>2. \A h \in late : h.run = w[1]
        BY HandleFields
      <3> HIDE DEF late
      <3>3. \A h \in new : h.run = 0 \/ h.run \in failed'
        BY <3>1, <3>2, HandleRuns
      <3>4. {Machine!Path(p) : p \in paths' \ paths} \subseteq new
        OBVIOUS
      <3> HIDE DEF new
      <3> QED
        BY <3>1, <3>3, <3>4
    <2> QED
      BY <2>1, <2>2
  <1>2. /\ phase = "open" /\ phase' = phase /\ waiting' = waiting \ {w} /\ failed \subseteq failed'
        /\ paths \subseteq paths' /\ cached' = cached /\ run' = run /\ started' = started /\ calls' = calls
    BY DEF Machine!Resolve, Machine!Reject
  <1>3. HandleTypes'
    BY <1>2, TypesKept DEF HandlesInv
  <1>4. w[1] # 0 /\ \A h \in Machine!Resolvers(w) : h.run # 0 /\ h.what \in {"resolve", "reject"}
    BY HandleRuns DEF HandlesInv, HandleTypes
  <1>5. cached \cup {Machine!Path(p) : p \in paths'} \subseteq live'
    <2>1. \A p \in paths : Machine!Path(p) \in live /\ Machine!Path(p) \notin Machine!Resolvers(w)
      BY <1>2, <1>4, HandleRuns DEF HandlesInv, Machine!UsedAreLive
    <2>2. \A h \in cached : h \in live /\ h \notin Machine!Resolvers(w)
      BY <1>2, <1>4 DEF HandlesInv, HandleTypes, Machine!UsedAreLive
    <2> QED
      BY <1>1, <2>1, <2>2
  <1>6. run # 0 => Machine!Arguments(run) \subseteq live'
    BY <1>1, <1>2, <1>4, HandleRuns DEF HandlesInv, Machine!UsedAreLive
  <1>7. ASSUME NEW v \in waiting' PROVE Machine!Resolvers(v) \subseteq live'
    <2>1. Machine!Resolvers(v) \cap Machine!Resolvers(w) = {}
      BY <1>2, ApartResolvers DEF HandlesInv, HandleTypes
    <2> QED
      BY <1>1, <1>2, <2>1 DEF HandlesInv, Machine!UsedAreLive
  <1>8. ASSUME NEW h \in live' PROVE Accounted(h)'
    <2>1. CASE h \in new
      BY <1>1, <2>1 DEF Accounted
    <2>2. CASE h \notin new
      BY <1>1, <1>2, <2>2 DEF HandlesInv, Accounted
    <2> QED
      BY <2>1, <2>2
  <1> QED
    BY <1>2, <1>3, <1>5, <1>6, <1>7, <1>8 DEF HandlesInv, Machine!UsedAreLive

\* Its arguments are freed when an action returns, and no other.
LEMMA ReturnKeeps ==
  ASSUME HandlesInv, Machine!Return \/ Machine!ReturnRefused
  PROVE  HandlesInv'
  <1>1. PICK new :
          /\ live' = (live \cup {Machine!Path(p) : p \in paths'} \cup new) \ Machine!Arguments(run)
          /\ \A h \in new : h.run \in failed'
    <2>1. CASE Machine!Return
      <3>1. live' = (live \cup {Machine!Path(p) : p \in paths'} \cup {}) \ Machine!Arguments(run)
        BY <2>1 DEF Machine!Return
      <3> DEFINE new == {}
      <3>2. live' = (live \cup {Machine!Path(p) : p \in paths'} \cup new) \ Machine!Arguments(run)
        BY <3>1
      <3>3. \A h \in new : h.run \in failed'
        OBVIOUS
      <3> HIDE DEF new
      <3> QED
        BY <3>2, <3>3
    <2>2. CASE Machine!ReturnRefused
      <3>1. PICK k \in 1..Length :
              live' = (live \cup {Machine!Path(p) : p \in paths'} \cup Machine!KeysAfter(run, 0, k))
                        \ Machine!Arguments(run)
        BY <2>2 DEF Machine!ReturnRefused
      <3>2. run \in failed'
        BY <2>2 DEF Machine!ReturnRefused, Machine!Refused
      <3> QED
        BY <3>1, <3>2, HandleRuns
    <2> QED
      BY <2>1, <2>2
  <1>2. /\ phase = "open" /\ phase' = phase /\ run # 0 /\ run' = 0 /\ waiting' = waiting
        /\ failed \subseteq failed' /\ paths \subseteq paths'
        /\ cached' = cached /\ started' = started /\ calls' = calls
    BY DEF Machine!Return, Machine!ReturnRefused, Machine!Refused
  <1>3. HandleTypes'
    BY <1>2, TypesKept DEF HandlesInv
  <1>4. \A h \in Machine!Arguments(run) : h.run # 0 /\ h.what \in {"args", "ctx"}
    BY <1>2, HandleRuns
  <1>5. cached \cup {Machine!Path(p) : p \in paths'} \subseteq live'
    <2>1. \A p \in paths' : Machine!Path(p) \notin Machine!Arguments(run)
      BY <1>4, HandleRuns
    <2>2. \A h \in cached : h \in live /\ h \notin Machine!Arguments(run)
      BY <1>2, <1>4 DEF HandlesInv, HandleTypes, Machine!UsedAreLive
    <2> QED
      BY <1>1, <2>1, <2>2
  <1>6. \A v \in waiting' : Machine!Resolvers(v) \subseteq live'
    BY <1>1, <1>2, <1>4, HandleRuns DEF HandlesInv, Machine!UsedAreLive
  <1>7. ASSUME NEW h \in live' PROVE Accounted(h)'
    <2>1. CASE h \in live
      BY <1>1, <1>2, <2>1 DEF HandlesInv, Accounted
    <2>2. CASE h \in new
      BY <1>1, <2>2 DEF Accounted
    <2>3. ASSUME NEW p \in paths', h = Machine!Path(p) PROVE Accounted(h)'
      BY <2>3, HandleRuns DEF Accounted
    <2> QED
      BY <1>1, <2>1, <2>2, <2>3
  <1> QED
    BY <1>2, <1>3, <1>5, <1>6, <1>7 DEF HandlesInv, Machine!UsedAreLive

\* Once the machine is closed nothing is used.
LEMMA CloseKeeps ==
  ASSUME HandlesInv, Machine!Close \/ \E w \in waiting : Machine!Miss(w)
  PROVE  HandlesInv'
  <1>1. /\ phase' = "closed" /\ cached' \in {cached, {}} /\ run' = run /\ started' = started
        /\ calls' = calls /\ waiting' \subseteq waiting
    BY DEF Machine!Close, Machine!Miss
  <1> QED
    BY <1>1 DEF HandlesInv, HandleTypes, Machine!UsedAreLive

LEMMA HandlesKept == ASSUME HandlesInv, [Machine!Next]_(Machine!vars) PROVE HandlesInv'
  <1>1. CASE UNCHANGED Machine!vars
    BY <1>1 DEF Machine!vars, HandlesInv, HandleTypes, Machine!UsedAreLive, Accounted
  <1>2. CASE Machine!Next
    BY <1>2, ImportKeeps, ExecuteKeeps, GetKeeps, GetRefusedKeeps, SetKeeps, SetRefusedKeeps,
       AnswerKeeps, ReturnKeeps, CloseKeeps DEF Machine!Next
  <1> QED
    BY <1>1, <1>2

\* The host frees what it has done with, and nothing sooner (vm.ts,
\* ContractRuntime.ts), whatever a contract exports, calls and awaits.
THEOREM MachineHandlesSound == Machine!Spec => []HandlesSound
  <1>1. ASSUME HandlesInv PROVE HandlesSound
    <2> SUFFICES ASSUME phase = "open", NEW e \in (1..started) \ (failed \cup {run}),
                        \A w \in waiting : w[1] # e, NEW h \in live
                 PROVE  h.run # e
      BY <1>1 DEF HandlesInv, HandlesSound, Machine!HandlesSound, Machine!LeavesNothing
    <2>1. Accounted(h)
      BY <1>1 DEF HandlesInv
    <2> QED
      BY <2>1, HandleRuns DEF Accounted
  <1> QED
    BY <1>1, HandlesInit, HandlesKept, PTL DEF Machine!Spec
=============================================================================
