------------------------------ MODULE Execution -------------------------------
(***************************************************************************)
(* How the action of a message is executed (core/src/runtime): by functions *)
(* (FunctionRuntime.ts) or by a contract in QuickJS (ContractRuntime.ts,    *)
(* vm/src/vm.ts).  The database that a handler is given is one for all of  *)
(* them, and goes to the message in #context.                              *)
(*                                                                         *)
(* The log calls the consumer for one message at a time.  A handler is a   *)
(* number of branches that it starts together and joins; a branch awaits   *)
(* each of its operations.                                                 *)
(***************************************************************************)
EXTENDS Integers, Sequences

CONSTANTS
  Kinds,     \* of runtimes: "function", "contract"
  Actions,
  Keys,      \* of the entries of the database
  Program,   \* of each action: its branches, and how it joins them
  MaxRuns    \* bound: executions

\* Promise.all fails with the first branch that does, Promise.allSettled waits
\* for each and succeeds.
ASSUME ProgramAssumption ==
  /\ Kinds \subseteq {"function", "contract"} /\ MaxRuns \in Nat
  /\ \A a \in Actions :
       /\ Program[a].join \in {"all", "allSettled"}
       /\ Program[a].branches \in Seq(Seq([do : {"get", "set", "delete", "throw"}, key : Keys]))

VARIABLES
  kind,
  context,   \* #context: the execution that db is for, or None
  runs,      \* the action and the outcome of each execution so far
  entries,   \* modelEntries of each
  branch,    \* of each, its branches: how far, what they read, and if they ended
  jobs,      \* continuations that are due, <<execution, branch>>
  reads,     \* calls of getModelValue that are under way
  due,       \* whether a call of executePendingJobs is due
  inside     \* whether QuickJS is running

vars == <<kind, context, runs, entries, branch, jobs, reads, due, inside>>

None == 0

\* Values: what the ancestors of a message left in an entry, an Error that is
\* taken for a value, what an action sets, made of what its branch has read, and
\* the null of an action that deletes.
Old == <<"old">>
Thrown == <<"error">>
Value(a, saw) == <<"value", a, saw>>
Null(a) == <<"null", a>>

Code(e, b) == Program[runs[e].action].branches[b]
Branches(a) == DOMAIN Program[a].branches

\* A host continuation runs between jobs; not while QuickJS does.
Outside == ~inside
Inside == kind = "function" \/ inside

Has(e, key) == key \in DOMAIN entries[e]
With(f, key, value) == [k \in DOMAIN f \cup {key} |-> IF k = key THEN value ELSE f[k]]

-----------------------------------------------------------------------------
Init ==
  /\ kind \in Kinds
  /\ context = None /\ runs = <<>> /\ entries = <<>> /\ branch = <<>>
  /\ jobs = <<>> /\ reads = {} /\ due = FALSE /\ inside = FALSE

InProgress == \E e \in DOMAIN runs : runs[e].outcome \in {"running", "writing"}

Start(a) == [b \in Branches(a) |-> [at |-> 1, saw |-> <<>>, end |-> "open"]]
Calls(a, e) == [b \in Branches(a) |-> <<e, b>>]

\* Mutant: the entries of the message before are still there.
ExecuteAgain(a) ==
  LET e == Len(runs) + 1 IN
  /\ Outside /\ ~InProgress /\ e <= MaxRuns
  /\ runs' = Append(runs, [action |-> a, outcome |-> "running"])
  /\ context' = e
  /\ entries' = Append(entries, IF e = 1 THEN <<>> ELSE entries[e - 1])
  /\ branch' = Append(branch, Start(a))
  /\ jobs' = Calls(a, e) \o jobs
  /\ inside' = (kind = "contract")
  /\ UNCHANGED <<kind, reads, due>>

\* execute calls the handler, whose branches run up to an await each.
Execute(a) ==
  LET e == Len(runs) + 1 IN
  /\ Outside /\ ~InProgress /\ e <= MaxRuns
  /\ runs' = Append(runs, [action |-> a, outcome |-> "running"])
  /\ context' = e
  /\ entries' = Append(entries, <<>>)
  /\ branch' = Append(branch, Start(a))
  /\ jobs' = Calls(a, e) \o jobs
  /\ inside' = (kind = "contract")
  /\ UNCHANGED <<kind, reads, due>>

-----------------------------------------------------------------------------
(* A branch *)

Ends(e, b, how) == branch' = [branch EXCEPT ![e][b].end = how]
GoesOn(e, b) == branch' = [branch EXCEPT ![e][b].at = @ + 1]
Sees(e, b, value) ==
  branch' = [branch EXCEPT ![e][b].at = @ + 1, ![e][b].saw = Append(@, value)]

\* db.get.  With no context, the function throws and the contract's, wrapped by
\* the vm, returns the error.
Get(e, b, key) ==
  IF context # None
    THEN /\ reads' = reads \cup {[run |-> e, branch |-> b, for |-> context,
               value |-> IF Has(context, key) THEN entries[context][key] ELSE Old]}
         /\ jobs' = Tail(jobs)
         /\ UNCHANGED <<entries, branch>>
    ELSE /\ IF kind = "contract"
              THEN Sees(e, b, Thrown) /\ jobs' = Append(Tail(jobs), <<e, b>>)
              ELSE Ends(e, b, "threw") /\ jobs' = Tail(jobs)
         /\ UNCHANGED <<entries, reads>>

\* db.set and db.delete.
Put(e, b, key, value) ==
  /\ IF context # None
       THEN /\ entries' = [entries EXCEPT ![context] = With(@, key, value)]
            /\ GoesOn(e, b) /\ jobs' = Append(Tail(jobs), <<e, b>>)
       ELSE /\ Ends(e, b, "threw") /\ jobs' = Tail(jobs)
            /\ UNCHANGED entries
  /\ UNCHANGED reads

Operation(e, b, op) ==
  \/ op.do = "get" /\ Get(e, b, op.key)
  \/ op.do = "set" /\ Put(e, b, op.key, Value(runs[e].action, branch[e][b].saw))
  \/ op.do = "delete" /\ Put(e, b, op.key, Null(runs[e].action))
  \/ op.do = "throw" /\ Ends(e, b, "threw") /\ jobs' = Tail(jobs) /\ UNCHANGED <<entries, reads>>

\* The first continuation that is due.  QuickJS runs them until there are none.
RunJob ==
  /\ Inside /\ jobs # <<>>
  /\ LET e == Head(jobs)[1]  b == Head(jobs)[2]  at == branch[e][b].at IN
     IF at <= Len(Code(e, b))
       THEN Operation(e, b, Code(e, b)[at])
       ELSE Ends(e, b, "returned") /\ jobs' = Tail(jobs) /\ UNCHANGED <<entries, reads>>
  /\ inside' = (inside /\ jobs' # <<>>)
  /\ UNCHANGED <<kind, context, runs, due>>

\* Mutant: QuickJS is not told of a promise that is settled.
SettleSilently(r) ==
  /\ Outside /\ r \in reads /\ reads' = reads \ {r}
  /\ \/ Sees(r.run, r.branch, r.value) /\ jobs' = Append(jobs, <<r.run, r.branch>>)
     \/ r.for # context /\ Ends(r.run, r.branch, "threw") /\ UNCHANGED jobs
  /\ UNCHANGED <<kind, context, runs, entries, due, inside>>

\* A read is answered, or its transaction was over.
Settle(r) ==
  /\ Outside /\ r \in reads /\ reads' = reads \ {r}
  /\ \/ Sees(r.run, r.branch, r.value) /\ jobs' = Append(jobs, <<r.run, r.branch>>)
     \/ r.for # context /\ Ends(r.run, r.branch, "threw") /\ UNCHANGED jobs
  /\ due' = (kind = "contract")
  /\ UNCHANGED <<kind, context, runs, entries, inside>>

ExecutePendingJobs ==
  /\ Outside /\ due /\ due' = FALSE
  /\ inside' = (jobs # <<>>)
  /\ UNCHANGED <<kind, context, runs, entries, branch, jobs, reads>>

-----------------------------------------------------------------------------
(* The end *)

Fails(e) ==
  /\ Program[runs[e].action].join = "all"
  /\ \E b \in Branches(runs[e].action) : branch[e][b].end = "threw"
Succeeds(e) ==
  /\ ~Fails(e)
  /\ \A b \in Branches(runs[e].action) : branch[e][b].end # "open"

\* Mutant: execute returns the promise of the handler and does not await it.
ReturnEarly(e) ==
  /\ Outside /\ runs[e].outcome = "running" /\ context' = None
  /\ \/ Fails(e) /\ runs' = [runs EXCEPT ![e].outcome = "failed"]
     \/ Succeeds(e) /\ runs' = [runs EXCEPT ![e].outcome = "writing"]
     \/ ~Fails(e) /\ ~Succeeds(e) /\ context = e /\ UNCHANGED runs
  /\ UNCHANGED <<kind, entries, branch, jobs, reads, due, inside>>

\* The promise of the handler is settled, and execute ends.
Return(e) ==
  /\ Outside /\ runs[e].outcome = "running" /\ context' = None
  /\ \/ Fails(e) /\ runs' = [runs EXCEPT ![e].outcome = "failed"]
     \/ Succeeds(e) /\ runs' = [runs EXCEPT ![e].outcome = "writing"]
  /\ UNCHANGED <<kind, entries, branch, jobs, reads, due, inside>>

\* The consumer has written the entries.
Written(e) ==
  /\ Outside /\ runs[e].outcome = "writing"
  /\ runs' = [runs EXCEPT ![e].outcome = "done"]
  /\ UNCHANGED <<kind, context, entries, branch, jobs, reads, due, inside>>

Next ==
  \/ \E a \in Actions : Execute(a)
  \/ RunJob \/ ExecutePendingJobs
  \/ \E r \in reads : Settle(r)
  \/ \E e \in DOMAIN runs : Return(e) \/ Written(e)

\* Continuations run, and the database answers.
Fairness ==
  /\ WF_vars(RunJob) /\ WF_vars(ExecutePendingJobs)
  /\ WF_vars(\E r \in reads : Settle(r))
  /\ WF_vars(\E e \in DOMAIN runs : Return(e) \/ Written(e))

Spec == Init /\ [][Next]_vars /\ Fairness

-----------------------------------------------------------------------------
(* Properties *)

Done(e) == runs[e].outcome = "done"

\* The operations before a branch throws.
Reached(code) == {i \in DOMAIN code : \A j \in 1..i : code[j].do # "throw"}
Does(code, what) == \E i \in DOMAIN code : code[i].do \in what
Writes == {"set", "delete"}

\* A handler that may fail while another of its branches has yet to write: that
\* write goes to the message that is executed by then.
Straggles(a) ==
  /\ Program[a].join = "all"
  /\ \E b, c \in Branches(a) :
       /\ b # c /\ Does(Program[a].branches[b], {"throw"})
       /\ Does(Program[a].branches[c], Writes)

Undisturbed(e) == \A f \in 1..(e - 1) : ~Straggles(runs[f].action)

\* A handler with a branch that reads or writes what another writes.
Crosses(a) ==
  \E b, c \in Branches(a) : b # c /\
    \E i \in DOMAIN Program[a].branches[b], j \in DOMAIN Program[a].branches[c] :
      LET used == Program[a].branches[b][i]
          written == Program[a].branches[c][j]
      IN used.do # "throw" /\ written.do \in Writes /\ used.key = written.key

\* ExecutedTogether.  "Actions are atomic transactions, so you can combine multiple
\* `db.get()` or `db.set()` calls, and they will always be executed together"
\* (docs/3-actions.md:45): the entries written for a message are those its action
\* sets before it may throw, all of them; and no other's, though branches of
\* failed handlers go on, unless one of these has yet to write.
ExecutedTogether ==
  \A e \in DOMAIN runs : Done(e) =>
    /\ \A b \in Branches(runs[e].action) : \A i \in Reached(Code(e, b)) :
         Code(e, b)[i].do \in Writes => Has(e, Code(e, b)[i].key)
    /\ Undisturbed(e) =>
         \A key \in DOMAIN entries[e] : entries[e][key][2] = runs[e].action

\* ReplaysAgree.  "When actions with `db.get()` are propagated to other machines or
\* replayed later, the `db.get()` operation always returns the same value that it
\* saw at the time of execution" (docs/3-actions.md:47): two executions of an
\* action read and write the same, however long each read takes, unless its
\* branches read or write what others of them write.
ReplaysAgree ==
  \A e, f \in DOMAIN runs :
    /\ Done(e) /\ Done(f) /\ Undisturbed(e) /\ Undisturbed(f)
    /\ runs[e].action = runs[f].action
    /\ ~Crosses(runs[e].action)
    => /\ entries[e] = entries[f]
       /\ \A b \in Branches(runs[e].action) : branch[e][b].saw = branch[f][b].saw

\* ExecutionsEnd.  An execution ends, and with it the transaction of the log
\* that it holds up: nothing that a handler awaits is left to itself (vm.ts:113).
ExecutionsEnd == []<>(~InProgress)

=============================================================================
