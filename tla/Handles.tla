------------------------------- MODULE Handles --------------------------------
(***************************************************************************)
(* The handles of QuickJS values that the host holds: nothing frees one    *)
(* but the code that has it (vm/src/vm.ts, core/src/runtime/               *)
(* ContractRuntime.ts).  A handle is named for what it is of; one that is  *)
(* taken and disposed of within a call of the host is left out.            *)
(*                                                                         *)
(* A contract calls the database as it likes, and awaits what it likes.    *)
(***************************************************************************)
EXTENDS Integers

CONSTANTS
  Contracts,  \* their exports, and the fields of each action, {} for a function
  Keys,       \* of an object that a contract passes: its first is 1
  MaxRuns,    \* bound: executions
  MaxCalls    \* bound: calls of the database in one

VARIABLES
  phase,    \* of the virtual machine
  live,     \* handles that were not disposed of
  paths,    \* #globalCache: the paths that have a handle
  cached,   \* #localCache
  run,      \* the execution under way, or None
  runs,     \* executions so far
  calls,    \* calls of the database in the last
  failed,   \* executions in which a call or a value was refused
  waiting   \* reads that a deferred promise of the contract waits for

vars == <<phase, live, paths, cached, run, runs, calls, failed, waiting>>

None == 0
Nothing == "nothing"

Handle(e, i, what, of, key) == [run |-> e, call |-> i, what |-> what, of |-> of, key |-> key]
Path(p) == Handle(None, 0, "path", p, 0)
Action(a) == Handle(None, 0, "action", a, 0)
Field(a, f) == Handle(None, 0, f, a, 0)
Export(x) == Handle(None, 0, "export", x, 0)
Api == Handle(None, 0, "api", Nothing, 0)
Of(e, what) == Handle(e, 0, what, Nothing, 0)
OfCall(e, i, what) == Handle(e, i, what, Nothing, 0)
Resolvers(w) == {OfCall(w[1], w[2], "resolve"), OfCall(w[1], w[2], "reject")}

ObjectPaths == {"Object", "Object.keys"}
ValuePaths == ObjectPaths \cup {"Object.is", "Uint8Array", "Array", "Array.isArray"}
PromisePaths == {"Object", "Object.is", "Promise"}
ErrorPaths == {"Error"}

-----------------------------------------------------------------------------
(* ContractRuntime.init *)

Init ==
  /\ phase = "new" /\ live = {} /\ paths = {} /\ cached = {}
  /\ run = None /\ runs = 0 /\ calls = 0 /\ failed = {} /\ waiting = {}

Required == {"topic", "models", "actions"}
Unloadable(c) == {a \in DOMAIN c.actions : c.actions[a] # {} /\ "apply" \notin c.actions[a]}
Loads(c) == Required \subseteq c.exports /\ Unloadable(c) = {}

\* Of an action that is an object, apply and argsType are taken.
Leaves(c) ==
  UNION {{Field(a, f) : f \in c.actions[a] \ {"apply", "argsType"}} : a \in DOMAIN c.actions}

\* The handles are looked up by path once, and kept.
Looks(ps) ==
  /\ paths' = paths \cup ps
  /\ live' = live \cup {Path(p) : p \in ps}

Load(c) ==
  /\ Loads(c)
  /\ phase' = "open"
  /\ cached' = {Action(a) : a \in DOMAIN c.actions} \cup {Api}
  /\ paths' = ObjectPaths
  /\ live' = cached' \cup {Path(p) : p \in paths'} \cup Leaves(c)
  /\ UNCHANGED <<run, runs, calls, failed, waiting>>

\* An assertion fails, and no one disposes of the machine.
Refuse(c) ==
  /\ ~Loads(c) /\ phase' = "failed"
  /\ paths' = ObjectPaths
  /\ live' = {Path(p) : p \in paths'} \cup
       IF "topic" \notin c.exports THEN {Export(x) : x \in c.exports \cap {"models", "actions"}}
       ELSE IF "actions" \notin c.exports THEN {Export(x) : x \in c.exports \cap {"models"}}
       ELSE IF Unloadable(c) # {}
         THEN {Export(x) : x \in c.exports \cap {"models"}}
                \cup {Action(a) : a \in DOMAIN c.actions \ Unloadable(c)} \cup Leaves(c)
                \cup UNION {{Field(a, f) : f \in c.actions[a]} : a \in Unloadable(c)}
       ELSE {Action(a) : a \in DOMAIN c.actions} \cup Leaves(c)
  /\ UNCHANGED <<cached, run, runs, calls, failed, waiting>>

Import == phase = "new" /\ \E c \in Contracts : Load(c) \/ Refuse(c)

-----------------------------------------------------------------------------
(* An execution *)

\* wrapValue of the arguments and of the context.
Arguments(e) == {Of(e, "args"), Of(e, "ctx")}

Execute ==
  /\ phase = "open" /\ run = None /\ runs < MaxRuns
  /\ runs' = runs + 1 /\ run' = runs' /\ calls' = 0
  /\ live' = live \cup Arguments(runs')
  /\ UNCHANGED <<phase, paths, cached, failed, waiting>>

Calling == phase = "open" /\ run # None /\ calls < MaxCalls /\ calls' = calls + 1
Refused == failed' = failed \cup {run}

\* unwrapValue stops at the property that is undefined; the keys after it were
\* taken.
KeysAfter(e, i, k) == {Handle(e, i, "key", Nothing, j) : j \in (k + 1)..Keys}

\* db.get: the promise waits for the database.
Get ==
  /\ Calling
  /\ LET w == <<run, calls'>> IN
     /\ waiting' = waiting \cup {w}
     /\ paths' = paths \cup {"Object", "Object.is"}
     /\ live' = live \cup {Path(p) : p \in paths'} \cup Resolvers(w)
  /\ UNCHANGED <<phase, cached, run, runs, failed>>

\* The function throws: the contract has the error, the host its stack.
GetRefused ==
  /\ Calling /\ Refused
  /\ paths' = paths \cup ErrorPaths \cup {"Object", "Object.is"}
  /\ live' = live \cup {Path(p) : p \in paths'} \cup {OfCall(run, calls', "stack")}
  /\ UNCHANGED <<phase, cached, run, runs, waiting>>

\* db.set and db.delete.
Set ==
  /\ Calling /\ Looks(ValuePaths)
  /\ UNCHANGED <<phase, cached, run, runs, failed, waiting>>

SetRefused ==
  /\ Calling /\ Refused
  /\ paths' = paths \cup ValuePaths
  /\ \E k \in 1..Keys :
       live' = live \cup {Path(p) : p \in paths'} \cup KeysAfter(run, calls', k)
  /\ UNCHANGED <<phase, cached, run, runs, waiting>>

\* Mutant: the handle of the answer is left to itself.
ResolveKeeping(w) ==
  /\ phase = "open" /\ waiting' = waiting \ {w}
  /\ live' = (live \ Resolvers(w)) \cup {OfCall(w[1], w[2], "value")}
  /\ UNCHANGED <<phase, paths, cached, run, runs, calls, failed>>

\* The answer comes; its handle is disposed of when the promise is settled.
Resolve(w) ==
  /\ phase = "open" /\ waiting' = waiting \ {w}
  /\ live' = live \ Resolvers(w)
  /\ UNCHANGED <<phase, paths, cached, run, runs, calls, failed>>

\* The read fails; the handles of the error and of its stack stay.
Reject(w) ==
  /\ phase = "open" /\ waiting' = waiting \ {w}
  /\ paths' = paths \cup ErrorPaths
  /\ live' = (live \ Resolvers(w)) \cup {Path(p) : p \in paths'}
               \cup {OfCall(w[1], w[2], what) : what \in {"error", "stack"}}
  /\ failed' = failed \cup {w[1]}
  /\ UNCHANGED <<phase, cached, run, runs, calls>>

\* It finds no machine: it throws, where nobody hears of it.
Miss(w) ==
  /\ phase = "closed" /\ waiting' = waiting \ {w}
  /\ UNCHANGED <<phase, live, paths, cached, run, runs, calls, failed>>

\* The action returns nothing or a value, or throws.
Return ==
  /\ phase = "open" /\ run # None /\ run' = None
  /\ paths' = paths \cup PromisePaths
  /\ live' = (live \cup {Path(p) : p \in paths'}) \ Arguments(run)
  /\ UNCHANGED <<phase, cached, runs, calls, failed, waiting>>

\* It returns an object with a property that is undefined.
ReturnRefused ==
  /\ phase = "open" /\ run # None /\ run' = None /\ Refused
  /\ paths' = paths \cup PromisePaths \cup ValuePaths
  /\ \E k \in 1..Keys :
       live' = (live \cup {Path(p) : p \in paths'} \cup KeysAfter(run, 0, k)) \ Arguments(run)
  /\ UNCHANGED <<phase, cached, runs, calls, waiting>>

\* The log is idle, and the caches are disposed of.
Close ==
  /\ phase = "open" /\ run = None /\ phase' = "closed"
  /\ live' = live \ (cached \cup {Path(p) : p \in paths})
  /\ cached' = {} /\ paths' = {}
  /\ UNCHANGED <<run, runs, calls, failed, waiting>>

Next ==
  \/ Import
  \/ Execute \/ Return \/ ReturnRefused
  \/ Get \/ GetRefused \/ Set \/ SetRefused
  \/ \E w \in waiting : Resolve(w) \/ Reject(w) \/ Miss(w)
  \/ Close

Spec == Init /\ [][Next]_vars

-----------------------------------------------------------------------------
(* Properties *)

\* What is disposed of is used no more: the caches, the arguments of a contract
\* that has awaited something, and the two ends of a promise whose read is under
\* way are there when they are used (ContractRuntime.ts:163-179, vm.ts:97-110).
UsedAreLive ==
  phase = "open" =>
    /\ cached \cup {Path(p) : p \in paths} \subseteq live
    /\ run # None => Arguments(run) \subseteq live
    /\ \A w \in waiting : Resolvers(w) \subseteq live

\* A run of the contract in which nothing was refused leaves nothing, with reads
\* of its own that are answered after it and in other runs: the memory of the
\* machine, of 640 kB, is there for the next (vm.ts:16).
LeavesNothing ==
  phase = "open" => \A e \in (1..runs) \ (failed \cup {run}) :
    (\A w \in waiting : w[1] # e) => \A h \in live : h.run # e

\* The host frees what it has done with, and nothing sooner.
HandlesSound == UsedAreLive /\ LeavesNothing

=============================================================================
