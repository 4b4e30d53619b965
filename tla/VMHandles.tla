------------------------------ MODULE VMHandles ------------------------------
(***************************************************************************)
(* Handles beside Execution: its parameters and state, as Execution's      *)
(* module for model checking and its proofs both have them.                *)
(***************************************************************************)
CONSTANTS Contracts, Length, MaxExecutions, MaxCalls

VARIABLES phase, live, paths, cached, run, started, calls, failed, waiting

handles == <<phase, live, paths, cached, run, started, calls, failed, waiting>>

Machine == INSTANCE Handles WITH
  Keys <- Length, MaxRuns <- MaxExecutions, runs <- started

\* The host frees what it has done with, and nothing sooner (vm.ts, ContractRuntime.ts).
HandlesSound == Machine!HandlesSound
=============================================================================
