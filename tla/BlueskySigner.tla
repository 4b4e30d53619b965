---------------------------- MODULE BlueskySigner ----------------------------
(***************************************************************************)
(* ATPSigner beside Signers: its parameters and state, as Signers' module  *)
(* for model checking and its proofs both have them.                       *)
(***************************************************************************)
CONSTANTS BlueskyCalls, Platforms, Registered, MaxOperations, MaxFailures, MaxRestarts

VARIABLES
  platform, operations, post, session, jwt, agent, kept, saved, posts, restarts,
  failed, changed, overtaken

atp == <<platform, operations, post, session, jwt, agent, kept, saved, posts, restarts,
         failed, changed, overtaken>>

Bluesky == INSTANCE ATPSigner WITH
  Calls <- BlueskyCalls, Setups <- Platforms, setup <- platform, call <- post, cache <- kept,
  stored <- saved, raced <- overtaken

\* The session stored is sound, no post is left behind without a reason, and no
\* call of the signer of AT Protocol fails without one (chain-atp/src/ATPSigner.ts).
SignsSoundly == Bluesky!SignsSoundly
=============================================================================
