------------------------------ MODULE MCSigners -----------------------------
(***************************************************************************)
(* Two calls: in the browser for one topic, in node for one or two.  The   *)
(* accounts differ in chain and type of key.                               *)
(* The signer of AT Protocol: two calls, in a browser and in node, with and *)
(* without options.login.                                                  *)
(* The two are apart: one of them moves in each behaviour.                 *)
(***************************************************************************)
EXTENDS Signers, BlueskySigner

CONSTANTS c1, c2, t1, t2, a1, a2

VARIABLE part  \* which module moves: the other stays as it began

-----------------------------------------------------------------------------
OneTopic == [c \in Calls |-> t1]
TwoTopics == [c \in Calls |-> IF c = c2 THEN t2 ELSE t1]

SetupOf(kind, browser, topicOf) == [kind |-> kind, browser |-> browser, topicOf |-> topicOf]

AllSetups ==
  {SetupOf(kind, browser, OneTopic) : kind \in AllKinds, browser \in BOOLEAN}
  \cup {SetupOf(kind, FALSE, TwoTopics) : kind \in AllKinds}

Chains == [a \in Accounts |-> IF a = a1 THEN "genesis1" ELSE "genesis2"]
KeyTypes == [a \in Accounts |-> IF a = a1 THEN "sr25519" ELSE "ed25519"]

-----------------------------------------------------------------------------
AllPlatforms == [browser : BOOLEAN, login : BOOLEAN]

-----------------------------------------------------------------------------
EitherInit ==
  /\ part \in {"chains", "atp"}
  /\ Init /\ Bluesky!Init
  /\ part = "chains" =>
       /\ platform = [browser |-> FALSE, login |-> FALSE]
       /\ operations = <<[type |-> "plc_operation", key |-> 1]>>
  /\ part = "atp" => setup = SetupOf(Ethereum, FALSE, OneTopic) /\ current = a1

EitherNext ==
  \/ part = "chains" /\ Next /\ UNCHANGED <<part, atp>>
  \/ part = "atp" /\ Bluesky!Next /\ UNCHANGED <<part, vars>>

EitherSpec == EitherInit /\ [][EitherNext]_<<part, vars, atp>>
=============================================================================
