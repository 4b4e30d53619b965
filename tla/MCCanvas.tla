------------------------------ MODULE MCCanvas -------------------------------
(***************************************************************************)
(* Two calls, or two other peers.  OneTopic: the calls are of one          *)
(* application; OneSigner: two applications share the signer.  Sound: what *)
(* the store can tell apart.                                               *)
(***************************************************************************)
EXTENDS Canvas

CONSTANTS c1, c2, topic1, topic2, peer1, peer2

OneTopic == [c \in Calls |-> topic1]
OneSigner == [c \in Calls |-> IF c = c2 THEN topic2 ELSE topic1]

SetupOf(browser, waits, duration, signsTopic, indexHistory, topicOf) ==
  [browser |-> browser, waits |-> waits, duration |-> duration,
   signsTopic |-> signsTopic, indexHistory |-> indexHistory,
   topicOf |-> topicOf, calls |-> Calls, remotes |-> {}]

Sound ==
  { [SetupOf(TRUE, TRUE, 1, FALSE, TRUE, OneTopic) EXCEPT !.calls = {}, !.remotes = Remotes],
    SetupOf(TRUE, TRUE, 1, FALSE, TRUE, OneTopic),
    SetupOf(FALSE, FALSE, 1, TRUE, FALSE, OneSigner) }
=============================================================================
