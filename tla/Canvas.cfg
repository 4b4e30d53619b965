SPECIFICATION Spec
CONSTANTS
  c1 = c1
  c2 = c2
  topic1 = topic1
  topic2 = topic2
  peer1 = peer1
  peer2 = peer2
  Remotes = {peer1, peer2}
  MaxConns = 2
  MaxRounds = 2
  Calls = {c1, c2}
  Topics = {topic1, topic2}
  Setups <- Sound
  MaxTime = 2
  MaxEvents = 1
INVARIANTS
  FailsOnlyIfRaced
  SessionFits
  StatusSettled
 
CHECK_DEADLOCK FALSE
