------------------------------- MODULE MCDriver --------------------------------
(***************************************************************************)
(* Five messages, with clocks on both sides of where the encoding gets     *)
(* longer, two of them with one clock.  16383 is the last clock for which  *)
(* the order of keys is that of clocks.                                    *)
(***************************************************************************)
EXTENDS Driver

CONSTANT MaxClock

\* A clock is read back as it was written.
ASSUME RoundTrips == \A clock \in 0..(2 * MaxClock) : DecodeClock(Key(clock, 200)) = clock

Samples == {<<127, 7>>, <<255, 0>>, <<255, 200>>, <<256, 1>>, <<MaxClock, 3>>}

-----------------------------------------------------------------------------
WalkInit ==
  /\ Init
  \* of a message in neither tree nothing depends on what it is
  /\ setup.boundaries \subseteq Source \cup target \cup waiting
  \* where a message waits it may go on waiting, as if there were none
  /\ waiting = {} => target = Entries

WalkSpec == WalkInit /\ [][Next]_vars
=============================================================================
