------------------------------ MODULE MCRecovery ------------------------------
(* Recovery on small instances. *)
EXTENDS Recovery

CONSTANTS w1, w2, s1, r1, r2, h1

OneStore == {s1}
NoStores == {}
TwoInFlight == [s \in Stores |-> 2]
OneWorker == {w1}
TwoWorkers == {w1, w2}
OneHandler == {h1}
TwoRelays == {r1, r2}
OneRelay == {r1}

\* A store that works, is overloaded or refuses the frame, and a process that stops.
EachOutcome ==
    {Answered(200), Answered(503), Answered(422), Failed("cancelled")}

\* Workers and relay ids are interchangeable.
Symmetry == Permutations(Workers) \cup Permutations(Relays)
==============================================================================
