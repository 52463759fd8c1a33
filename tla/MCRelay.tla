------------------------------- MODULE MCRelay -------------------------------
(* Relay on small instances. *)
EXTENDS Relay

CONSTANTS w1, w2, s1, s2, r1, r2, r3, h1, h2

TwoStores == {s1, s2}
FirstStore == {s1}
NoStores == {}
TwoInFlight == [s \in Stores |-> 2]
TwoWorkers == {w1, w2}
OneHandler == {h1}
TwoHandlers == {h1, h2}
NoRelays == {}
TwoRelays == {r1, r2}
ThreeRelays == {r1, r2, r3}

\* One answer of each kind.
EachKind == {Answered(200), Answered(503), Answered(422)}
\* A store that works or is overloaded.
UpOrBusy == {Answered(200), Answered(503)}
\* A store that works, or whose host name stops resolving.
UpOrNoName == {Answered(200), Failed("dns")}

\* Workers, relay ids and handlers are interchangeable; used with safety only.
Symmetry ==
    Permutations(Workers) \cup Permutations(Relays) \cup Permutations(Handlers)
==============================================================================
