-------------------------------- MODULE Queue --------------------------------
(***************************************************************************)
(* internal/queue: the broker's choice of the next relay job.  The ready   *)
(* heaps of all stores are one set of jobs, each naming its store; a heap  *)
(* only promises that its root is minimal under Less, so equal jobs may    *)
(* come out in either order.                                               *)
(***************************************************************************)
EXTENDS Integers

CONSTANTS
    Stores,         \* ids of the registered geology stores
    Ordered,        \* stores created with ordered = true
    MaxInFlight     \* per store, the max_in_flight it was created with

ASSUME QueueAssumption ==
    /\ Ordered \subseteq Stores
    /\ MaxInFlight \in [Stores -> Int]

\* newDestQueue: an ordered store gets one slot, and no store gets none.
MaxFlight(s) ==
    IF s \in Ordered \/ MaxInFlight[s] < 1 THEN 1 ELSE MaxInFlight[s]

\* dueHeap.Less
Less(i, j) ==
    IF i.notBefore = j.notBefore
    THEN i.createdAt < j.createdAt
    ELSE i.notBefore < j.notBefore

\* The jobs that may be at the root of store s's heap.
Heads(ready, s) ==
    LET q == {j \in ready : j.store = s} IN
        {j \in q : \A k \in q : ~Less(k, j)}

\* Heads that a lease at time t may take at all: a slot is free and it is due.
Due(ready, inFlight, t) ==
    {j \in UNION {Heads(ready, s) : s \in Stores} :
        /\ inFlight[j.store] < MaxFlight(j.store)
        /\ j.notBefore <= t}

BadLeasable(ready, inFlight, t) ==
    {j \in UNION {Heads(ready, s) : s \in Stores} : j.notBefore <= t}

\* Lease picks the earliest of them; the map order breaks ties between stores.
Leasable(ready, inFlight, t) ==
    LET due == Due(ready, inFlight, t) IN
        {j \in due : \A k \in due : j.notBefore <= k.notBefore}
==============================================================================
