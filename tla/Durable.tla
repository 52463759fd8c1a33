-------------------------------- MODULE Durable --------------------------------
(***************************************************************************)
(* What mudlog promises about a relay when its process may die at any      *)
(* moment.  While it runs it keeps the promise of module Delivery.  A new  *)
(* process starts from what the old one last saved, so it may try again    *)
(* what was settled since, or know nothing of what was accepted since; but *)
(* a relay that is gone, from the process and from what a new one would    *)
(* start with, is never tried again by any process.                        *)
(***************************************************************************)
EXTENDS Delivery

VARIABLES
    gone,       \* relays no process will try again
    posted      \* POSTs made for each relay, those a process forgot included

durable == <<promise, gone, posted>>

\* A step of a running process: what it tries is posted.
Working ==
    /\ UNCHANGED promise \/ Next
    /\ posted' = [r \in Relays |->
                    IF tries'[r] = tries[r] THEN posted[r] ELSE posted[r] + 1]

\* Another process takes over.  Ids are not minted twice and replays keep their
\* origin; tries may be forgotten and never invented, so what is live again has
\* some left.
TakeOver ==
    /\ \A r \in Relays :
          /\ status'[r] \in Status \cup {"lost"}
          /\ status'[r] = "unused" <=> status[r] = "unused"
          /\ tries'[r] <= tries[r]
          /\ status'[r] = "live" => r \notin gone /\ tries'[r] < MaxAttempts
    /\ UNCHANGED <<origin, posted>>

\* Gone is gone: through every step and every start.
Forever ==
    /\ gone \subseteq gone'
    /\ \A r \in gone : posted'[r] = posted[r]

DurableInit == Init /\ gone = {} /\ posted = [r \in Relays |-> 0]

DurableSpec ==
    DurableInit /\ [][(Working \/ TakeOver) /\ Forever]_durable
==============================================================================
