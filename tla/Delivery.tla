------------------------------- MODULE Delivery -------------------------------
(***************************************************************************)
(* What mudlog promises about a relay, without queues, workers, breakers   *)
(* or clocks: once accepted it is tried a bounded number of times and then *)
(* settled for good, delivered only after it was tried; a replay is a new  *)
(* relay that names the old one.  Relay implements this specification with *)
(* its history variables, see RefinesDelivery.                             *)
(***************************************************************************)
EXTENDS Naturals

CONSTANTS
    Relays,         \* relay ids
    NoRelay,        \* origin of a relay that replays none
    MaxAttempts     \* POSTs a relay gets at most

VARIABLES
    status,     \* what has become of each relay
    tries,      \* POSTs made for it
    origin      \* the relay it replays

promise == <<status, tries, origin>>

Status == {"unused", "live", "delivered", "dead"}

Init ==
    /\ status = [r \in Relays |-> "unused"]
    /\ tries = [r \in Relays |-> 0]
    /\ origin = [r \in Relays |-> NoRelay]

\* A frame is accepted for the stores it matches, one relay for each.
Accept(R) ==
    /\ R # {}
    /\ \A r \in R : status[r] = "unused"
    /\ status' = [r \in Relays |-> IF r \in R THEN "live" ELSE status[r]]
    /\ UNCHANGED <<tries, origin>>

\* The operator has relay r tried again under a new id.
Reissue(n, r) ==
    /\ status[n] = "unused" /\ status[r] # "unused"
    /\ status' = [status EXCEPT ![n] = "live"]
    /\ origin' = [origin EXCEPT ![n] = r]
    /\ UNCHANGED tries

Try(r) ==
    /\ status[r] = "live" /\ tries[r] < MaxAttempts
    /\ tries' = [tries EXCEPT ![r] = @ + 1]
    /\ UNCHANGED <<status, origin>>

Deliver(r) ==
    /\ status[r] = "live" /\ tries[r] > 0
    /\ status' = [status EXCEPT ![r] = "delivered"]
    /\ UNCHANGED <<tries, origin>>

\* An unavailable store ends a relay that was never tried.
GiveUp(r) ==
    /\ status[r] = "live"
    /\ status' = [status EXCEPT ![r] = "dead"]
    /\ UNCHANGED <<tries, origin>>

Next ==
    \/ \E R \in SUBSET Relays : Accept(R)
    \/ \E n, r \in Relays : Reissue(n, r)
    \/ \E r \in Relays : Try(r) \/ Deliver(r) \/ GiveUp(r)

Spec == Init /\ [][Next]_promise
==============================================================================
