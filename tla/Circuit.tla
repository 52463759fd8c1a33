------------------------------- MODULE Circuit -------------------------------
(***************************************************************************)
(* The per-store circuit breaker of internal/circuit as operators on a     *)
(* breaker record.  Every method of the Go type runs under the breaker's   *)
(* mutex, so each operator below is one atomic step of whoever calls it;   *)
(* the machines that call them are Breaker and Relay.                      *)
(*                                                                         *)
(* Operators named Bad..., Early... or Again... are wrong variants of the  *)
(* definition that follows them: the mutants the properties are checked    *)
(* against.                                                                *)
(***************************************************************************)
EXTENDS Integers

CONSTANTS
    FailThreshold,  \* Settings.FailThreshold: consecutive failures that trip
    OpenFor,        \* Settings.OpenFor, in clock ticks
    Probes          \* Settings.Probes: attempts admitted per half-open episode

\* What Settings.normalize guarantees of the settings a breaker runs with.
ASSUME CircuitAssumption ==
    /\ FailThreshold \in Nat \ {0}
    /\ OpenFor \in Nat \ {0}
    /\ Probes \in Nat \ {0}

States == {"closed", "open", "half_open"}

\* The mutable fields of the Go struct; openedAt is a tick of the clock.
BreakerType ==
    [state : States, failures : Nat, openedAt : Nat, probesLeft : Nat]

NewBreaker ==
    [state |-> "closed", failures |-> 0, openedAt |-> 0, probesLeft |-> 0]

BadTrip(b, t) == [b EXCEPT !.state = "open", !.openedAt = t, !.failures = 0]

EarlyTrip(b, t) == [b EXCEPT !.state = "open", !.probesLeft = 0]

\* tripLocked.  The failure count is left at the value that tripped it.
Trip(b, t) ==
    [b EXCEPT !.state = "open", !.openedAt = t, !.probesLeft = 0]

BadMaybeHalfOpen(b, t) ==
    IF b.state = "open" /\ t - b.openedAt >= OpenFor
    THEN [b EXCEPT !.state = "half_open", !.probesLeft = Probes + 1]
    ELSE b

\* maybeHalfOpenLocked: lazily notice that the open period is over.
MaybeHalfOpen(b, t) ==
    IF b.state = "open" /\ t - b.openedAt >= OpenFor
    THEN [b EXCEPT !.state = "half_open", !.probesLeft = Probes]
    ELSE b

\* Decision.Allow, as Allow would answer it at time t.
Admits(b, t) ==
    LET c == MaybeHalfOpen(b, t) IN
        \/ c.state = "closed"
        \/ c.state = "half_open" /\ c.probesLeft > 0

BadAfterAllow(b, t) == MaybeHalfOpen(b, t)

\* The breaker Allow leaves behind: a probe costs one unit of the budget.
AfterAllow(b, t) ==
    LET c == MaybeHalfOpen(b, t) IN
        IF c.state = "half_open" /\ c.probesLeft > 0
        THEN [c EXCEPT !.probesLeft = @ - 1]
        ELSE c

BadAfterSuccess(b) == [b EXCEPT !.state = "closed", !.probesLeft = 0]

\* Success closes the breaker from whatever state it is in.
AfterSuccess(b) ==
    [b EXCEPT !.failures = 0, !.state = "closed", !.probesLeft = 0]

BadAfterFailure(b, t) ==
    CASE b.state = "half_open" -> Trip(b, t)
      [] b.state = "closed" ->
            LET c == [b EXCEPT !.failures = @ + 1] IN
                IF c.failures > FailThreshold THEN Trip(c, t) ELSE c
      [] OTHER -> b

EarlyAfterFailure(b, t) ==
    CASE b.state = "closed" ->
            LET c == [b EXCEPT !.failures = @ + 1] IN
                IF c.failures >= FailThreshold THEN Trip(c, t) ELSE c
      [] OTHER -> b

\* Failure: ignored while open, trips at once from half-open.
AfterFailure(b, t) ==
    CASE b.state = "half_open" -> Trip(b, t)
      [] b.state = "closed" ->
            LET c == [b EXCEPT !.failures = @ + 1] IN
                IF c.failures >= FailThreshold THEN Trip(c, t) ELSE c
      [] OTHER -> b

(***************************************************************************)
(* The shape every reachable breaker has.  A closed breaker is strictly    *)
(* below the threshold (the next failure may be the tripping one), any     *)
(* other is exactly at it, and a probe budget exists in half-open only.    *)
(***************************************************************************)
BreakerShape(b) ==
    /\ b.state = "closed" => b.failures < FailThreshold
    /\ b.state # "closed" => b.failures = FailThreshold
    /\ b.probesLeft <= Probes
    /\ b.state # "half_open" => b.probesLeft = 0
==============================================================================
