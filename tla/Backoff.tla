------------------------------- MODULE Backoff -------------------------------
(***************************************************************************)
(* internal/backoff: the retry budget and the full-jitter retry delay.     *)
(***************************************************************************)
EXTENDS Integers

CONSTANTS
    Base,           \* Policy.Base, in ticks
    Cap,            \* Policy.Cap, in ticks
    MaxAttempts     \* Policy.MaxAttempts

\* What Policy.Validate guarantees of the policy the engine runs with (not
\* Base <= Cap: a base above 30s gets the 30s cap).
ASSUME BackoffAssumption ==
    /\ Base \in Nat \ {0}
    /\ Cap \in Nat \ {0}
    /\ MaxAttempts \in Nat \ {0}

BadExhausted(attempt) == attempt > MaxAttempts

Exhausted(attempt) == attempt >= MaxAttempts

\* The exponent stops growing at 30 and the ceiling at Cap.
Ceiling(attempt) ==
    LET exp == IF attempt < 1 THEN 0
               ELSE IF attempt - 1 > 30 THEN 30 ELSE attempt - 1
        max == Base * 2^exp
    IN  IF max > Cap THEN Cap ELSE max

\* Every delay randFloat64 can make of it.  The draw is below 1, so the
\* ceiling itself is never reached.
Delays(attempt) == {d \in 0..(Cap - 1) : d < Ceiling(attempt)}
==============================================================================
