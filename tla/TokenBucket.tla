----------------------------- MODULE TokenBucket -----------------------------
(***************************************************************************)
(* internal/ratelimit: the per-store token bucket as operators on a bucket *)
(* record.  Tokens are counted in units, Unit of them to a token, so that  *)
(* the float arithmetic of the code is integer arithmetic here; the tick   *)
(* plays the nanosecond to which Take truncates the wait it returns.       *)
(***************************************************************************)
EXTENDS Integers

CONSTANTS
    Unit,       \* units in one token
    Rate,       \* units earned per tick
    Burst       \* tokens the bucket holds at most

\* New replaces a rate or a burst that is not positive.
ASSUME BucketAssumption ==
    /\ Unit \in Nat \ {0}
    /\ Rate \in Nat \ {0}
    /\ Burst \in Nat \ {0}

BucketType == [tokens : 0..(Unit * Burst), lastTime : Nat]

NewBucket(t) == [tokens |-> Unit * Burst, lastTime |-> t]

\* Take's refill: earn for the time since the last call, never negative time.
Refill(b, t) ==
    LET elapsed == IF t < b.lastTime THEN 0 ELSE t - b.lastTime
        earned == b.tokens + elapsed * Rate
    IN  [tokens |-> IF earned > Unit * Burst THEN Unit * Burst ELSE earned,
         lastTime |-> t]

\* The wait Take returns; 0 means proceed.  The division truncates, so a
\* bucket short of a token by less than one tick's earnings also says 0.
TakeWait(b, t) ==
    LET c == Refill(b, t) IN
        IF c.tokens >= Unit THEN 0 ELSE (Unit - c.tokens) \div Rate

BadAfterTake(b, t) == [Refill(b, t) EXCEPT !.tokens = @ - Unit]

EarlyAfterTake(b, t) ==
    LET c == Refill(b, t) IN
        IF c.tokens >= Unit THEN [b EXCEPT !.tokens = c.tokens - Unit] ELSE c

\* The bucket Take leaves behind.
AfterTake(b, t) ==
    LET c == Refill(b, t) IN
        IF c.tokens >= Unit THEN [c EXCEPT !.tokens = @ - Unit] ELSE c
==============================================================================
