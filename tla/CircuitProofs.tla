---------------------------- MODULE CircuitProofs ----------------------------
(***************************************************************************)
(* What each method of a breaker does to its type and to its shape, for    *)
(* every threshold, open period and probe budget.  Breaker's and Relay's   *)
(* proofs rest on these lemmas.                                            *)
(***************************************************************************)
EXTENDS Circuit, TLAPS

\* New returns a breaker of the right shape.
LEMMA NewBreakerOK == NewBreaker \in BreakerType /\ BreakerShape(NewBreaker)
  BY CircuitAssumption DEF NewBreaker, BreakerType, BreakerShape, States

\* maybeHalfOpenLocked keeps type and shape, never opens or closes a breaker,
\* and starts half-open with the whole budget.
LEMMA MaybeHalfOpenOK ==
  ASSUME NEW b \in BreakerType, NEW t \in Nat, BreakerShape(b)
  PROVE  /\ MaybeHalfOpen(b, t) \in BreakerType
         /\ BreakerShape(MaybeHalfOpen(b, t))
         /\ MaybeHalfOpen(b, t).failures = b.failures
         /\ MaybeHalfOpen(b, t).state = "closed" <=> b.state = "closed"
         /\ b.state = "half_open" => MaybeHalfOpen(b, t) = b
         /\ b.state # "half_open" /\ MaybeHalfOpen(b, t).state = "half_open" =>
                MaybeHalfOpen(b, t).probesLeft = Probes
<1>1. CASE b.state = "open" /\ t - b.openedAt >= OpenFor
  <2> DEFINE c == [b EXCEPT !.state = "half_open", !.probesLeft = Probes]
  <2>1. MaybeHalfOpen(b, t) = c
    BY <1>1 DEF MaybeHalfOpen
  <2>2. /\ c \in BreakerType
        /\ c.state = "half_open" /\ c.failures = b.failures
        /\ c.probesLeft = Probes
    BY CircuitAssumption DEF BreakerType, States
  <2>3. BreakerShape(c)
    BY <1>1, <2>2, CircuitAssumption DEF BreakerShape
  <2> QED BY <1>1, <2>1, <2>2, <2>3
<1>2. CASE ~(b.state = "open" /\ t - b.openedAt >= OpenFor)
  BY <1>2 DEF MaybeHalfOpen
<1> QED BY <1>1, <1>2

\* Allow keeps type and shape, and spends exactly one probe for an admission in
\* half-open.
LEMMA AfterAllowOK ==
  ASSUME NEW b \in BreakerType, NEW t \in Nat, BreakerShape(b)
  PROVE  /\ AfterAllow(b, t) \in BreakerType
         /\ BreakerShape(AfterAllow(b, t))
         /\ AfterAllow(b, t).failures = b.failures
         /\ AfterAllow(b, t).state = MaybeHalfOpen(b, t).state
         /\ AfterAllow(b, t).state = "closed" <=> b.state = "closed"
         /\ AfterAllow(b, t).state = "half_open" =>
                IF Admits(b, t)
                THEN AfterAllow(b, t).probesLeft + 1
                        = MaybeHalfOpen(b, t).probesLeft
                ELSE AfterAllow(b, t).probesLeft = MaybeHalfOpen(b, t).probesLeft
<1> DEFINE c == MaybeHalfOpen(b, t)
<1>1. /\ c \in BreakerType /\ BreakerShape(c) /\ c.failures = b.failures
      /\ c.state = "closed" <=> b.state = "closed"
  BY MaybeHalfOpenOK
<1>2. AfterAllow(b, t) = IF c.state = "half_open" /\ c.probesLeft > 0
                         THEN [c EXCEPT !.probesLeft = @ - 1] ELSE c
  BY DEF AfterAllow
<1>3. Admits(b, t) <=>
        c.state = "closed" \/ (c.state = "half_open" /\ c.probesLeft > 0)
  BY DEF Admits
<1> HIDE DEF c
<1>4. CASE c.state = "half_open" /\ c.probesLeft > 0
  BY <1>1, <1>2, <1>3, <1>4, CircuitAssumption
     DEF BreakerType, BreakerShape, States, c
<1>5. CASE ~(c.state = "half_open" /\ c.probesLeft > 0)
  BY <1>1, <1>2, <1>3, <1>5 DEF BreakerType, c
<1> QED BY <1>4, <1>5

\* Success closes a breaker of any shape.
LEMMA AfterSuccessOK ==
  ASSUME NEW b \in BreakerType
  PROVE  /\ AfterSuccess(b) \in BreakerType
         /\ BreakerShape(AfterSuccess(b))
         /\ AfterSuccess(b).state = "closed"
         /\ AfterSuccess(b).failures = 0
<1> DEFINE c == AfterSuccess(b)
<1>1. /\ c \in BreakerType
      /\ c.state = "closed" /\ c.failures = 0 /\ c.probesLeft = 0
  BY DEF AfterSuccess, BreakerType, States
<1>2. BreakerShape(c)
  BY <1>1, CircuitAssumption DEF BreakerShape
<1> QED BY <1>1, <1>2

\* tripLocked opens a breaker that is at the threshold.
LEMMA TripOK ==
  ASSUME NEW b \in BreakerType, NEW t \in Nat, b.failures = FailThreshold
  PROVE  /\ Trip(b, t) \in BreakerType
         /\ BreakerShape(Trip(b, t))
         /\ Trip(b, t).state = "open"
         /\ Trip(b, t).failures = b.failures
<1> DEFINE c == Trip(b, t)
<1>1. /\ c \in BreakerType
      /\ c.state = "open" /\ c.failures = b.failures /\ c.probesLeft = 0
  BY DEF Trip, BreakerType, States
<1>2. BreakerShape(c)
  BY <1>1, CircuitAssumption DEF BreakerShape
<1> QED BY <1>1, <1>2

\* Failure keeps type and shape, counts in closed only, never leaves open, and
\* never ends in half-open.
LEMMA AfterFailureOK ==
  ASSUME NEW b \in BreakerType, NEW t \in Nat, BreakerShape(b)
  PROVE  /\ AfterFailure(b, t) \in BreakerType
         /\ BreakerShape(AfterFailure(b, t))
         /\ AfterFailure(b, t).state # "half_open"
         /\ AfterFailure(b, t).state = "closed" <=>
                (b.state = "closed" /\ b.failures + 1 < FailThreshold)
         /\ b.state = "closed" => AfterFailure(b, t).failures = b.failures + 1
<1>1. CASE b.state = "half_open"
  <2>1. AfterFailure(b, t) = Trip(b, t)
    BY <1>1 DEF AfterFailure
  <2>2. b.failures = FailThreshold
    BY <1>1 DEF BreakerShape
  <2> QED BY <1>1, <2>1, <2>2, TripOK
<1>2. CASE b.state = "open"
  <2>1. AfterFailure(b, t) = b
    BY <1>2 DEF AfterFailure
  <2> QED BY <1>2, <2>1
<1>3. CASE b.state = "closed"
  <2> DEFINE c == [b EXCEPT !.failures = b.failures + 1]
  <2>1. AfterFailure(b, t) = IF c.failures >= FailThreshold THEN Trip(c, t) ELSE c
    BY <1>3 DEF AfterFailure
  <2>2. /\ c \in BreakerType
        /\ c.state = "closed" /\ c.failures = b.failures + 1
        /\ c.probesLeft = b.probesLeft
    BY <1>3 DEF BreakerType, States
  <2>3. b.failures < FailThreshold /\ b.probesLeft = 0
    BY <1>3 DEF BreakerShape
  <2>4. b.failures \in Nat
    BY DEF BreakerType
  <2> HIDE DEF c
  <2>5. CASE c.failures >= FailThreshold
    <3>1. c.failures = FailThreshold
      BY <2>2, <2>3, <2>4, <2>5, CircuitAssumption
    <3> QED BY <1>3, <2>1, <2>2, <2>4, <2>5, <3>1, TripOK
  <2>6. CASE ~(c.failures >= FailThreshold)
    <3>1. c.failures < FailThreshold
      BY <2>2, <2>4, <2>6, CircuitAssumption
    <3>2. BreakerShape(c)
      BY <2>2, <2>3, <3>1, CircuitAssumption DEF BreakerShape
    <3> QED BY <1>3, <2>1, <2>2, <2>6, <3>1, <3>2
  <2> QED BY <2>5, <2>6
<1> QED BY <1>1, <1>2, <1>3 DEF BreakerType, States

\* Only the end of the open period begins half-open, for Allow as for a look, and
\* neither moves openedAt.
LEMMA BeginsAfterPeriod ==
  ASSUME NEW b \in BreakerType, NEW t \in Nat,
         NEW d \in {MaybeHalfOpen(b, t), AfterAllow(b, t)}
  PROVE  /\ d.openedAt = b.openedAt
         /\ d.state = "open" => b.state = "open"
         /\ d.state = "half_open" /\ b.state # "half_open" =>
                b.state = "open" /\ t >= b.openedAt + OpenFor
<1> DEFINE c == MaybeHalfOpen(b, t)
<1>1. /\ c \in BreakerType
      /\ c.openedAt = b.openedAt
      /\ c.state = "open" => b.state = "open"
      /\ c.state = "half_open" /\ b.state # "half_open" =>
             b.state = "open" /\ t >= b.openedAt + OpenFor
  <2>1. CASE b.state = "open" /\ t - b.openedAt >= OpenFor
    <3> DEFINE e == [b EXCEPT !.state = "half_open", !.probesLeft = Probes]
    <3>1. c = e
      BY <2>1 DEF MaybeHalfOpen
    <3>2. /\ e \in BreakerType
          /\ e.state = "half_open" /\ e.openedAt = b.openedAt
      BY CircuitAssumption DEF BreakerType, States
    <3>3. t >= b.openedAt + OpenFor
      BY <2>1, CircuitAssumption DEF BreakerType
    <3> QED BY <2>1, <3>1, <3>2, <3>3
  <2>2. CASE ~(b.state = "open" /\ t - b.openedAt >= OpenFor)
    BY <2>2 DEF MaybeHalfOpen
  <2> QED BY <2>1, <2>2
<1>2. AfterAllow(b, t) = IF c.state = "half_open" /\ c.probesLeft > 0
                         THEN [c EXCEPT !.probesLeft = @ - 1] ELSE c
  BY DEF AfterAllow
<1> HIDE DEF c
<1>3. AfterAllow(b, t).openedAt = c.openedAt /\ AfterAllow(b, t).state = c.state
  BY <1>1, <1>2 DEF BreakerType
<1>4. d.openedAt = c.openedAt /\ d.state = c.state
  BY <1>3 DEF c
<1> QED BY <1>1, <1>4

\* A report that leaves the breaker open either found it open and left its date,
\* or opened it now.
LEMMA TripDates ==
  ASSUME NEW b \in BreakerType, NEW t \in Nat
  PROVE  LET d == AfterFailure(b, t) IN
         /\ d.state # "half_open"
         /\ b.state = "open" => d = b
         /\ b.state # "open" /\ d.state = "open" => d.openedAt = t
<1>1. CASE b.state = "half_open"
  BY <1>1 DEF AfterFailure, Trip, BreakerType
<1>2. CASE b.state = "open"
  BY <1>2 DEF AfterFailure
<1>3. CASE b.state = "closed"
  <2> DEFINE c == [b EXCEPT !.failures = @ + 1]
  <2>1. AfterFailure(b, t) = IF c.failures >= FailThreshold THEN Trip(c, t) ELSE c
    BY <1>3 DEF AfterFailure
  <2>2. c \in BreakerType /\ c.state = "closed"
    BY <1>3 DEF BreakerType
  <2> HIDE DEF c
  <2>3. Trip(c, t).state = "open" /\ Trip(c, t).openedAt = t
    BY <2>2 DEF Trip, BreakerType
  <2> QED BY <1>3, <2>1, <2>2, <2>3
<1> QED BY <1>1, <1>2, <1>3 DEF BreakerType, States

\* A spent probe budget admits nobody, and neither Allow nor a look changes it.
LEMMA SpentStays ==
  ASSUME NEW b \in BreakerType, NEW t \in Nat,
         b.state = "half_open", b.probesLeft = 0
  PROVE  ~Admits(b, t) /\ MaybeHalfOpen(b, t) = b /\ AfterAllow(b, t) = b
<1>1. MaybeHalfOpen(b, t) = b
  BY DEF MaybeHalfOpen
<1> QED BY <1>1 DEF Admits, AfterAllow

\* Only an admission spends the last probe: neither a look nor a refusal does.
LEMMA OnlyAdmissionSpends ==
  ASSUME NEW b \in BreakerType, NEW t \in Nat, BreakerShape(b),
         ~(b.state = "half_open" /\ b.probesLeft = 0)
  PROVE  LET c == MaybeHalfOpen(b, t)
             d == AfterAllow(b, t)
         IN  /\ ~(c.state = "half_open" /\ c.probesLeft = 0)
             /\ ~Admits(b, t) => ~(d.state = "half_open" /\ d.probesLeft = 0)
<1> DEFINE c == MaybeHalfOpen(b, t)
           d == AfterAllow(b, t)
<1>1. c \in BreakerType /\ (c.state = "half_open" => c.probesLeft # 0)
  BY MaybeHalfOpenOK, CircuitAssumption
<1>2. ~Admits(b, t) => ~(c.state = "half_open" /\ c.probesLeft > 0)
  BY DEF Admits
<1>3. ~Admits(b, t) => d = c
  BY <1>2 DEF AfterAllow
<1> QED BY <1>1, <1>3
==============================================================================
