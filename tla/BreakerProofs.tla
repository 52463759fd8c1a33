---------------------------- MODULE BreakerProofs ----------------------------
(***************************************************************************)
(* Proofs about one breaker under any number of callers, for every         *)
(* threshold, open period, probe budget and length of run.                 *)
(***************************************************************************)
EXTENDS Breaker, CircuitProofs, FiniteSetTheorems

\* The callers out with a probe of the current episode.
Probing(p) == {c \in Callers : p[c] = "probe"}

\* The probing callers are finitely many.
LEMMA ProbingFinite ==
  ASSUME NEW p
  PROVE  IsFiniteSet(Probing(p)) /\ Cardinality(Probing(p)) \in Nat
<1>1. Probing(p) \subseteq Callers
  BY DEF Probing
<1> QED BY <1>1, BreakerAssumption, FS_Subset, FS_CardinalityType

\* Granting a probe to a caller without one adds it to the probing callers.
LEMMA ProbingGrows ==
  ASSUME NEW p \in [Callers -> Permits], NEW c \in Callers, p[c] # "probe"
  PROVE  Cardinality(Probing([p EXCEPT ![c] = "probe"]))
            = Cardinality(Probing(p)) + 1
<1>1. Probing([p EXCEPT ![c] = "probe"]) = Probing(p) \cup {c}
  BY DEF Probing
<1>2. c \notin Probing(p)
  BY DEF Probing
<1> QED BY <1>1, <1>2, ProbingFinite, FS_AddElement

\* Withdrawing a caller's permit takes it, and nobody else, off them.
LEMMA ProbingShrinks ==
  ASSUME NEW p \in [Callers -> Permits], NEW c \in Callers, NEW v \in {"none", "early"}
  PROVE  Cardinality(Probing([p EXCEPT ![c] = v]))
            = IF p[c] = "probe" THEN Cardinality(Probing(p)) - 1
                                ELSE Cardinality(Probing(p))
<1>1. Probing([p EXCEPT ![c] = v]) = Probing(p) \ {c}
  BY DEF Probing
<1>2. p[c] = "probe" <=> c \in Probing(p)
  BY DEF Probing
<1> QED BY <1>1, <1>2, ProbingFinite, FS_RemoveElement

\* When an episode begins no caller is probing in it yet.
LEMMA AgedNotProbing ==
  ASSUME NEW p \in [Callers -> Permits]
  PROVE  /\ Aged(p) \in [Callers -> Permits]
         /\ Cardinality(Probing(Aged(p))) = 0
         /\ \A c \in Callers : Aged(p)[c] = "none" <=> p[c] = "none"
<1>1. Probing(Aged(p)) = {}
  BY DEF Probing, Aged, Permits
<1>2. Aged(p) \in [Callers -> Permits]
  BY DEF Aged, Permits
<1>3. \A c \in Callers : Aged(p)[c] = "none" <=> p[c] = "none"
  BY DEF Aged, Permits
<1> QED BY <1>1, <1>2, <1>3, FS_EmptySet

\* The initial states satisfy the inductive invariant.
LEMMA InitIndInv == Init => IndInv
<1> SUFFICES ASSUME Init PROVE IndInv
  OBVIOUS
<1>1. TypeOK
  BY NewBreakerOK, CircuitAssumption, BreakerAssumption DEF Init, TypeOK, Permits
<1>2. NewBreaker.state = "closed" /\ NewBreaker.failures = 0
  BY DEF NewBreaker
<1> QED
  BY <1>1, <1>2, NewBreakerOK
     DEF Init, IndInv, ShapeInv, Agrees, Dated, ProbeLedger

\* Reading the breaker through Snapshot, which may begin an episode.
LEMMA SnapshotStep ==
  ASSUME IndInv,
         br' = MaybeHalfOpen(br, now),
         permit' = (IF Begins(br, br') THEN Aged(permit) ELSE permit),
         lost' = (IF Begins(br, br') THEN 0 ELSE lost),
         UNCHANGED <<now, streak, tripped, restarts>>
  PROVE  /\ br' \in BreakerType /\ BreakerShape(br')
         /\ Agrees(br', streak')
         /\ Dated(br, tripped)'
         /\ permit' \in [Callers -> Permits]
         /\ lost' \in 0..Probes
         /\ ProbeLedger'
<1> USE DEF IndInv, TypeOK, ShapeInv
<1>1. now \in Nat
  BY BreakerAssumption
<1>2. /\ br' \in BreakerType /\ BreakerShape(br')
      /\ br'.failures = br.failures
      /\ br'.state = "closed" <=> br.state = "closed"
      /\ br.state = "half_open" => br' = br
      /\ br.state # "half_open" /\ br'.state = "half_open" =>
             br'.probesLeft = Probes
  BY <1>1, MaybeHalfOpenOK
<1>3. Agrees(br', streak')
  BY <1>2 DEF Agrees
<1>6. Dated(br, tripped)'
  <2>1. /\ br'.openedAt = br.openedAt
        /\ br'.state = "open" => br.state = "open"
        /\ br'.state = "half_open" /\ br.state # "half_open" =>
               br.state = "open" /\ now >= br.openedAt + OpenFor
    BY <1>1, BeginsAfterPeriod
  <2> QED BY <2>1, <1>2 DEF Dated
<1>4. CASE Begins(br, br')
  <2>1. permit' = Aged(permit) /\ lost' = 0 /\ br'.probesLeft = Probes
    BY <1>2, <1>4 DEF Begins
  <2>2. ProbeLedger'
    BY <2>1, AgedNotProbing, CircuitAssumption DEF ProbeLedger, Probing
  <2> QED BY <1>2, <1>3, <1>6, <2>1, <2>2, AgedNotProbing, CircuitAssumption
<1>5. CASE ~Begins(br, br')
  <2>1. permit' = permit /\ lost' = lost
    BY <1>5
  <2>2. br'.state = "half_open" => br' = br
    BY <1>2, <1>5 DEF Begins
  <2>3. ProbeLedger'
    BY <2>1, <2>2 DEF ProbeLedger
  <2> QED BY <1>2, <1>3, <1>6, <2>1, <2>3
<1> QED BY <1>4, <1>5

\* Allow keeps the invariant: an admission in half-open moves one unit of the
\* budget from the breaker to the caller.
LEMMA AllowStep ==
  ASSUME IndInv, NEW c \in Callers, Allow(c)
  PROVE  IndInv'
<1> USE DEF IndInv, TypeOK, ShapeInv
<1> DEFINE m == MaybeHalfOpen(br, now)
           old == IF Begins(br, br') THEN Aged(permit) ELSE permit
<1>1. now \in Nat
  BY BreakerAssumption
<1>2. br' = AfterAllow(br, now) /\ UNCHANGED <<now, streak, tripped, saved, restarts>>
  BY DEF Allow
<1>3. /\ br' \in BreakerType /\ BreakerShape(br')
      /\ br'.failures = br.failures
      /\ br'.state = m.state
      /\ br'.state = "closed" <=> br.state = "closed"
      /\ br'.state = "half_open" =>
             IF Admits(br, now) THEN br'.probesLeft + 1 = m.probesLeft
                                ELSE br'.probesLeft = m.probesLeft
  BY <1>1, <1>2, AfterAllowOK
<1>4. /\ br.state = "half_open" => m = br
      /\ br.state # "half_open" /\ m.state = "half_open" => m.probesLeft = Probes
      /\ m \in BreakerType
  BY <1>1, MaybeHalfOpenOK
<1>5. Agrees(br', streak')
  BY <1>2, <1>3 DEF Agrees
<1>6. /\ old \in [Callers -> Permits] /\ old[c] = "none"
      /\ Begins(br, br') => Cardinality(Probing(old)) = 0
      /\ ~Begins(br, br') => Cardinality(Probing(old)) = Cardinality(Probing(permit))
  BY AgedNotProbing DEF Allow
<1>7. lost' = (IF Begins(br, br') THEN 0 ELSE lost)
  BY DEF Allow
<1>8. br'.state = "half_open" => m.probesLeft + Cardinality(Probing(old)) + lost' = Probes
  <2> HAVE br'.state = "half_open"
  <2>1. CASE Begins(br, br')
    BY <1>3, <1>4, <1>6, <1>7, <2>1, CircuitAssumption DEF Begins
  <2>2. CASE ~Begins(br, br')
    BY <1>3, <1>4, <1>6, <1>7, <2>2 DEF Begins, ProbeLedger, Probing
  <2> QED BY <2>1, <2>2
<1>9. permit' = IF Admits(br, now)
                THEN [old EXCEPT ![c] = IF br'.state = "half_open"
                                        THEN "probe" ELSE "early"]
                ELSE old
  BY DEF Allow
<1> HIDE DEF m, old
<1>10. permit' \in [Callers -> Permits]
  BY <1>6, <1>9 DEF Permits
<1>11. lost' \in 0..Probes
  BY <1>7, CircuitAssumption
<1>12. ProbeLedger'
  <2> SUFFICES ASSUME br'.state = "half_open"
               PROVE  br'.probesLeft + Cardinality(Probing(permit')) + lost' = Probes
    BY DEF ProbeLedger, Probing
  <2>1. Cardinality(Probing(old)) \in Nat /\ br'.probesLeft \in Nat
    BY <1>3, ProbingFinite DEF BreakerType
  <2>2. CASE Admits(br, now)
    <3>1. permit' = [old EXCEPT ![c] = "probe"]
      BY <1>9, <2>2
    <3>2. Cardinality(Probing(permit')) = Cardinality(Probing(old)) + 1
      BY <1>6, <3>1, ProbingGrows
    <3>3. br'.probesLeft + 1 = m.probesLeft
      BY <1>3, <2>2
    <3> QED BY <1>8, <1>11, <2>1, <3>2, <3>3, CircuitAssumption
  <2>3. CASE ~Admits(br, now)
    <3>1. permit' = old /\ br'.probesLeft = m.probesLeft
      BY <1>3, <1>9, <2>3
    <3> QED BY <1>8, <3>1
  <2> QED BY <2>2, <2>3
<1>13. Dated(br, tripped)'
  <2>1. /\ br'.openedAt = br.openedAt
        /\ br'.state = "open" => br.state = "open"
        /\ br'.state = "half_open" /\ br.state # "half_open" =>
               br.state = "open" /\ now >= br.openedAt + OpenFor
    BY <1>1, <1>2, BeginsAfterPeriod
  <2> QED BY <1>2, <2>1 DEF Dated
<1>14. Dated(saved.br, saved.tripped)'
  BY <1>2 DEF Dated
<1> QED BY <1>2, <1>3, <1>5, <1>10, <1>11, <1>12, <1>13, <1>14

\* A report of either kind keeps the invariant: it always ends an episode.
LEMMA ReportStep ==
  ASSUME IndInv, NEW c \in Callers, Success(c) \/ Failure(c)
  PROVE  IndInv'
<1> USE DEF IndInv, TypeOK, ShapeInv
<1>1. now \in Nat
  BY BreakerAssumption
<1>2. permit' \in [Callers -> Permits] /\ UNCHANGED <<now, lost, saved, restarts>>
  BY DEF Success, Failure, Permits
<1>5. Dated(saved.br, saved.tripped)'
  BY <1>2 DEF Dated
<1>3. CASE Success(c)
  <2>1. /\ br' \in BreakerType /\ BreakerShape(br')
        /\ br'.state = "closed" /\ br'.failures = 0
    BY <1>3, AfterSuccessOK DEF Success
  <2>2. streak' = 0 /\ streak' \in 0..FailThreshold
    BY <1>3, CircuitAssumption DEF Success
  <2>3. tripped' = tripped
    BY <1>3 DEF Success
  <2> QED BY <1>2, <1>5, <2>1, <2>2, <2>3 DEF Agrees, Dated, ProbeLedger
<1>4. CASE Failure(c)
  <2>1. /\ br' \in BreakerType /\ BreakerShape(br')
        /\ br'.state # "half_open"
        /\ br'.state = "closed" <=>
               (br.state = "closed" /\ br.failures + 1 < FailThreshold)
        /\ br.state = "closed" => br'.failures = br.failures + 1
    BY <1>1, <1>4, AfterFailureOK DEF Failure
  <2>2. streak' = IF streak < FailThreshold THEN streak + 1 ELSE streak
    BY <1>4 DEF Failure
  <2>3. br.failures \in Nat /\ (br.state = "closed" => br.failures < FailThreshold)
    BY DEF BreakerType, BreakerShape
  <2>4. streak' \in 0..FailThreshold /\ Agrees(br', streak')
    BY <2>1, <2>2, <2>3, CircuitAssumption DEF Agrees
  <2>5. tripped' = IF streak' = FailThreshold /\ br.state # "open"
                   THEN now ELSE tripped
    BY <1>4 DEF Failure
  <2>6. /\ br.state = "open" => br' = br
        /\ br.state # "open" /\ br'.state = "open" => br'.openedAt = now
    BY <1>1, <1>4, TripDates DEF Failure
  <2>7. br'.state = "open" => streak' = FailThreshold
    BY <2>4 DEF Agrees
  <2>8. Dated(br, tripped)'
    BY <1>2, <2>1, <2>5, <2>6, <2>7 DEF Dated
  <2>9. tripped' \in 0..MaxTime
    BY <2>5
  <2> QED BY <1>2, <1>5, <2>1, <2>4, <2>8, <2>9 DEF ProbeLedger
<1> QED BY <1>3, <1>4

\* A permit that is never reported is a probe lost to the episode, if any.
LEMMA ForgetStep ==
  ASSUME IndInv, NEW c \in Callers, Forget(c)
  PROVE  IndInv'
<1> USE DEF IndInv, TypeOK, ShapeInv
<1>1. /\ permit' = [permit EXCEPT ![c] = "none"]
      /\ lost' = (IF permit[c] = "probe" /\ br.state = "half_open"
                  THEN lost + 1 ELSE lost)
      /\ UNCHANGED <<br, now, streak, tripped, saved, restarts>>
  BY DEF Forget
<1>2. permit' \in [Callers -> Permits]
  BY <1>1 DEF Permits
<1>3. Cardinality(Probing(permit'))
        = IF permit[c] = "probe" THEN Cardinality(Probing(permit)) - 1
                                 ELSE Cardinality(Probing(permit))
  BY <1>1, ProbingShrinks
<1>4. /\ Cardinality(Probing(permit)) \in Nat
      /\ Cardinality(Probing(permit')) \in Nat
      /\ br.probesLeft \in Nat
  BY ProbingFinite DEF BreakerType
<1>5. br.state = "half_open" =>
        br.probesLeft + Cardinality(Probing(permit)) + lost = Probes
  BY DEF ProbeLedger, Probing
<1>6. br.state = "half_open" =>
        /\ br.probesLeft + Cardinality(Probing(permit')) + lost' = Probes
        /\ lost' \in 0..Probes
  BY <1>1, <1>3, <1>4, <1>5, CircuitAssumption
<1>7. ProbeLedger' /\ lost' \in 0..Probes
  BY <1>1, <1>6 DEF ProbeLedger, Probing
<1> QED BY <1>1, <1>2, <1>7 DEF Agrees, Dated

\* A restart finds a breaker of the saved shape and no probe out.
LEMMA RestartStep ==
  ASSUME IndInv, Restart
  PROVE  IndInv'
<1> USE DEF IndInv, TypeOK, ShapeInv
<1>1. /\ br' = saved.br /\ streak' = saved.streak /\ tripped' = saved.tripped
      /\ permit' = [c \in Callers |-> "none"]
      /\ lost' = Probes - saved.br.probesLeft
      /\ restarts' \in 0..MaxRestarts
      /\ UNCHANGED <<now, saved>>
  BY BreakerAssumption DEF Restart
<1>2. /\ permit' \in [Callers -> Permits]
      /\ Probing(permit') = {}
  BY <1>1 DEF Permits, Probing
<1>3. saved.br.probesLeft \in Nat /\ saved.br.probesLeft <= Probes
  BY DEF BreakerType, BreakerShape
<1>4. lost' \in 0..Probes
  BY <1>1, <1>3, CircuitAssumption
<1>5. Cardinality(Probing(permit')) = 0
  BY <1>2, FS_EmptySet
<1>6. ProbeLedger'
  BY <1>1, <1>3, <1>5, CircuitAssumption DEF ProbeLedger, Probing
<1> QED BY <1>1, <1>2, <1>4, <1>6 DEF Agrees, Dated

\* Every step keeps the inductive invariant.
LEMMA NextIndInv == IndInv /\ [Next]_vars => IndInv'
<1> SUFFICES ASSUME IndInv, [Next]_vars PROVE IndInv'
  OBVIOUS
<1>1. ASSUME NEW c \in Callers, Allow(c) PROVE IndInv'
  BY <1>1, AllowStep
<1>2. ASSUME NEW c \in Callers, Success(c) \/ Failure(c) PROVE IndInv'
  BY <1>2, ReportStep
<1>3. ASSUME NEW c \in Callers, Forget(c) PROVE IndInv'
  BY <1>3, ForgetStep
<1>4. CASE Save
  <2>1. /\ br' = MaybeHalfOpen(br, now)
        /\ permit' = (IF Begins(br, br') THEN Aged(permit) ELSE permit)
        /\ lost' = (IF Begins(br, br') THEN 0 ELSE lost)
        /\ UNCHANGED <<now, streak, tripped, restarts>>
        /\ saved' = [br |-> br', streak |-> streak, tripped |-> tripped]
    BY <1>4 DEF Save
  <2>2. /\ br' \in BreakerType /\ BreakerShape(br')
        /\ Agrees(br', streak')
        /\ Dated(br, tripped)'
        /\ permit' \in [Callers -> Permits]
        /\ lost' \in 0..Probes
        /\ ProbeLedger'
    BY <2>1, SnapshotStep
  <2>3. tripped' \in 0..MaxTime /\ streak' \in 0..FailThreshold
    BY <2>1 DEF IndInv, TypeOK
  <2>4. /\ saved'.br = br' /\ saved'.streak = streak'
        /\ saved'.tripped = tripped'
    BY <2>1
  <2>5. TypeOK'
    BY <2>1, <2>2, <2>3 DEF IndInv, TypeOK
  <2>6. /\ Dated(saved.br, saved.tripped)' /\ Agrees(saved.br, saved.streak)'
        /\ BreakerShape(saved.br)'
    BY <2>2, <2>4 DEF Dated, Agrees, BreakerShape
  <2>7. ShapeInv' /\ Agrees(br, streak)' /\ Dated(br, tripped)' /\ ProbeLedger'
    BY <2>2 DEF ShapeInv
  <2> QED BY <2>5, <2>6, <2>7 DEF IndInv
<1>5. CASE Poll
  <2>1. /\ br' = MaybeHalfOpen(br, now)
        /\ permit' = (IF Begins(br, br') THEN Aged(permit) ELSE permit)
        /\ lost' = (IF Begins(br, br') THEN 0 ELSE lost)
        /\ UNCHANGED <<now, streak, tripped, restarts, saved>>
    BY <1>5 DEF Poll
  <2>2. /\ br' \in BreakerType /\ BreakerShape(br')
        /\ Agrees(br', streak')
        /\ Dated(br, tripped)'
        /\ permit' \in [Callers -> Permits]
        /\ lost' \in 0..Probes
        /\ ProbeLedger'
    BY <2>1, SnapshotStep
  <2> QED BY <2>1, <2>2 DEF IndInv, TypeOK, ShapeInv, Dated
<1>6. CASE Restart
  BY <1>6, RestartStep
<1>7. CASE Tick
  <2>1. /\ now' = now + 1 /\ now < MaxTime
        /\ UNCHANGED <<br, permit, streak, tripped, lost, saved, restarts>>
    BY <1>7 DEF Tick
  <2>2. TypeOK'
    BY <2>1, BreakerAssumption DEF IndInv, TypeOK
  <2>3. /\ now \in Nat /\ tripped \in Nat /\ saved.tripped \in Nat
        /\ OpenFor \in Nat
    BY BreakerAssumption, CircuitAssumption DEF IndInv, TypeOK
  <2>4. Dated(br, tripped)' /\ Dated(saved.br, saved.tripped)'
    BY <2>1, <2>3 DEF IndInv, Dated
  <2> QED BY <2>1, <2>2, <2>4 DEF IndInv, ShapeInv, Agrees, ProbeLedger
<1>8. CASE UNCHANGED vars
  BY <1>8 DEF vars, IndInv, TypeOK, ShapeInv, Agrees, Dated, ProbeLedger
<1> QED BY <1>1, <1>2, <1>3, <1>4, <1>5, <1>6, <1>7, <1>8 DEF Next

\* The inductive invariant holds in every reachable state.
THEOREM Invariance == Spec => []IndInv
  BY InitIndInv, NextIndInv, PTL DEF Spec

\* Type correctness of the breaker machine.
THEOREM BreakerTypeCorrect == Spec => []TypeOK
<1>1. IndInv => TypeOK
  BY DEF IndInv
<1> QED BY <1>1, Invariance, PTL

\* Closed below the threshold, any other state exactly at it, a budget only in
\* half-open: the shape of the fields of circuit.go survives every order of
\* Allow, Success, Failure, Snapshot and Restore.
THEOREM ShapeCorrect == Spec => []ShapeInv
<1>1. IndInv => ShapeInv
  BY DEF IndInv
<1> QED BY <1>1, Invariance, PTL

\* The breaker is closed exactly when fewer than FailThreshold failures were
\* reported since the last success.
THEOREM ClosedIffShortStreakCorrect == Spec => []ClosedIffShortStreak
<1>1. IndInv => ClosedIffShortStreak
  <2> SUFFICES ASSUME IndInv PROVE ClosedIffShortStreak
    OBVIOUS
  <2>1. BreakerShape(br) /\ Agrees(br, streak)
    BY DEF IndInv, ShapeInv
  <2> QED BY <2>1, CircuitAssumption
          DEF Agrees, BreakerShape, ClosedIffShortStreak
<1> QED BY <1>1, Invariance, PTL

\* Every unit of the half-open probe budget is unspent, out or lost, so no more
\* than Probes probes are ever out.
THEOREM ProbeLedgerCorrect == Spec => []ProbeLedger
<1>1. IndInv => ProbeLedger
  BY DEF IndInv
<1> QED BY <1>1, Invariance, PTL

\* While a full streak of failures stands, nobody is let through before the open
\* period of the last trip is over, whichever poll, probe, report or restart
\* comes in between.
THEOREM OpenPeriodServedCorrect == Spec => OpenPeriodServed
<1> DEFINE Served == \A c \in Callers :
          /\ permit[c] = "none" /\ permit'[c] # "none"
          /\ streak = FailThreshold
          => now >= tripped + OpenFor
<1>1. IndInv /\ [Next]_vars => [Served]_vars
  <2> SUFFICES ASSUME IndInv, Next, NEW c \in Callers,
                      permit[c] = "none", permit'[c] # "none",
                      streak = FailThreshold
               PROVE  now >= tripped + OpenFor
    OBVIOUS
  <2>1. /\ br \in BreakerType /\ now \in Nat /\ permit \in [Callers -> Permits]
        /\ BreakerShape(br) /\ Agrees(br, streak) /\ Dated(br, tripped)
    BY BreakerAssumption DEF IndInv, TypeOK, ShapeInv
  <2>2. PICK d \in Callers : Allow(d)
    <3>1. ASSUME NEW d \in Callers, Success(d) \/ Failure(d) \/ Forget(d)
          PROVE  FALSE
      BY <2>1, <3>1 DEF Success, Failure, Forget
    <3>2. ASSUME Save \/ Poll PROVE FALSE
      BY <2>1, <3>2, AgedNotProbing DEF Save, Poll
    <3>3. ASSUME Restart \/ Tick PROVE FALSE
      BY <3>3 DEF Restart, Tick
    <3> QED BY <3>1, <3>2, <3>3 DEF Next
  <2>3. Admits(br, now)
    <3> SUFFICES ASSUME ~Admits(br, now) PROVE FALSE
      OBVIOUS
    <3>1. permit' = IF Begins(br, br') THEN Aged(permit) ELSE permit
      BY <2>2 DEF Allow
    <3> QED BY <2>1, <3>1, AgedNotProbing
  <2>4. br.state # "closed"
    BY <2>1, CircuitAssumption DEF Agrees, BreakerShape
  <2>5. CASE br.state = "half_open"
    BY <2>1, <2>5 DEF Dated
  <2>6. CASE br.state = "open"
    <3>1. MaybeHalfOpen(br, now).state = "half_open"
      BY <2>1, <2>3, <2>4, MaybeHalfOpenOK DEF Admits
    <3>2. now >= br.openedAt + OpenFor
      BY <2>1, <2>6, <3>1, BeginsAfterPeriod
    <3> QED BY <2>1, <2>6, <3>2 DEF Dated
  <2> QED BY <2>1, <2>4, <2>5, <2>6 DEF BreakerType, States
<1> QED BY <1>1, Invariance, PTL DEF Spec, OpenPeriodServed

\* A breaker whose whole budget is spent keeps it spent until a report: what a
\* look or Allow leaves behind is the same breaker, and nobody is admitted.
LEMMA StuckStays ==
  ASSUME IndInv, Next, Stuck, Spent(saved.br)
  PROVE  (Stuck /\ Spent(saved.br))'
<1>1. br \in BreakerType /\ now \in Nat /\ permit \in [Callers -> Permits]
  BY BreakerAssumption DEF IndInv, TypeOK
<1>2. /\ ~Admits(br, now) /\ MaybeHalfOpen(br, now) = br
      /\ AfterAllow(br, now) = br
  BY <1>1, SpentStays DEF Stuck, Spent
<1>3. \A c \in Callers : permit[c] = "none"
  BY DEF Stuck
<1>4. ASSUME NEW c \in Callers, Allow(c)
      PROVE  (Stuck /\ Spent(saved.br))'
  BY <1>2, <1>3, <1>4 DEF Allow, Begins, Stuck, Spent
<1>5. ASSUME NEW c \in Callers, Success(c) \/ Failure(c) \/ Forget(c)
      PROVE  FALSE
  BY <1>3, <1>5 DEF Success, Failure, Forget
<1>6. CASE Save
  BY <1>2, <1>3, <1>6 DEF Save, Begins, Stuck, Spent
<1>7. CASE Poll
  BY <1>2, <1>3, <1>7 DEF Poll, Begins, Stuck, Spent
<1>8. CASE Restart
  BY <1>8 DEF Restart, Stuck, Spent
<1>9. CASE Tick
  BY <1>9 DEF Tick, Stuck, Spent
<1> QED BY <1>4, <1>5, <1>6, <1>7, <1>8, <1>9 DEF Next

\* A breaker gets stuck by a permit given up without a report or by a restart
\* from a snapshot with a spent budget.
LEMMA GetsStuck ==
  ASSUME IndInv, Next, ~Stuck, Stuck'
  PROVE  \/ restarts' = restarts + 1 /\ Spent(saved.br)
         \/ lost' = Probes /\ br' = br /\ permit' # permit
<1>1. /\ br \in BreakerType /\ now \in Nat /\ permit \in [Callers -> Permits]
      /\ BreakerShape(br)
  BY BreakerAssumption DEF IndInv, TypeOK, ShapeInv
<1>2. MaybeHalfOpen(br, now) = br \/ ~Spent(MaybeHalfOpen(br, now))
  BY <1>1, MaybeHalfOpenOK, CircuitAssumption DEF Spent, MaybeHalfOpen
<1>3. \A c \in Callers : Aged(permit)[c] = "none" => permit[c] = "none"
  BY <1>1, AgedNotProbing
<1>4. ASSUME NEW c \in Callers, Allow(c)
      PROVE  FALSE
  <2> DEFINE old == IF Begins(br, br') THEN Aged(permit) ELSE permit
  <2>1. /\ br' = AfterAllow(br, now)
        /\ permit' = IF Admits(br, now)
                     THEN [old EXCEPT ![c] = IF br'.state = "half_open"
                                             THEN "probe" ELSE "early"]
                     ELSE old
    BY <1>4 DEF Allow
  <2>2. old \in [Callers -> Permits]
    BY <1>1, AgedNotProbing
  <2> HIDE DEF old
  <2>3. permit'[c] = "none"
    BY DEF Stuck
  <2>4. ~Admits(br, now)
    BY <2>1, <2>2, <2>3
  <2>5. permit' = old
    BY <2>1, <2>4
  <2>6. \A d \in Callers : permit[d] = "none"
    BY <1>3, <2>5 DEF old, Stuck
  <2>7. ~Spent(br)
    BY <2>6 DEF Stuck
  <2>8. ~Spent(br')
    BY <1>1, <2>1, <2>4, <2>7, OnlyAdmissionSpends DEF Spent
  <2> QED BY <2>8 DEF Stuck
<1>5. ASSUME NEW c \in Callers, Success(c) \/ Failure(c)
      PROVE  FALSE
  <2>1. br'.state # "half_open"
    BY <1>1, <1>5, AfterSuccessOK, TripDates DEF Success, Failure
  <2> QED BY <2>1 DEF Stuck, Spent
<1>6. ASSUME NEW c \in Callers, Forget(c)
      PROVE  lost' = Probes /\ br' = br /\ permit' # permit
  <2>1. br' = br /\ permit[c] # "none" /\ permit'[c] = "none"
    BY <1>1, <1>6 DEF Forget
  <2>2. IndInv'
    BY <1>6, ForgetStep
  <2>3. br'.probesLeft = 0 /\ br'.state = "half_open" /\ Probing(permit') = {}
    BY DEF Stuck, Spent, Probing
  <2>4. /\ br'.probesLeft + Cardinality(Probing(permit')) + lost' = Probes
        /\ lost' \in Nat
    BY <2>2, <2>3, CircuitAssumption DEF IndInv, TypeOK, ProbeLedger, Probing
  <2>5. lost' = Probes
    BY <2>3, <2>4, FS_EmptySet
  <2> QED BY <2>1, <2>5
<1>7. ASSUME Save \/ Poll
      PROVE  FALSE
  <2>1. /\ br' = MaybeHalfOpen(br, now)
        /\ permit' = IF Begins(br, br') THEN Aged(permit) ELSE permit
    BY <1>7 DEF Save, Poll
  <2>2. \A d \in Callers : permit[d] = "none"
    BY <1>3, <2>1 DEF Stuck
  <2> QED BY <1>2, <2>1, <2>2 DEF Stuck
<1>8. CASE Restart
  BY <1>8 DEF Restart, Stuck
<1>9. CASE Tick
  BY <1>9 DEF Tick, Stuck
<1> QED BY <1>4, <1>5, <1>6, <1>7, <1>8, <1>9 DEF Next

\* The probes of a half-open breaker are lost for good once the stuck breaker is
\* on disk, and only a permit given up or a restart brings one to that.
THEOREM StuckForGoodCorrect == Spec => StuckForGood
<1> DEFINE Good ==
      /\ Stuck /\ Spent(saved.br) => (Stuck /\ Spent(saved.br))'
      /\ ~Stuck /\ Stuck' =>
            \/ restarts' = restarts + 1 /\ Spent(saved.br)
            \/ lost' = Probes /\ br' = br /\ permit' # permit
<1>1. IndInv /\ [Next]_vars => [Good]_vars
  BY StuckStays, GetsStuck
<1> QED BY <1>1, Invariance, PTL DEF Spec, StuckForGood
==============================================================================
