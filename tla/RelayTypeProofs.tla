--------------------------- MODULE RelayTypeProofs ---------------------------
(***************************************************************************)
(* Type correctness of Relay, with the lemmas about its operators (capped  *)
(* logs, removal, the token bucket, classification) that its other proofs  *)
(* use too.                                                                *)
(***************************************************************************)
EXTENDS Relay, CircuitProofs, SequenceTheorems, WellFoundedInduction,
        FiniteSetTheorems

------------------------------------------------------------------------------
(* Operators *)

\* A nonempty set of naturals has a least element, and Min finds it.
LEMMA LeastIndex ==
  ASSUME NEW T \in SUBSET Nat, T # {}
  PROVE  Min(T) \in T /\ \A y \in T : Min(T) <= y
<1>1. PICK x \in T : \A y \in T : ~(<<y, x>> \in OpToRel(<, Nat))
  BY NatLessThanWellFounded, WFMin
<1>2. ASSUME NEW y \in T, y < x PROVE FALSE
  <2>1. <<y, x>> \in Nat \X Nat /\ <<y, x>>[1] < <<y, x>>[2]
    BY <1>2
  <2>2. <<y, x>> \in {ss \in Nat \X Nat : ss[1] < ss[2]}
    BY <2>1
  <2>3. <<y, x>> \in OpToRel(<, Nat)
    BY <2>2, Zenon DEF OpToRel
  <2> QED BY <1>1, <2>3
<1>3. \A y \in T : x <= y
  BY <1>2
<1> QED BY <1>3 DEF Min

\* A capped append keeps the type and invents no element (journal.Append and
\* dlq.Push).
LEMMA PushProperties ==
  ASSUME NEW S, NEW q \in Seq(S), NEW x \in S, NEW max \in Nat \ {0}
  PROVE  /\ Push(q, x, max) \in Seq(S)
         /\ \A i \in DOMAIN Push(q, x, max) :
               \/ Push(q, x, max)[i] = x
               \/ \E k \in DOMAIN q : Push(q, x, max)[i] = q[k]
<1> DEFINE t == Append(q, x)
<1>1. /\ t \in Seq(S) /\ Len(t) = Len(q) + 1 /\ Len(q) \in Nat
      /\ \A i \in 1..Len(t) : t[i] = x \/ \E k \in DOMAIN q : t[i] = q[k]
  BY AppendProperties
<1> HIDE DEF t
<1>2. CASE Len(t) > max
  <2> DEFINE u == SubSeq(t, Len(t) - max + 1, Len(t))
  <2>1. Push(q, x, max) = u
    BY <1>2 DEF Push, t
  <2>2. \A i \in (Len(t) - max + 1)..Len(t) : t[i] \in S
    BY <1>1, <1>2
  <2>3. Len(t) - max + 1 \in Int /\ Len(t) \in Int
    BY <1>1
  <2>4. /\ u \in Seq(S)
        /\ Len(u) = max
        /\ \A i \in 1..max : u[i] = t[Len(t) - max + i]
    <3>1. /\ u \in Seq(S)
          /\ Len(u) = IF Len(t) - max + 1 <= Len(t)
                      THEN Len(t) - (Len(t) - max + 1) + 1 ELSE 0
          /\ \A i \in 1..(Len(t) - (Len(t) - max + 1) + 1) :
                u[i] = t[(Len(t) - max + 1) + i - 1]
      BY <2>2, <2>3, SubSeqProperties
    <3>2. /\ Len(t) - (Len(t) - max + 1) + 1 = max
          /\ Len(t) - max + 1 <= Len(t)
      BY <1>1, <1>2
    <3>3. \A i \in 1..max : (Len(t) - max + 1) + i - 1 = Len(t) - max + i
      BY <1>1
    <3> QED BY <3>1, <3>2, <3>3
  <2>5. \A i \in DOMAIN u : i \in 1..max /\ Len(t) - max + i \in 1..Len(t)
    BY <1>1, <1>2, <2>4
  <2> HIDE DEF u
  <2> QED BY <1>1, <2>1, <2>4, <2>5
<1>3. CASE ~(Len(t) > max)
  BY <1>1, <1>3 DEF Push, t
<1> QED BY <1>2, <1>3

\* What a capped append keeps: everything below the cap, all but the oldest at
\* it.
LEMMA PushShape ==
  ASSUME NEW S, NEW q \in Seq(S), NEW x \in S, NEW max \in Nat \ {0},
         Len(q) <= max
  PROVE  LET p == Push(q, x, max) IN
         /\ Len(q) < max => /\ Len(p) = Len(q) + 1 /\ p[Len(q) + 1] = x
                            /\ \A i \in 1..Len(q) : p[i] = q[i]
         /\ Len(q) = max => /\ Len(p) = max /\ p[max] = x
                            /\ \A i \in 1..(max - 1) : p[i] = q[i + 1]
<1> DEFINE t == Append(q, x)
<1>1. /\ t \in Seq(S) /\ Len(t) = Len(q) + 1 /\ Len(q) \in Nat
      /\ t[Len(q) + 1] = x /\ \A i \in 1..Len(q) : t[i] = q[i]
  BY AppendProperties
<1> HIDE DEF t
<1>2. CASE Len(q) < max
  <2>1. Push(q, x, max) = t
    BY <1>1, <1>2 DEF Push, t
  <2> QED BY <1>1, <1>2, <2>1
<1>3. CASE Len(q) = max
  <2> DEFINE u == SubSeq(t, 2, max + 1)
  <2>1. Len(t) > max /\ Len(t) - max + 1 = 2 /\ Len(t) = max + 1
    BY <1>1, <1>3
  <2>2. Push(q, x, max) = u
    <3>1. Push(q, x, max) = SubSeq(t, Len(t) - max + 1, Len(t))
      BY <2>1 DEF Push, t
    <3> QED BY <2>1, <3>1
  <2>3. \A i \in 2..(max + 1) : t[i] \in S
    BY <1>1, <2>1
  <2>4. /\ Len(u) = IF 2 <= max + 1 THEN (max + 1) - 2 + 1 ELSE 0
        /\ \A i \in 1..((max + 1) - 2 + 1) : u[i] = t[2 + i - 1]
    BY <2>3, SubSeqProperties
  <2> HIDE DEF u
  <2>5. Len(u) = max /\ \A i \in 1..max : u[i] = t[i + 1]
    BY <2>4
  <2>6. u[max] = x
    BY <1>1, <1>3, <2>5
  <2>7. \A i \in 1..(max - 1) : u[i] = q[i + 1]
    BY <1>1, <1>3, <2>5
  <2> QED BY <1>3, <2>2, <2>5, <2>6, <2>7
<1> QED BY <1>1, <1>2, <1>3

\* Removal closes the gap the item leaves (dlq.Remove).
LEMMA RemoveDeadShape ==
  ASSUME NEW S, NEW q \in Seq(S), NEW r, Mentions(q, r)
  PROVE  \E m \in 1..Len(q) :
            /\ q[m].relay = r
            /\ RemoveDead(q, r) \in Seq(S)
            /\ Len(RemoveDead(q, r)) = Len(q) - 1
            /\ \A i \in 1..(Len(q) - 1) :
                  RemoveDead(q, r)[i] = IF i < m THEN q[i] ELSE q[i + 1]
<1> DEFINE T == {i \in 1..Len(q) : q[i].relay = r}
           m == Min(T)
           a == SubSeq(q, 1, m - 1)
           b == SubSeq(q, m + 1, Len(q))
<1>1. T # {} /\ T \in SUBSET Nat
  BY DEF Mentions
<1>2. RemoveDead(q, r) = a \o b
  BY <1>1 DEF RemoveDead, RemoveFirstMatch, SelectInSeq, RemoveAt
<1>3. m \in 1..Len(q) /\ q[m].relay = r
  BY <1>1, LeastIndex
<1> HIDE DEF m
<1>4. /\ a \in Seq(S) /\ Len(a) = m - 1
      /\ \A i \in 1..(m - 1) : a[i] = q[i]
  <2>1. \A i \in 1..(m - 1) : q[i] \in S
    BY <1>3
  <2>2. /\ a \in Seq(S)
        /\ Len(a) = IF 1 <= m - 1 THEN (m - 1) - 1 + 1 ELSE 0
        /\ \A i \in 1..((m - 1) - 1 + 1) : a[i] = q[1 + i - 1]
    BY <1>3, <2>1, SubSeqProperties
  <2> QED BY <1>3, <2>2
<1>5. /\ b \in Seq(S) /\ Len(b) = Len(q) - m
      /\ \A i \in 1..(Len(q) - m) : b[i] = q[m + i]
  <2>1. \A i \in (m + 1)..Len(q) : q[i] \in S
    BY <1>3
  <2>2. /\ b \in Seq(S)
        /\ Len(b) = IF m + 1 <= Len(q) THEN Len(q) - (m + 1) + 1 ELSE 0
        /\ \A i \in 1..(Len(q) - (m + 1) + 1) : b[i] = q[(m + 1) + i - 1]
    BY <1>3, <2>1, SubSeqProperties
  <2>3. \A i \in 1..(Len(q) - m) : (m + 1) + i - 1 = m + i
    BY <1>3
  <2> QED BY <1>3, <2>2, <2>3
<1> HIDE DEF a, b
<1>6. /\ a \o b \in Seq(S)
      /\ Len(a \o b) = Len(a) + Len(b)
      /\ \A i \in 1..(Len(a) + Len(b)) :
            (a \o b)[i] = IF i <= Len(a) THEN a[i] ELSE b[i - Len(a)]
  BY <1>4, <1>5, ConcatProperties
<1>7. Len(a) + Len(b) = Len(q) - 1
  BY <1>3, <1>4, <1>5
<1>8. ASSUME NEW i \in 1..(Len(q) - 1)
      PROVE  (a \o b)[i] = IF i < m THEN q[i] ELSE q[i + 1]
  <2>1. CASE i < m
    <3>1. i <= Len(a) /\ i \in 1..(m - 1)
      BY <1>3, <1>4, <2>1
    <3> QED BY <1>4, <1>6, <1>7, <2>1, <3>1
  <2>2. CASE ~(i < m)
    <3>1. /\ ~(i <= Len(a)) /\ i - Len(a) \in 1..(Len(q) - m)
          /\ m + (i - Len(a)) = i + 1
      BY <1>3, <1>4, <2>2
    <3> QED BY <1>5, <1>6, <1>7, <2>2, <3>1
  <2> QED BY <2>1, <2>2
<1> QED BY <1>2, <1>3, <1>6, <1>7, <1>8

\* Removal keeps the type and invents no element.
LEMMA RemoveDeadProperties ==
  ASSUME NEW S, NEW q \in Seq(S), NEW r
  PROVE  /\ RemoveDead(q, r) \in Seq(S)
         /\ \A i \in DOMAIN RemoveDead(q, r) :
               \E k \in DOMAIN q : RemoveDead(q, r)[i] = q[k]
<1>1. CASE ~Mentions(q, r)
  <2>1. RemoveDead(q, r) = q
    BY <1>1 DEF RemoveDead, RemoveFirstMatch, Mentions
  <2> QED BY <2>1
<1>2. CASE Mentions(q, r)
  <2> DEFINE u == RemoveDead(q, r)
  <2>1. PICK m \in 1..Len(q) :
          /\ u \in Seq(S) /\ Len(u) = Len(q) - 1
          /\ \A i \in 1..(Len(q) - 1) : u[i] = IF i < m THEN q[i] ELSE q[i + 1]
    BY <1>2, RemoveDeadShape
  <2> HIDE DEF u
  <2>2. ASSUME NEW i \in DOMAIN u PROVE \E k \in DOMAIN q : u[i] = q[k]
    <3>1. i \in 1..(Len(q) - 1)
      BY <2>1
    <3>2. i \in DOMAIN q /\ i + 1 \in DOMAIN q
      BY <3>1
    <3> QED BY <2>1, <3>1, <3>2
  <2> QED BY <2>1, <2>2 DEF u
<1> QED BY <1>1, <1>2

\* Get finds an item of the relay it is asked for.
LEMMA NewestProperties ==
  ASSUME NEW S, NEW q \in Seq(S), NEW r, Mentions(q, r)
  PROVE  Newest(q, r) \in S /\ Newest(q, r).relay = r
<1> DEFINE T == {n \in 0..(Len(q) - 1) : q[Len(q) - n].relay = r}
           i == Len(q) - Min(T)
<1>1. T # {} /\ T \in SUBSET Nat
  <2>1. PICK k \in DOMAIN q : q[k].relay = r
    BY DEF Mentions
  <2>2. Len(q) - k \in 0..(Len(q) - 1) /\ Len(q) - (Len(q) - k) = k
    BY LenProperties
  <2>3. Len(q) - k \in T
    BY <2>1, <2>2
  <2> QED BY <2>3
<1>2. Min(T) \in T /\ \A y \in T : Min(T) <= y
  BY <1>1, LeastIndex
<1>3. i \in DOMAIN q /\ q[i].relay = r
  BY <1>2, LenProperties
<1>4. ASSUME NEW k \in DOMAIN q, q[k].relay = r
      PROVE  k <= i
  <2>1. Len(q) - k \in 0..(Len(q) - 1) /\ Len(q) - (Len(q) - k) = k
    BY LenProperties
  <2>2. Len(q) - k \in T
    BY <1>4, <2>1
  <2>3. Min(T) <= Len(q) - k
    BY <1>2, <2>2
  <2> QED BY <1>2, <2>3, LenProperties
<1> HIDE DEF i
<1>5. \E n \in DOMAIN q :
        q[n].relay = r /\ \A k \in DOMAIN q : q[k].relay = r => k <= n
  BY <1>3, <1>4
<1> DEFINE c == CHOOSE n \in DOMAIN q :
        q[n].relay = r /\ \A k \in DOMAIN q : q[k].relay = r => k <= n
<1>6. c \in DOMAIN q /\ q[c].relay = r
  BY <1>5
<1>7. Newest(q, r) = q[c]
  BY DEF Newest
<1> HIDE DEF c
<1> QED BY <1>6, <1>7

\* New returns a full bucket of the right type.
LEMMA NewBucketType == ASSUME NEW t \in Nat PROVE NewBucket(t) \in BucketType
<1>1. Unit * Burst \in Nat
  BY BucketAssumption
<1> QED BY <1>1 DEF NewBucket, BucketType

\* Take keeps the bucket between empty and full, and a wait is never negative.
LEMMA TakeType ==
  ASSUME NEW b \in BucketType, NEW t \in Nat
  PROVE  AfterTake(b, t) \in BucketType /\ TakeWait(b, t) \in Nat
<1> DEFINE full == Unit * Burst
           elapsed == IF t < b.lastTime THEN 0 ELSE t - b.lastTime
           gain == elapsed * Rate
           c == Refill(b, t)
<1>1. full \in Nat
  BY BucketAssumption
<1>2. elapsed \in Nat
  BY DEF BucketType
<1> HIDE DEF elapsed
<1>3. gain \in Nat
  BY <1>2, BucketAssumption
<1>4. c = [tokens |-> IF b.tokens + gain > full THEN full ELSE b.tokens + gain,
           lastTime |-> t]
  BY DEF Refill, elapsed
<1>5. b.tokens \in 0..full
  BY DEF BucketType
<1> HIDE DEF full, gain, c
<1>6. c.tokens \in 0..full /\ c.lastTime = t /\ c \in BucketType
  BY <1>1, <1>3, <1>4, <1>5 DEF BucketType, full
<1>7. AfterTake(b, t) \in BucketType
  <2>1. AfterTake(b, t) = IF c.tokens >= Unit THEN [c EXCEPT !.tokens = @ - Unit] ELSE c
    BY DEF AfterTake, c
  <2>2. CASE c.tokens >= Unit
    <3>1. c.tokens - Unit \in 0..full
      BY <1>1, <1>6, <2>2, BucketAssumption
    <3> QED BY <1>6, <2>1, <2>2, <3>1 DEF BucketType, full
  <2> QED BY <1>6, <2>1, <2>2
<1>8. TakeWait(b, t) \in Nat
  <2>1. TakeWait(b, t) = IF c.tokens >= Unit THEN 0 ELSE (Unit - c.tokens) \div Rate
    BY DEF TakeWait, c
  <2>2. CASE c.tokens >= Unit
    BY <2>1, <2>2
  <2>3. CASE ~(c.tokens >= Unit)
    <3>1. Unit - c.tokens \in Nat /\ Rate \in Nat /\ Rate > 0
      BY <1>1, <1>6, <2>3, BucketAssumption
    <3>2. (Unit - c.tokens) \div Rate \in Nat
      BY <3>1
    <3> QED BY <2>1, <2>3, <3>2
  <2> QED BY <2>2, <2>3
<1> QED BY <1>7, <1>8

\* Refilling never takes anything out and never overfills; one tick adds what a
\* tick earns, and a second look at the same moment adds nothing.
LEMMA RefillProperties ==
  ASSUME NEW b \in BucketType, NEW t \in Nat
  PROVE  LET c == Refill(b, t) IN
         /\ c \in BucketType /\ c.lastTime = t /\ c.tokens >= b.tokens
         /\ Refill(b, t + 1).tokens <= c.tokens + Rate
         /\ \A d \in BucketType : d.lastTime = t => Refill(d, t).tokens = d.tokens
<1> DEFINE full == Unit * Burst
           elapsed(x) == IF x < b.lastTime THEN 0 ELSE x - b.lastTime
           Gain(x) == elapsed(x) * Rate
<1>1. full \in Nat /\ Rate \in Nat
  BY BucketAssumption
<1>2. b.tokens \in 0..full /\ b.lastTime \in Nat
  BY DEF BucketType
<1>3. \A x \in Nat : Refill(b, x) =
        [tokens |-> IF b.tokens + Gain(x) > full THEN full ELSE b.tokens + Gain(x),
         lastTime |-> x]
  BY DEF Refill
<1>4. \A x \in Nat : Gain(x) \in Nat
  <2> SUFFICES ASSUME NEW x \in Nat PROVE Gain(x) \in Nat
    OBVIOUS
  <2>1. elapsed(x) \in Nat
    BY <1>2
  <2> HIDE DEF elapsed
  <2> QED BY <1>1, <2>1
<1>5. Gain(t + 1) <= Gain(t) + Rate
  <2>1. elapsed(t) \in Nat /\ elapsed(t + 1) \in {elapsed(t), elapsed(t) + 1}
    BY <1>2
  <2> HIDE DEF elapsed
  <2>2. (elapsed(t) + 1) * Rate = elapsed(t) * Rate + Rate
    BY <1>1, <2>1
  <2> QED BY <1>1, <1>4, <2>1, <2>2
<1>6. ASSUME NEW d \in BucketType, d.lastTime = t
      PROVE  Refill(d, t).tokens = d.tokens
  <2>1. d.tokens \in 0..full
    BY DEF BucketType
  <2>2. (t - d.lastTime) * Rate = 0
    BY <1>1, <1>6
  <2> QED BY <1>1, <1>6, <2>1, <2>2 DEF Refill
<1> HIDE DEF full, Gain
<1>7. t + 1 \in Nat
  OBVIOUS
<1>8. /\ Refill(b, t).tokens =
            IF b.tokens + Gain(t) > full THEN full ELSE b.tokens + Gain(t)
      /\ Refill(b, t + 1).tokens =
            IF b.tokens + Gain(t + 1) > full THEN full ELSE b.tokens + Gain(t + 1)
      /\ Refill(b, t).lastTime = t
  BY <1>3, <1>7
<1>9. Refill(b, t).tokens \in 0..full /\ Refill(b, t).tokens >= b.tokens
  BY <1>1, <1>2, <1>4, <1>8
<1>10. Refill(b, t) \in BucketType
  BY <1>3, <1>9 DEF BucketType, full
<1>11. Refill(b, t + 1).tokens <= Refill(b, t).tokens + Rate
  BY <1>1, <1>2, <1>4, <1>5, <1>7, <1>8
<1> QED BY <1>6, <1>8, <1>9, <1>10, <1>11

\* Take's account: a token if there is one, otherwise nothing and a wait, unless
\* what is missing is earned within the tick.
LEMMA TakeAccount ==
  ASSUME NEW b \in BucketType, NEW t \in Nat
  PROVE  LET c == Refill(b, t)
             d == AfterTake(b, t)
         IN  /\ Refill(d, t).tokens = IF c.tokens >= Unit THEN c.tokens - Unit
                                      ELSE c.tokens
             /\ d.tokens >= b.tokens - Unit
             /\ c.tokens >= Unit => TakeWait(b, t) = 0
             /\ TakeWait(b, t) = 0 /\ c.tokens < Unit => Unit - c.tokens < Rate
<1> DEFINE c == Refill(b, t)
           d == AfterTake(b, t)
<1>1. c \in BucketType /\ c.lastTime = t /\ c.tokens >= b.tokens
  BY RefillProperties
<1>2. d = IF c.tokens >= Unit THEN [c EXCEPT !.tokens = c.tokens - Unit] ELSE c
  BY DEF AfterTake
<1>3. TakeWait(b, t) = IF c.tokens >= Unit THEN 0 ELSE (Unit - c.tokens) \div Rate
  BY DEF TakeWait
<1>4. d \in BucketType
  BY TakeType
<1> HIDE DEF c, d
<1>5. /\ d.lastTime = t
      /\ d.tokens = IF c.tokens >= Unit THEN c.tokens - Unit ELSE c.tokens
  BY <1>1, <1>2 DEF BucketType
<1>6. Refill(d, t).tokens = d.tokens
  BY <1>4, <1>5, RefillProperties
<1>7. c.tokens \in Nat /\ b.tokens \in Nat /\ Unit \in Nat /\ Rate \in Nat /\ Rate > 0
  <2>1. Unit * Burst \in Nat
    BY BucketAssumption
  <2> QED BY <1>1, <2>1, BucketAssumption DEF BucketType
<1>8. ASSUME (Unit - c.tokens) \div Rate = 0, c.tokens < Unit
      PROVE  Unit - c.tokens < Rate
  <2>1. Unit - c.tokens \in Nat
    BY <1>7, <1>8
  <2> QED BY <1>7, <1>8, <2>1
<1>9. d.tokens >= b.tokens - Unit
  BY <1>1, <1>5, <1>7
<1>10. TakeWait(b, t) = 0 /\ c.tokens < Unit => Unit - c.tokens < Rate
  BY <1>3, <1>7, <1>8
<1> QED BY <1>3, <1>5, <1>6, <1>9, <1>10 DEF c, d

\* Every result has a kind.
LEMMA CombineType == \A r \in ResultType : Combine(r) \in Kinds
  BY DEF Combine, NetError, HTTPStatus, Kinds, ResultType

------------------------------------------------------------------------------
(* Steps *)

\* Field updates of a job keep it a job.
LEMMA JobUpdates ==
  ASSUME NEW j \in Job, NEW t \in Nat
  PROVE  /\ [j EXCEPT !.notBefore = t] \in Job
         /\ [j EXCEPT !.attempt = t] \in Job
         /\ j.attempt \in Nat /\ j.relay \in Relays /\ j.store \in Stores
  BY DEF Job, Time

\* The initial states are of the right type.
LEMMA InitType == Init => TypeOK
<1> SUFFICES ASSUME Init PROVE TypeOK
  OBVIOUS
<1>1. breaker \in [Stores -> BreakerType]
  BY NewBreakerOK DEF Init
<1>2. bucket \in [Stores -> BucketType]
  BY NewBucketType DEF Init
<1>3. IdleHandler \in Handler
  BY DEF IdleHandler, Handler, Time
<1>4. journal \in Seq(Entry) /\ dlq \in Seq(DeadItem)
  BY DEF Init
<1> QED BY <1>1, <1>2, <1>3, <1>4 DEF Init, TypeOK, PCs, Tags, Time

\* Lease takes a ready job to the worker.
LEMMA LeaseType == ASSUME TypeOK, NEW w \in Workers, Lease(w) PROVE TypeOK'
<1>1. PICK j \in Leasable(ready, inFlight, now) :
        /\ ready' = ready \ {j}
        /\ inFlight' = [inFlight EXCEPT ![j.store] = @ + 1]
        /\ held' = [held EXCEPT ![w] = j]
  BY DEF Lease
<1>2. j \in ready
  BY DEF Leasable, Due, Heads
<1>3. j \in Job /\ j.store \in Stores
  BY <1>2 DEF TypeOK, Job
<1>4. ready' \subseteq Job /\ inFlight' \in [Stores -> Nat]
      /\ held' \in [Workers -> Job \cup {NoJob}]
  BY <1>1, <1>3 DEF TypeOK
<1>5. pc' = [pc EXCEPT ![w] = "get"]
  BY DEF Lease
<1>6. /\ \A v \in Workers : pc'[v] # "idle" => held'[v] \in Job
      /\ \A v \in Workers : pc'[v] \in {"note", "report"} => result[v] \in ResultType
      /\ pc' \in [Workers -> PCs]
  BY <1>1, <1>3, <1>5 DEF TypeOK, PCs
<1> QED BY <1>4, <1>6 DEF Lease, TypeOK, logVars, history

\* Reading the store only chooses the branch.
LEMMA GetStoreType == ASSUME TypeOK, NEW w \in Workers, GetStore(w) PROVE TypeOK'
<1>1. /\ pc' \in [Workers -> PCs] /\ tag' \in [Workers -> Tags]
      /\ \A v \in Workers : pc'[v] # "idle" => pc[v] # "idle"
      /\ \A v \in Workers : pc'[v] \in {"note", "report"} => pc[v] \in {"note", "report"}
  <2>1. PICK x \in {"allow", "bury"} : pc' = [pc EXCEPT ![w] = x]
    BY DEF GetStore
  <2>2. tag' = tag \/ tag' = [tag EXCEPT ![w] = "store_unavailable"]
    BY DEF GetStore
  <2>3. pc \in [Workers -> PCs] /\ tag \in [Workers -> Tags] /\ pc[w] = "get"
    BY DEF GetStore, TypeOK
  <2>4. tag' \in [Workers -> Tags]
    BY <2>2, <2>3 DEF Tags
  <2>5. x \in PCs /\ x \notin {"idle", "note", "report"}
    BY <2>1 DEF PCs
  <2>6. pc' \in [Workers -> PCs] /\ \A v \in Workers : pc'[v] = pc[v] \/ (v = w /\ pc'[v] = x)
    BY <2>1, <2>3, <2>5
  <2> QED BY <2>3, <2>4, <2>5, <2>6
<1>2. UNCHANGED <<now, ready, storeVars, logVars, held, result, postBy, handler, history>>
  BY DEF GetStore
<1>3. /\ \A v \in Workers : pc'[v] # "idle" => held'[v] \in Job
      /\ \A v \in Workers : pc'[v] \in {"note", "report"} => result'[v] \in ResultType
  BY <1>1, <1>2 DEF TypeOK
<1> QED BY <1>1, <1>2, <1>3 DEF TypeOK, logVars, history, storeVars

\* Allow changes a breaker and may put the job off.
LEMMA AllowType ==
  ASSUME TypeOK, BreakersOK, NEW w \in Workers, Allow(w)
  PROVE  TypeOK'
<1> DEFINE s == held[w].store
<1>1. held[w] \in Job /\ s \in Stores /\ now \in Nat
  BY DEF Allow, TypeOK, Job, Time
<1>2. breaker' \in [Stores -> BreakerType]
  <2>1. AfterAllow(breaker[s], now) \in BreakerType
    BY <1>1, AfterAllowOK DEF TypeOK, BreakersOK
  <2> QED BY <1>1, <2>1 DEF Allow, TypeOK
<1>3. now + SkipDelay \in Nat
  BY <1>1, RelayAssumption
<1>4. [held[w] EXCEPT !.notBefore = now + SkipDelay] \in Job
  BY <1>1, <1>3, JobUpdates
<1>5. /\ held' \in [Workers -> Job \cup {NoJob}]
      /\ \A v \in Workers : held[v] \in Job => held'[v] \in Job
  <2>1. held \in [Workers -> Job \cup {NoJob}]
    BY DEF TypeOK
  <2>2. \/ held' = held
        \/ held' = [held EXCEPT ![w] = [held[w] EXCEPT !.notBefore = now + SkipDelay]]
    BY DEF Allow
  <2> QED BY <1>4, <2>1, <2>2
<1>6. /\ pc' \in [Workers -> PCs] /\ tag' \in [Workers -> Tags]
      /\ \A v \in Workers : pc'[v] # "idle" => pc[v] # "idle"
      /\ \A v \in Workers : pc'[v] \in {"note", "report"} => pc[v] \in {"note", "report"}
  <2>1. PICK x \in {"take", "requeue"} : pc' = [pc EXCEPT ![w] = x]
    BY DEF Allow
  <2>2. tag' = tag \/ tag' = [tag EXCEPT ![w] = "skipped_open"]
    BY DEF Allow
  <2>3. pc \in [Workers -> PCs] /\ tag \in [Workers -> Tags] /\ pc[w] = "allow"
    BY DEF Allow, TypeOK
  <2>4. tag' \in [Workers -> Tags]
    BY <2>2, <2>3 DEF Tags
  <2>5. x \in PCs /\ x \notin {"idle", "note", "report"}
    BY <2>1 DEF PCs
  <2>6. pc' \in [Workers -> PCs] /\ \A v \in Workers : pc'[v] = pc[v] \/ (v = w /\ pc'[v] = x)
    BY <2>1, <2>3, <2>5
  <2> QED BY <2>3, <2>4, <2>5, <2>6
<1> QED BY <1>2, <1>5, <1>6 DEF Allow, TypeOK, logVars, history

\* Take changes a bucket and either puts the job off or counts its attempt.
LEMMA TakeStepType == ASSUME TypeOK, NEW w \in Workers, Take(w) PROVE TypeOK'
<1> DEFINE s == held[w].store
           r == held[w].relay
           wait == TakeWait(bucket[s], now)
<1>1. /\ held[w] \in Job /\ s \in Stores /\ r \in Relays /\ now \in Nat
      /\ held[w].attempt \in Nat
  BY DEF Take, TypeOK, Job, Time
<1>2. AfterTake(bucket[s], now) \in BucketType /\ wait \in Nat
  BY <1>1, TakeType DEF TypeOK
<1>3. bucket' \in [Stores -> BucketType]
  BY <1>1, <1>2 DEF Take, TypeOK
<1> HIDE DEF wait
<1>4. now + wait \in Nat /\ now + PostTimeout \in Nat /\ held[w].attempt + 1 \in Nat
  BY <1>1, <1>2, RelayAssumption
<1>5. /\ [held[w] EXCEPT !.notBefore = now + wait] \in Job
      /\ [held[w] EXCEPT !.attempt = held[w].attempt + 1] \in Job
  BY <1>1, <1>4, JobUpdates
<1>6. CASE wait > 0
  <2>1. /\ held' = [held EXCEPT ![w] = [held[w] EXCEPT !.notBefore = now + wait]]
        /\ pc' = [pc EXCEPT ![w] = "requeue"]
        /\ tag' = [tag EXCEPT ![w] = "rate_delayed"]
        /\ UNCHANGED <<postBy, posts>>
    BY <1>6 DEF Take, wait
  <2> QED BY <1>3, <1>5, <2>1
          DEF Take, TypeOK, logVars, PCs, Tags
<1>7. CASE ~(wait > 0)
  <2>1. /\ held' = [held EXCEPT ![w] = [held[w] EXCEPT !.attempt = held[w].attempt + 1]]
        /\ pc' = [pc EXCEPT ![w] = "post"]
        /\ postBy' = [postBy EXCEPT ![w] = now + PostTimeout]
        /\ posts' = [posts EXCEPT ![r] = @ + 1]
        /\ UNCHANGED tag
    BY <1>7 DEF Take, wait
  <2>2. posts' \in [Relays -> Nat] /\ postBy' \in [Workers -> Time]
    BY <1>1, <1>4, <2>1 DEF TypeOK, Time
  <2> QED BY <1>3, <1>5, <2>1, <2>2 DEF Take, TypeOK, logVars, PCs
<1> QED BY <1>6, <1>7

\* The answer to a POST is one of Outcomes.
LEMMA AnswerType == ASSUME TypeOK, NEW w \in Workers, Answer(w) PROVE TypeOK'
<1>1. PICK res \in Outcomes : result' = [result EXCEPT ![w] = res]
  BY DEF Answer
<1>2. res \in ResultType
  BY RelayAssumption
<1> QED BY <1>1, <1>2 DEF Answer, TypeOK, logVars, history, storeVars, PCs, Time

\* A note is an entry of the journal.
LEMMA NoteOfType ==
  ASSUME TypeOK, NEW w \in Workers, held[w] \in Job, NEW k \in JournalKinds
  PROVE  NoteOf(w, k) \in Entry
  BY DEF NoteOf, Entry, Job

\* Both journalling steps.
LEMMA NoteStepType ==
  ASSUME TypeOK, NEW w \in Workers, Note(w) \/ NoteAfter(w)
  PROVE  TypeOK'
<1>1. held[w] \in Job
  BY DEF Note, NoteAfter, TypeOK
<1>2. journal' \in Seq(Entry)
  <2>1. CASE Note(w)
    <3>1. Combine(result[w]) \in JournalKinds
      BY <2>1, CombineType DEF Note, TypeOK, JournalKinds
    <3> QED BY <1>1, <2>1, <3>1, NoteOfType, PushProperties, RelayAssumption
            DEF Note, TypeOK
  <2>2. CASE NoteAfter(w)
    <3>1. KindOf(tag[w]) \in JournalKinds
      BY DEF KindOf, JournalKinds, Kinds
    <3> QED BY <1>1, <2>2, <3>1, NoteOfType, PushProperties, RelayAssumption
            DEF NoteAfter, TypeOK
  <2> QED BY <2>1, <2>2
<1>3. CASE Note(w)
  BY <1>2, <1>3 DEF Note, TypeOK, history, storeVars, PCs
<1>4. CASE NoteAfter(w)
  BY <1>2, <1>4 DEF NoteAfter, TypeOK, history, storeVars, PCs
<1> QED BY <1>3, <1>4

\* Report changes a breaker, and settles the relay or sends it on.
LEMMA ReportType ==
  ASSUME TypeOK, BreakersOK, NEW w \in Workers, Report(w)
  PROVE  TypeOK'
<1> DEFINE s == held[w].store
           r == held[w].relay
<1>1. /\ held[w] \in Job /\ s \in Stores /\ r \in Relays /\ now \in Nat
      /\ result[w] \in ResultType
  BY DEF Report, TypeOK, Job, Time
<1>2. breaker' \in [Stores -> BreakerType]
  <2>1. /\ AfterSuccess(breaker[s]) \in BreakerType
        /\ AfterFailure(breaker[s], now) \in BreakerType
    BY <1>1, AfterSuccessOK, AfterFailureOK DEF TypeOK, BreakersOK
  <2> QED BY <1>1, <2>1 DEF Report, Told, TypeOK
<1>3. /\ held' \in [Workers -> Job \cup {NoJob}]
      /\ \A v \in Workers : held[v] \in Job => held'[v] \in Job
  <2>1. CASE held' = held
    BY <2>1 DEF TypeOK
  <2>2. CASE \E d \in Delays(held[w].attempt) :
               held' = [held EXCEPT ![w].notBefore = now + d]
    <3>1. PICK d \in Delays(held[w].attempt) :
               held' = [held EXCEPT ![w].notBefore = now + d]
      BY <2>2
    <3>2. now + d \in Nat
      BY <1>1, BackoffAssumption DEF Delays
    <3>3. [held[w] EXCEPT !.notBefore = now + d] \in Job
      BY <1>1, <3>2, JobUpdates
    <3> QED BY <3>1, <3>3 DEF TypeOK
  <2> QED BY <2>1, <2>2 DEF Report
<1>4. /\ pc' \in [Workers -> PCs] /\ tag' \in [Workers -> Tags]
      /\ \A v \in Workers : pc'[v] # "idle" => pc[v] # "idle"
      /\ \A v \in Workers : pc'[v] \in {"note", "report"} => pc[v] \in {"note", "report"}
      /\ fate' \in [Relays -> {"unused", "live", "delivered", "dead", "lost"}]
  BY <1>1 DEF Report, TypeOK, PCs, Tags
<1> QED BY <1>2, <1>3, <1>4 DEF Report, TypeOK, logVars

\* Enqueue of a held job.
LEMMA RequeueType == ASSUME TypeOK, NEW w \in Workers, Requeue(w) PROVE TypeOK'
<1>1. held[w] \in Job
  BY DEF Requeue, TypeOK
<1> QED BY <1>1
        DEF Requeue, TypeOK, logVars, history, storeVars, PCs, AfterMove

\* A buried job makes an item of the dead letter queue.
LEMMA BuryType == ASSUME TypeOK, NEW w \in Workers, Bury(w) PROVE TypeOK'
<1>1. held[w] \in Job
  BY DEF Bury, TypeOK
<1>2. [relay |-> held[w].relay, store |-> held[w].store,
       attempt |-> held[w].attempt] \in DeadItem
  BY <1>1 DEF Job, DeadItem
<1>3. dlq' \in Seq(DeadItem)
  BY <1>2, PushProperties, RelayAssumption DEF Bury, TypeOK
<1> QED BY <1>1, <1>3 DEF Bury, TypeOK, storeVars, PCs, AfterMove, Job

\* Release frees the slot and the worker's locals.
LEMMA ReleaseType == ASSUME TypeOK, NEW w \in Workers, Release(w) PROVE TypeOK'
<1>1. inFlight' \in [Stores -> Nat]
  BY DEF Release, TypeOK, Job
<1> QED BY <1>1 DEF Release, TypeOK, logVars, history, PCs, Tags

\* A job as handlers build it.
LEMMA NewJobType ==
  ASSUME NEW r \in Relays, NEW s \in Stores, NEW t \in Nat
  PROVE  NewJob(r, s, t) \in Job
  BY DEF NewJob, Job, Time

\* Ingestion plans one job per matched store.
LEMMA IngestType == ASSUME TypeOK, NEW h \in Handlers, Ingest(h) PROVE TypeOK'
<1>1. PICK matched \in SUBSET {s \in Stores : enabled[s]} :
        \E id \in [matched -> Unused] :
            /\ handler' = [handler EXCEPT ![h] =
                  [pc |-> "enqueue", target |-> NoRelay, at |-> 0,
                   plan |-> {NewJob(id[s], s, now) : s \in matched}]]
            /\ fate' = [r \in Relays |->
                  IF \E s \in matched : id[s] = r THEN "live" ELSE fate[r]]
  BY DEF Ingest
<1>2. PICK id \in [matched -> Unused] :
            /\ handler' = [handler EXCEPT ![h] =
                  [pc |-> "enqueue", target |-> NoRelay, at |-> 0,
                   plan |-> {NewJob(id[s], s, now) : s \in matched}]]
            /\ fate' = [r \in Relays |->
                  IF \E s \in matched : id[s] = r THEN "live" ELSE fate[r]]
  BY <1>1
<1>3. {NewJob(id[s], s, now) : s \in matched} \subseteq Job
  BY NewJobType DEF Unused, TypeOK, Time
<1>4. handler' \in [Handlers -> Handler]
  BY <1>2, <1>3 DEF TypeOK, Handler, Time
<1>5. fate' \in [Relays -> {"unused", "live", "delivered", "dead", "lost"}]
  BY <1>2 DEF TypeOK
<1> QED BY <1>4, <1>5 DEF Ingest, TypeOK, storeVars, logVars, workerVars

\* A replay plans one job.
LEMMA ReplayedType ==
  ASSUME TypeOK, NEW h \in Handlers, NEW item,
         item.store \in Stores, item.relay \in Relays,
         NEW n \in Relays, NEW t \in Nat, NEW target \in Relays \cup {NoRelay},
         Replayed(h, item, n, t, target)
  PROVE  /\ handler' \in [Handlers -> Handler]
         /\ fate' \in [Relays -> {"unused", "live", "delivered", "dead", "lost"}]
         /\ replayOf' \in [Relays -> Relays \cup {NoRelay}]
<1>1. NewJob(n, item.store, t) \in Job
  BY NewJobType
<1> QED BY <1>1 DEF Replayed, TypeOK, Handler, Time

\* The two lookups of a replay.
LEMMA ReplayType ==
  ASSUME TypeOK, NEW h \in Handlers, NEW r \in Relays, Replay(h, r)
  PROVE  TypeOK'
<1>1. /\ handler' \in [Handlers -> Handler]
      /\ fate' \in [Relays -> {"unused", "live", "delivered", "dead", "lost"}]
      /\ replayOf' \in [Relays -> Relays \cup {NoRelay}]
  <2>1. CASE Mentions(dlq, r)
    <3>1. PICK n \in Unused : Replayed(h, Newest(dlq, r), n, now, r)
      BY <2>1 DEF Replay
    <3>2. Newest(dlq, r) \in DeadItem
      BY <2>1, NewestProperties DEF TypeOK
    <3>3. /\ Newest(dlq, r).store \in Stores /\ Newest(dlq, r).relay \in Relays
          /\ n \in Relays /\ now \in Nat
      BY <3>2 DEF DeadItem, Unused, TypeOK, Time
    <3> QED BY <3>1, <3>3, ReplayedType
  <2>2. CASE ~Mentions(dlq, r)
    <3>1. [pc |-> "journal", target |-> r, plan |-> {}, at |-> now] \in Handler
      BY DEF TypeOK, Handler, Time
    <3>2. /\ handler' = [handler EXCEPT ![h] =
                [pc |-> "journal", target |-> r, plan |-> {}, at |-> now]]
          /\ UNCHANGED <<fate, replayOf>>
      BY <2>2 DEF Replay
    <3> QED BY <3>1, <3>2 DEF TypeOK
  <2> QED BY <2>1, <2>2
<1> QED BY <1>1 DEF Replay, TypeOK, storeVars, logVars, workerVars

\* The journal lookup of a replay.
LEMMA ReplayJournalType ==
  ASSUME TypeOK, NEW h \in Handlers, ReplayJournal(h)
  PROVE  TypeOK'
<1> DEFINE r == handler[h].target
<1>1. /\ handler' \in [Handlers -> Handler]
      /\ fate' \in [Relays -> {"unused", "live", "delivered", "dead", "lost"}]
      /\ replayOf' \in [Relays -> Relays \cup {NoRelay}]
  <2>1. CASE /\ Mentions(journal, r)
             /\ \E n \in Unused :
                   Replayed(h, Newest(journal, r), n, handler[h].at, NoRelay)
    <3>1. PICK n \in Unused :
                   Replayed(h, Newest(journal, r), n, handler[h].at, NoRelay)
      BY <2>1
    <3>2. Newest(journal, r) \in Entry
      BY <2>1, NewestProperties DEF TypeOK
    <3>3. /\ Newest(journal, r).store \in Stores
          /\ Newest(journal, r).relay \in Relays
          /\ n \in Relays /\ handler[h].at \in Nat
      BY <3>2 DEF Entry, Unused, TypeOK, Handler, Time
    <3> QED BY <3>1, <3>3, ReplayedType
  <2>2. CASE /\ handler' = [handler EXCEPT ![h] = IdleHandler]
             /\ UNCHANGED <<fate, replayOf>>
    BY <2>2 DEF TypeOK, Handler, IdleHandler, Time
  <2> QED BY <2>1, <2>2 DEF ReplayJournal
<1> QED BY <1>1 DEF ReplayJournal, TypeOK, storeVars, logVars, workerVars

\* Enqueue and removal by a handler.
LEMMA EnqueueType == ASSUME TypeOK, NEW h \in Handlers, Enqueue(h) PROVE TypeOK'
<1>1. PICK j \in handler[h].plan :
        LET rest == handler[h].plan \ {j} IN
        /\ ready' = ready \cup {j}
        /\ handler' = [handler EXCEPT ![h] =
              IF rest # {} THEN [@ EXCEPT !.plan = rest]
              ELSE IF @.target # NoRelay
                   THEN [@ EXCEPT !.plan = rest, !.pc = "remove"]
              ELSE IdleHandler]
  BY DEF Enqueue
<1>2. j \in Job
  BY DEF TypeOK, Handler
<1>3. ready' \subseteq Job
  BY <1>1, <1>2 DEF TypeOK
<1>4. handler' \in [Handlers -> Handler]
  <2> DEFINE rest == handler[h].plan \ {j}
  <2>1. /\ [handler[h] EXCEPT !.plan = rest] \in Handler
        /\ [handler[h] EXCEPT !.plan = rest, !.pc = "remove"] \in Handler
        /\ IdleHandler \in Handler
    <3>1. handler[h] \in Handler
      BY DEF TypeOK
    <3> QED BY <3>1 DEF Handler, IdleHandler, Time
  <2> QED BY <1>1, <2>1 DEF TypeOK
<1> QED BY <1>3, <1>4 DEF Enqueue, TypeOK, storeVars, logVars, workerVars, history

\* Removal from the dead letter queue by a handler.
LEMMA DropDeadType == ASSUME TypeOK, NEW h \in Handlers, DropDead(h) PROVE TypeOK'
<1>1. dlq' \in Seq(DeadItem)
  BY RemoveDeadProperties DEF DropDead, TypeOK
<1>2. handler' \in [Handlers -> Handler]
  BY DEF DropDead, TypeOK, Handler, IdleHandler, Time
<1> QED BY <1>1, <1>2 DEF DropDead, TypeOK, storeVars, workerVars, history

\* The operator's switch, a reader's poll, the clock.
LEMMA EnvironmentType ==
  ASSUME TypeOK, BreakersOK,
         \/ \E s \in Switchable : SetEnabled(s)
         \/ \E s \in Stores : Poll(s)
         \/ Tick
  PROVE  TypeOK'
<1>1. CASE \E s \in Switchable : SetEnabled(s)
  BY <1>1, RelayAssumption
     DEF SetEnabled, TypeOK, logVars, workerVars, history
<1>2. ASSUME NEW s \in Stores, Poll(s) PROVE TypeOK'
  <2>1. breaker' \in [Stores -> BreakerType]
    BY <1>2, MaybeHalfOpenOK DEF Poll, TypeOK, BreakersOK, Time
  <2> QED BY <1>2, <2>1 DEF Poll, TypeOK, logVars, workerVars, history
<1>3. CASE Tick
  BY <1>3 DEF Tick, TypeOK, storeVars, logVars, workerVars, history, Time
<1> QED BY <1>1, <1>2, <1>3

\* Every step keeps the types, given breakers of the right shape.
LEMMA NextType ==
  ASSUME TypeOK, BreakersOK, [Next]_vars
  PROVE  TypeOK'
<1>1. ASSUME NEW w \in Workers, WorkerStep(w) PROVE TypeOK'
  BY <1>1, LeaseType, GetStoreType, AllowType, TakeStepType, AnswerType,
     NoteStepType, ReportType, RequeueType, BuryType, ReleaseType DEF WorkerStep
<1>2. ASSUME NEW h \in Handlers,
             Ingest(h) \/ ReplayJournal(h) \/ Enqueue(h) \/ DropDead(h)
      PROVE  TypeOK'
  BY <1>2, IngestType, ReplayJournalType, EnqueueType, DropDeadType
<1>3. ASSUME NEW h \in Handlers, NEW r \in Replayable, Replay(h, r) PROVE TypeOK'
  BY <1>3, ReplayType, RelayAssumption
<1>4. CASE \/ \E s \in Switchable : SetEnabled(s)
           \/ \E s \in Stores : Poll(s)
           \/ Tick
  BY <1>4, EnvironmentType
<1>5. CASE UNCHANGED vars
  BY <1>5 DEF vars, TypeOK, storeVars, logVars, workerVars, history
<1> QED BY <1>1, <1>2, <1>3, <1>4, <1>5 DEF Next, Around

------------------------------------------------------------------------------
(* Breakers *)

\* Every step keeps the shape of every store's breaker.
LEMMA NextBreakers ==
  ASSUME TypeOK, BreakersOK, [Next]_vars
  PROVE  BreakersOK'
<1>1. now \in Nat /\ breaker \in [Stores -> BreakerType]
  BY DEF TypeOK, Time
<1>2. ASSUME NEW w \in Workers, Allow(w) PROVE BreakersOK'
  <2>1. held[w].store \in Stores
    BY <1>2 DEF Allow, TypeOK, Job
  <2>2. BreakerShape(AfterAllow(breaker[held[w].store], now))
    BY <1>1, <2>1, AfterAllowOK DEF BreakersOK
  <2> QED BY <1>1, <1>2, <2>1, <2>2 DEF Allow, BreakersOK
<1>3. ASSUME NEW w \in Workers, Report(w) PROVE BreakersOK'
  <2>1. held[w].store \in Stores
    BY <1>3 DEF Report, TypeOK, Job
  <2>2. /\ BreakerShape(AfterSuccess(breaker[held[w].store]))
        /\ BreakerShape(AfterFailure(breaker[held[w].store], now))
    BY <1>1, <2>1, AfterSuccessOK, AfterFailureOK DEF BreakersOK
  <2> QED BY <1>1, <1>3, <2>1, <2>2 DEF Report, Told, BreakersOK
<1>4. ASSUME NEW s \in Stores, Poll(s) PROVE BreakersOK'
  BY <1>1, <1>4, MaybeHalfOpenOK DEF Poll, BreakersOK
<1>5. CASE UNCHANGED breaker
  BY <1>5 DEF BreakersOK
<1>6. ASSUME NEW w \in Workers, WorkerStep(w) PROVE BreakersOK'
  BY <1>2, <1>3, <1>5, <1>6
     DEF WorkerStep, Lease, GetStore, Take, Answer, Note, Requeue, Bury,
         NoteAfter, Release, storeVars
<1>7. ASSUME NEW h \in Handlers,
             \/ Ingest(h) \/ ReplayJournal(h) \/ Enqueue(h) \/ DropDead(h)
             \/ \E r \in Replayable : Replay(h, r)
      PROVE  BreakersOK'
  BY <1>5, <1>7 DEF Ingest, ReplayJournal, Enqueue, DropDead, Replay, storeVars
<1>8. CASE (\E s \in Switchable : SetEnabled(s)) \/ Tick \/ UNCHANGED vars
  BY <1>5, <1>8 DEF SetEnabled, Tick, vars, storeVars
<1> QED BY <1>4, <1>6, <1>7, <1>8 DEF Next, Around

\* The relay core is type correct: no interleaving of workers, handlers,
\* operator and clock puts a value of the wrong kind anywhere; in particular
\* only a busy worker's locals are ever read.
THEOREM RelayTypeCorrect == Spec => [](TypeOK /\ BreakersOK)
<1>1. Init => TypeOK /\ BreakersOK
  BY InitType, NewBreakerOK DEF Init, BreakersOK
<1>2. TypeOK /\ BreakersOK /\ [Next]_vars => (TypeOK /\ BreakersOK)'
  BY NextType, NextBreakers
<1> QED BY <1>1, <1>2, PTL DEF Spec

\* Reports, polls and admissions of any number of workers, in any order and of
\* any age, leave every store's breaker in its shape: closed below the threshold,
\* otherwise exactly at it, with a probe budget in half-open only.
THEOREM BreakersCorrect == Spec => []BreakersOK
  BY RelayTypeCorrect, PTL

------------------------------------------------------------------------------
(* Lost probes *)

\* Steps that neither touch the breaker of s nor admit or dismiss anybody.
LEMMA WedgedFrame ==
  ASSUME NEW s, breaker'[s] = breaker[s],
         \A v \in Workers : v \in Admitted(s)' <=> v \in Admitted(s)
  PROVE  Wedged(s)' <=> Wedged(s)
  BY DEF Wedged, ProbesSpent, Admitted

\* What one worker does to one store.
LEMMA WorkerWedges ==
  ASSUME TypeOK, BreakersOK, NEW s \in Stores, NEW w \in Workers, WorkerStep(w)
  PROVE  /\ Wedged(s) => Wedged(s)'
         /\ Wedged(s)' => Wedged(s) \/ DelayedOn(s)
<1> DEFINE u == held[w].store
           Goal == /\ Wedged(s) => Wedged(s)'
                   /\ Wedged(s)' => Wedged(s) \/ DelayedOn(s)
<1>1. \A v \in Workers : v # w => (v \in Admitted(s)' <=> v \in Admitted(s))
  BY DEF WorkerStep, Lease, GetStore, Allow, Take, Answer, Note, Report, Requeue,
         Bury, NoteAfter, Release, TypeOK, Admitted
<1>2. now \in Nat /\ breaker[s] \in BreakerType /\ BreakerShape(breaker[s])
  BY DEF TypeOK, BreakersOK, Time
<1>3. ASSUME breaker'[s] = breaker[s], w \in Admitted(s)' <=> w \in Admitted(s)
      PROVE  Goal
  BY <1>1, <1>3, WedgedFrame
<1>4. CASE \/ Lease(w) \/ GetStore(w) \/ Answer(w) \/ Note(w)
           \/ Requeue(w) \/ Bury(w) \/ NoteAfter(w) \/ Release(w)
  <2>1. breaker'[s] = breaker[s]
    BY <1>4 DEF Lease, GetStore, Answer, Note, Requeue, Bury, NoteAfter, Release,
                storeVars
  <2>2. w \in Admitted(s)' <=> w \in Admitted(s)
    BY <1>4 DEF Lease, GetStore, Answer, Note, Requeue, Bury, NoteAfter, Release,
                AfterMove, TypeOK, Admitted
  <2> QED BY <1>3, <2>1, <2>2
<1>5. CASE Take(w)
  <2>1. /\ breaker' = breaker /\ pc[w] = "take" /\ u \in Stores
        /\ pc'[w] \in {"post", "requeue"} /\ held'[w].store = u
    BY <1>5 DEF Take, TypeOK, Job
  <2>2. CASE u = s /\ pc'[w] = "requeue"
    <3>1. w \in Admitted(s)
      BY <2>1, <2>2 DEF Admitted
    <3> QED BY <2>1, <2>2, <3>1 DEF DelayedOn, Wedged
  <2>3. CASE ~(u = s /\ pc'[w] = "requeue")
    <3>1. w \in Admitted(s)' <=> w \in Admitted(s)
      BY <2>1, <2>3 DEF Admitted
    <3> QED BY <1>3, <2>1, <3>1
  <2> QED BY <2>2, <2>3
<1>6. CASE Allow(w)
  <2>1. /\ pc[w] = "allow" /\ u \in Stores /\ w \notin Admitted(s)
        /\ breaker' = [breaker EXCEPT ![u] = AfterAllow(breaker[u], now)]
        /\ pc'[w] = IF Admits(breaker[u], now) THEN "take" ELSE "requeue"
        /\ held'[w].store = u
    BY <1>6 DEF Allow, TypeOK, Job, Admitted
  <2>2. CASE u # s
    <3>1. w \notin Admitted(s)'
      BY <2>1, <2>2 DEF Admitted
    <3>2. breaker'[s] = breaker[s]
      BY <2>1, <2>2
    <3> QED BY <1>3, <2>1, <3>1, <3>2
  <2>3. CASE u = s /\ Admits(breaker[s], now)
    <3>1. w \in Admitted(s)'
      BY <2>1, <2>3 DEF Admitted
    <3>2. ~ProbesSpent(s)
      BY <1>2, <2>3, SpentStays DEF ProbesSpent
    <3> QED BY <3>1, <3>2 DEF Wedged
  <2>4. CASE u = s /\ ~Admits(breaker[s], now)
    <3>1. w \notin Admitted(s)'
      BY <2>1, <2>4 DEF Admitted
    <3>2. breaker'[s] = AfterAllow(breaker[s], now)
      BY <2>1, <2>4 DEF TypeOK
    <3>3. ProbesSpent(s)' <=> ProbesSpent(s)
      BY <1>2, <2>4, <3>2, SpentStays, OnlyAdmissionSpends DEF ProbesSpent
    <3>4. Admitted(s)' = {} <=> Admitted(s) = {}
      BY <1>1, <2>1, <3>1 DEF Admitted
    <3> QED BY <3>3, <3>4 DEF Wedged
  <2> QED BY <2>2, <2>3, <2>4
<1>7. CASE Report(w)
  <2>1. /\ pc[w] = "report" /\ u \in Stores /\ pc'[w] # "report"
        /\ pc'[w] \in {"release", "bury", "requeue"} /\ held'[w].store = u
        /\ breaker' = [breaker EXCEPT ![u] =
              Told(breaker[u], Combine(result[w]), now)]
    BY <1>7 DEF Report, TypeOK, Job
  <2>2. CASE u # s
    <3>1. w \notin Admitted(s)' /\ w \notin Admitted(s)
      BY <2>1, <2>2 DEF Admitted
    <3> QED BY <1>3, <2>1, <2>2, <3>1
  <2>3. CASE u = s
    <3>1. w \in Admitted(s)
      BY <2>1, <2>3 DEF Admitted
    <3>2. breaker'[s].state # "half_open"
      BY <1>2, <2>1, <2>3, AfterSuccessOK, AfterFailureOK DEF Told, TypeOK
    <3> QED BY <3>1, <3>2 DEF Wedged, ProbesSpent
  <2> QED BY <2>2, <2>3
<1> QED BY <1>4, <1>5, <1>6, <1>7 DEF WorkerStep

\* What any step does to one store.
LEMMA NextWedges ==
  ASSUME TypeOK, BreakersOK, [Next]_vars, NEW s \in Stores
  PROVE  /\ Wedged(s) => Wedged(s)'
         /\ Wedged(s)' => Wedged(s) \/ DelayedOn(s)
<1>1. CASE \E w \in Workers : WorkerStep(w)
  BY <1>1, WorkerWedges
<1>2. CASE UNCHANGED <<breaker, pc, held>>
  BY <1>2, WedgedFrame DEF Admitted
<1>3. ASSUME NEW x \in Stores, Poll(x)
      PROVE  Wedged(s)' <=> Wedged(s)
  <2>1. UNCHANGED <<pc, held>>
    BY <1>3 DEF Poll, workerVars
  <2>2. /\ now \in Nat /\ breaker[s] \in BreakerType /\ BreakerShape(breaker[s])
        /\ breaker'[s] = breaker[s] \/ breaker'[s] = MaybeHalfOpen(breaker[s], now)
    BY <1>3 DEF Poll, TypeOK, BreakersOK, Time
  <2>3. ProbesSpent(s)' <=> ProbesSpent(s)
    BY <2>2, SpentStays, OnlyAdmissionSpends DEF ProbesSpent
  <2> QED BY <2>1, <2>3 DEF Wedged, Admitted
<1> QED
  BY <1>1, <1>2, <1>3 DEF Next, Around, Ingest, ReplayJournal, Enqueue, DropDead,
     Replay, SetEnabled, Tick, vars, workerVars, storeVars

\* A half-open store loses its last probe only to the rate limiter, whatever the
\* workers, reports, polls and switches do, and then for as long as the process
\* runs.
THEOREM WedgedByDelayForGoodCorrect == Spec => WedgedByDelayForGood
<1>1. TypeOK /\ BreakersOK /\ [Next]_vars =>
        [\A s \in Stores : /\ Wedged(s) => Wedged(s)'
                           /\ Wedged(s)' => Wedged(s) \/ DelayedOn(s)]_vars
  BY NextWedges
<1> QED BY <1>1, RelayTypeCorrect, PTL DEF Spec, WedgedByDelayForGood

\* As long as the limiter sends nobody back, every spent probe is going to be
\* reported (PROJECT.md 3.6), for any number of workers and stores.
THEOREM ProbesReported ==
  Spec /\ [][\A s \in Stores : ~DelayedOn(s)]_vars => []ProbeOutstanding
<1> DEFINE None == \A s \in Stores : ~Wedged(s)
<1>1. Init => None
  BY NewBreakerOK DEF Init, Wedged, ProbesSpent, NewBreaker
<1>2. /\ TypeOK /\ BreakersOK /\ None /\ [Next]_vars
      /\ [\A s \in Stores : ~DelayedOn(s)]_vars
      => None'
  <2> SUFFICES ASSUME TypeOK, BreakersOK, None, [Next]_vars,
                      [\A s \in Stores : ~DelayedOn(s)]_vars,
                      NEW s \in Stores
               PROVE  ~Wedged(s)'
    OBVIOUS
  <2>1. CASE ~DelayedOn(s)
    BY <2>1, NextWedges
  <2>2. CASE UNCHANGED vars
    BY <2>2, WedgedFrame DEF vars, storeVars, workerVars, Admitted
  <2> QED BY <2>1, <2>2
<1>3. None => ProbeOutstanding
  BY DEF Wedged, ProbeOutstanding
<1> QED BY <1>1, <1>2, <1>3, RelayTypeCorrect, PTL DEF Spec

------------------------------------------------------------------------------
(* Tokens *)

\* What any step does to the level of one store's bucket.
LEMMA NextLevel ==
  ASSUME TypeOK, [Next]_vars, NEW s \in Stores
  PROVE  /\ Level(s)' <= Level(s) + Rate * (now' - now)
         /\ PostStarts(s) => \/ Level(s)' = Level(s) - Unit
                             \/ Level(s) < Unit /\ Unit - Level(s) < Rate
<1> DEFINE Goal == /\ Level(s)' <= Level(s) + Rate * (now' - now)
                   /\ PostStarts(s) => \/ Level(s)' = Level(s) - Unit
                                       \/ Level(s) < Unit /\ Unit - Level(s) < Rate
<1>1. now \in Nat /\ bucket[s] \in BucketType /\ Rate \in Nat /\ Unit \in Nat
  BY BucketAssumption DEF TypeOK, Time
<1>2. Level(s) \in Nat
  <2>1. Unit * Burst \in Nat
    BY BucketAssumption
  <2> QED BY <1>1, <2>1, RefillProperties DEF Level, BucketType
<1>3. now' = now => Rate * (now' - now) = 0
  BY <1>1
<1>4. ASSUME bucket'[s] = bucket[s], now' = now, ~PostStarts(s) PROVE Goal
  <2>1. Level(s)' = Level(s)
    BY <1>4 DEF Level
  <2> QED BY <1>2, <1>3, <1>4, <2>1
<1>5. CASE Tick
  <2>1. bucket' = bucket /\ pc' = pc /\ now' = now + 1
    BY <1>5 DEF Tick, storeVars, workerVars
  <2>2. Level(s)' <= Level(s) + Rate
    BY <1>1, <2>1, RefillProperties DEF Level
  <2>3. Rate * (now' - now) = Rate
    BY <1>1, <2>1
  <2> QED BY <2>1, <2>2, <2>3 DEF PostStarts
<1>6. ASSUME NEW w \in Workers, Take(w) PROVE Goal
  <2> DEFINE u == held[w].store
  <2>1. /\ u \in Stores /\ now' = now
        /\ bucket' = [bucket EXCEPT ![u] = AfterTake(bucket[u], now)]
        /\ pc'[w] = "post" => ~(TakeWait(bucket[u], now) > 0)
        /\ \A v \in Workers : v # w => pc'[v] = pc[v]
    BY <1>6 DEF Take, TypeOK, Job
  <2>2. CASE u # s
    <3>1. bucket'[s] = bucket[s]
      BY <2>1, <2>2
    <3>2. ~PostStarts(s)
      BY <2>1, <2>2 DEF PostStarts
    <3> QED BY <1>4, <2>1, <3>1, <3>2
  <2>3. CASE u = s
    <3>1. bucket'[s] = AfterTake(bucket[s], now)
      BY <2>1, <2>3 DEF TypeOK
    <3>2. /\ Level(s)' = IF Level(s) >= Unit THEN Level(s) - Unit ELSE Level(s)
          /\ TakeWait(bucket[s], now) = 0 /\ Level(s) < Unit => Unit - Level(s) < Rate
      BY <1>1, <2>1, <3>1, TakeAccount DEF Level
    <3>3. PostStarts(s) => TakeWait(bucket[s], now) = 0
      <4>1. PostStarts(s) => pc'[w] = "post"
        BY <2>1 DEF PostStarts
      <4>2. TakeWait(bucket[s], now) \in Nat
        BY <1>1, TakeType
      <4> QED BY <2>1, <2>3, <4>1, <4>2
    <3>4. Level(s)' <= Level(s)
      BY <1>1, <1>2, <3>2
    <3> QED BY <1>1, <1>2, <1>3, <2>1, <3>2, <3>3, <3>4
  <2> QED BY <2>2, <2>3
<1>7. ASSUME NEW w \in Workers,
             \/ Lease(w) \/ GetStore(w) \/ Allow(w) \/ Answer(w) \/ Note(w)
             \/ Report(w) \/ Requeue(w) \/ Bury(w) \/ NoteAfter(w) \/ Release(w)
      PROVE  Goal
  <2>1. /\ bucket' = bucket /\ now' = now /\ pc[w] # "take"
        /\ \A v \in Workers : v # w => pc'[v] = pc[v]
    BY <1>7 DEF Lease, GetStore, Allow, Answer, Note, Report, Requeue, Bury,
                NoteAfter, Release, storeVars, TypeOK
  <2>2. ~PostStarts(s)
    BY <2>1 DEF PostStarts
  <2> QED BY <1>4, <2>1, <2>2
<1>8. CASE UNCHANGED <<bucket, now, pc>>
  <2>1. ~PostStarts(s)
    BY <1>8 DEF PostStarts
  <2> QED BY <1>4, <1>8, <2>1
<1> QED
  BY <1>5, <1>6, <1>7, <1>8 DEF Next, Around, WorkerStep, Ingest, ReplayJournal, Enqueue, DropDead,
     Replay, SetEnabled, Poll, vars, workerVars, storeVars

\* A store's bucket is credited by the clock alone and debited by every POST, for
\* any rate, burst, resolution and number of workers: over any stretch of a run
\* the POSTs that found a whole token are at most what the bucket held and what
\* the time earned.
THEOREM PostsPaidCorrect == Spec => PostsPaid
<1>1. TypeOK /\ [Next]_vars =>
        [\A s \in Stores :
            /\ Level(s)' <= Level(s) + Rate * (now' - now)
            /\ PostStarts(s) => \/ Level(s)' = Level(s) - Unit
                                \/ Level(s) < Unit /\ Unit - Level(s) < Rate]_vars
  BY NextLevel
<1> QED BY <1>1, RelayTypeCorrect, PTL DEF Spec, PostsPaid
==============================================================================
