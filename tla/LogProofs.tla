------------------------------ MODULE LogProofs ------------------------------
(***************************************************************************)
(* The two logs an operator replays from tell the truth: the dead letter   *)
(* queue lists a relay once and loses none to a replay that has not        *)
(* enqueued its successor, and a journalled success is final.              *)
(***************************************************************************)
EXTENDS DeliveryProofs

------------------------------------------------------------------------------
(* The dead letter queue lists a relay once *)

Distinct(q) == \A i, k \in DOMAIN q : q[i].relay = q[k].relay => i = k

\* Every item of a log is of the log's type.
LEMMA ItemsTyped ==
  ASSUME NEW S, NEW q \in Seq(S)
  PROVE  DOMAIN q = 1..Len(q) /\ Len(q) \in Nat /\ \A i \in DOMAIN q : q[i] \in S
  BY LenProperties, ElementOfSeq

\* Where the entries of the journal come from.
LEMMA EntriesTyped ==
  ASSUME TypeOK
  PROVE  \A i \in DOMAIN journal : journal[i].relay \in Relays
<1>1. journal \in Seq(Entry)
  BY DEF TypeOK
<1>2. \A i \in DOMAIN journal : journal[i] \in Entry
  BY <1>1, ItemsTyped
<1> QED BY <1>2 DEF Entry

\* A capped append of a relay the log does not mention keeps it distinct and
\* within its cap.
LEMMA PushDistinct ==
  ASSUME NEW S, NEW q \in Seq(S), NEW x \in S, NEW max \in Nat \ {0},
         Len(q) <= max, Distinct(q), ~Mentions(q, x.relay)
  PROVE  Distinct(Push(q, x, max)) /\ Len(Push(q, x, max)) <= max
<1> DEFINE p == Push(q, x, max)
<1>1. DOMAIN q = 1..Len(q) /\ Len(q) \in Nat
  BY ItemsTyped
<1>2. p \in Seq(S)
  BY PushProperties
<1>3. DOMAIN p = 1..Len(p)
  BY <1>2, ItemsTyped
<1>4. /\ Len(q) < max => /\ Len(p) = Len(q) + 1 /\ p[Len(q) + 1] = x
                         /\ \A i \in 1..Len(q) : p[i] = q[i]
      /\ Len(q) = max => /\ Len(p) = max /\ p[max] = x
                         /\ \A i \in 1..(max - 1) : p[i] = q[i + 1]
  BY PushShape
<1> HIDE DEF p
<1>5. CASE Len(q) < max
  <2>1. \A i \in 1..Len(q) : p[i] = q[i] /\ q[i].relay # x.relay
    BY <1>1, <1>4, <1>5 DEF Mentions
  <2>2. \A i, k \in 1..Len(q) : p[i].relay = p[k].relay => i = k
    BY <1>1, <2>1 DEF Distinct
  <2>3. ASSUME NEW i \in 1..(Len(q) + 1), NEW k \in 1..(Len(q) + 1),
               p[i].relay = p[k].relay
        PROVE  i = k
    <3>1. i \in 1..Len(q) \/ i = Len(q) + 1
      BY <1>1
    <3>2. k \in 1..Len(q) \/ k = Len(q) + 1
      BY <1>1
    <3> QED BY <1>4, <1>5, <2>1, <2>2, <2>3, <3>1, <3>2
  <2>4. DOMAIN p = 1..(Len(q) + 1) /\ Len(p) <= max
    <3>1. Len(p) = Len(q) + 1
      BY <1>4, <1>5
    <3>2. \A m, n \in Nat : m < n => m + 1 <= n
      OBVIOUS
    <3>3. Len(q) + 1 <= max
      BY <1>1, <1>5, <3>2
    <3> QED BY <1>3, <3>1, <3>3
  <2>5. Distinct(p)
    BY <2>3, <2>4 DEF Distinct
  <2> QED BY <2>4, <2>5 DEF p
<1>6. CASE Len(q) = max
  <2>1. \A i \in 1..(max - 1) : /\ p[i] = q[i + 1] /\ i + 1 \in DOMAIN q
                                /\ q[i + 1].relay # x.relay
    BY <1>1, <1>4, <1>6 DEF Mentions
  <2>2. \A i, k \in 1..(max - 1) : p[i].relay = p[k].relay => i = k
    <3>1. ASSUME NEW i \in 1..(max - 1), NEW k \in 1..(max - 1),
                 p[i].relay = p[k].relay
          PROVE  i = k
      <4>1. i + 1 = k + 1
        BY <2>1, <3>1 DEF Distinct
      <4> QED BY <4>1
    <3> QED BY <3>1
  <2>3. \A i, k \in 1..max : p[i].relay = p[k].relay => i = k
    BY <1>4, <1>6, <2>1, <2>2
  <2> QED BY <1>3, <1>4, <1>6, <2>3 DEF Distinct, p
<1>7. Len(q) < max \/ Len(q) = max
  <2>1. \A m, n \in Nat : m <= n => m < n \/ m = n
    OBVIOUS
  <2> QED BY <1>1, <2>1
<1> QED BY <1>5, <1>6, <1>7

\* Removal keeps a log distinct and does not lengthen it.
LEMMA RemoveDistinct ==
  ASSUME NEW S, NEW q \in Seq(S), NEW r, Distinct(q)
  PROVE  Distinct(RemoveDead(q, r)) /\ Len(RemoveDead(q, r)) <= Len(q)
<1>1. CASE ~Mentions(q, r)
  <2>1. RemoveDead(q, r) = q /\ Len(q) \in Nat
    BY <1>1, ItemsTyped DEF RemoveDead, RemoveFirstMatch, Mentions
  <2> QED BY <2>1
<1>2. CASE Mentions(q, r)
  <2> DEFINE u == RemoveDead(q, r)
  <2>1. PICK m \in 1..Len(q) :
          /\ u \in Seq(S) /\ Len(u) = Len(q) - 1
          /\ \A i \in 1..(Len(q) - 1) : u[i] = IF i < m THEN q[i] ELSE q[i + 1]
    BY <1>2, RemoveDeadShape
  <2>2. DOMAIN u = 1..(Len(q) - 1) /\ DOMAIN q = 1..Len(q) /\ Len(q) \in Nat
    BY <2>1, ItemsTyped
  <2> HIDE DEF u
  <2>3. ASSUME NEW i \in 1..(Len(q) - 1), NEW k \in 1..(Len(q) - 1),
               u[i].relay = u[k].relay
        PROVE  i = k
    <3> DEFINE f(x) == IF x < m THEN x ELSE x + 1
    <3>1. f(i) \in DOMAIN q /\ f(k) \in DOMAIN q /\ u[i] = q[f(i)] /\ u[k] = q[f(k)]
      BY <2>1, <2>2
    <3>2. f(i) = f(k)
      BY <2>3, <3>1 DEF Distinct
    <3> QED BY <2>1, <2>2, <3>2
  <2>4. Distinct(u)
    BY <2>2, <2>3 DEF Distinct
  <2> QED BY <2>1, <2>2, <2>4 DEF u
<1> QED BY <1>1, <1>2

DeadDistinct == Distinct(dlq) /\ Len(dlq) <= DLQMax

\* Only Bury and DropDead touch the queue; a buried relay was live until then,
\* so it is not in the queue yet.
LEMMA NextDeadDistinct ==
  ASSUME TypeOK, Conserved, Attempts, DeadDistinct, [Next]_vars
  PROVE  DeadDistinct'
<1> USE DEF DeadDistinct
<1>1. dlq \in Seq(DeadItem) /\ Len(dlq) \in Nat
  BY ItemsTyped DEF TypeOK
<1>2. ASSUME NEW w \in Workers, Bury(w) PROVE DeadDistinct'
  <2> DEFINE j == held[w]
             x == [relay |-> j.relay, store |-> j.store, attempt |-> j.attempt]
  <2>1. j \in Job /\ Owns(w) /\ dlq' = Push(dlq, x, DLQMax)
    BY <1>2 DEF Bury, TypeOK, Owns, Owning, PCs
  <2>2. x \in DeadItem /\ x.relay = j.relay
    BY <2>1 DEF DeadItem, Job
  <2>3. fate[j.relay] = "live"
    BY <2>1 DEF Conserved, Conservation, SomewhereIsLive
  <2> HIDE DEF x
  <2>4. ~Mentions(dlq, x.relay)
    BY <2>2, <2>3 DEF Mentions, Attempts, AttemptsLeft
  <2> QED BY <1>1, <2>1, <2>2, <2>4, PushDistinct, RelayAssumption
<1>3. ASSUME NEW h \in Handlers, DropDead(h) PROVE DeadDistinct'
  <2>1. dlq' = RemoveDead(dlq, handler[h].target)
    BY <1>3 DEF DropDead
  <2>2. Distinct(dlq') /\ Len(dlq') <= Len(dlq) /\ dlq' \in Seq(DeadItem)
    BY <1>1, <2>1, RemoveDistinct, RemoveDeadProperties
  <2>3. Len(dlq') \in Nat
    BY <2>2, ItemsTyped
  <2> QED BY <1>1, <2>2, <2>3, RelayAssumption
<1>4. CASE dlq' = dlq
  BY <1>4
<1> QED
  BY <1>2, <1>3, <1>4
     DEF Next, Around, WorkerStep, Lease, GetStore, Allow, Take, Answer, Note, Report,
         Requeue, NoteAfter, Release, Ingest, ReplayJournal, Replay, Enqueue,
         SetEnabled, Poll, Tick, vars, logVars

\* The invariant all theorems here start from.
Core == TypeOK /\ BreakersOK /\ Conserved /\ Attempts

\* Core is inductive.
LEMMA CoreInductive == (Init => Core) /\ (Core /\ [Next]_vars => Core')
<1>1. Init => Core
  BY InitType, InitConserves, InitAttempts, NewBreakerOK DEF Init, BreakersOK, Core
<1>2. Core /\ [Next]_vars => Core'
  BY NextType, NextBreakers, NextConserves, NextAttempts DEF Core
<1> QED BY <1>1, <1>2

\* The dead letter queue lists a relay at most once, and only relays the engine
\* gave up on: a delivered or a pending relay is never offered for replay by it.
THEOREM DeadOnceCorrect == Spec => []DeadOnce
<1> DEFINE I == Core /\ DeadDistinct
<1>1. Init => I
  <2>1. Init => DeadDistinct
    BY RelayAssumption DEF Init, DeadDistinct, Distinct
  <2> QED BY <2>1, CoreInductive
<1>2. I /\ [Next]_vars => I'
  BY CoreInductive, NextDeadDistinct DEF Core
<1>3. I => DeadOnce
  BY DEF Core, DeadDistinct, Distinct, DeadOnce, Attempts, AttemptsLeft
<1> QED BY <1>1, <1>2, <1>3, PTL DEF Spec

------------------------------------------------------------------------------
(* A journalled success is final *)

\* The strengthening: the relay of a journalled success is delivered, or the
\* worker that journalled it is at br.Success.
SuccessKnown ==
    \A i \in DOMAIN journal : journal[i].kind = "success" =>
        \/ fate[journal[i].relay] = "delivered"
        \/ \E w \in Workers : Reporting(w, journal[i].relay)

\* What SuccessKnown says of one relay is kept by every step.
LEMMA KnownStays ==
  ASSUME TypeOK, Conserved, [Next]_vars, NEW r \in Relays,
         fate[r] = "delivered" \/ \E w \in Workers : Reporting(w, r)
  PROVE  fate'[r] = "delivered" \/ \E w \in Workers : Reporting(w, r)'
<1> DEFINE Goal == fate'[r] = "delivered" \/ \E w \in Workers : Reporting(w, r)'
<1>1. ASSUME NEW v \in Workers, Report(v) PROVE Goal
  <2>1. /\ fate' = fate \/ fate' = [fate EXCEPT ![held[v].relay] = "delivered"]
        /\ Combine(result[v]) = "success" =>
              fate' = [fate EXCEPT ![held[v].relay] = "delivered"]
    BY <1>1 DEF Report
  <2>2. CASE fate[r] = "delivered"
    BY <2>1, <2>2 DEF TypeOK
  <2>3. ASSUME NEW w \in Workers, Reporting(w, r) PROVE Goal
    <3>1. CASE w = v
      BY <2>1, <2>3, <3>1 DEF Reporting, TypeOK
    <3>2. CASE w # v
      <4>1. pc'[w] = pc[w] /\ held'[w] = held[w] /\ result'[w] = result[w]
        BY <1>1, <3>2 DEF Report, TypeOK
      <4> QED BY <2>3, <4>1 DEF Reporting
    <3> QED BY <3>1, <3>2
  <2> QED BY <2>2, <2>3
<1>2. ASSUME NEW v \in Workers, WorkerStep(v), ~Report(v) PROVE Goal
  <2>1. pc[v] # "report"
    BY <1>2 DEF WorkerStep, Lease, GetStore, Allow, Take, Answer, Note, Requeue,
                Bury, NoteAfter, Release
  <2>2. \A w \in Workers : w # v =>
           pc'[w] = pc[w] /\ held'[w] = held[w] /\ result'[w] = result[w]
    BY <1>2 DEF WorkerStep, Lease, GetStore, Allow, Take, Answer, Note, Requeue,
                Bury, NoteAfter, Release, TypeOK
  <2>3. CASE fate[r] = "delivered"
    <3>1. CASE Bury(v)
      <4>1. fate[held[v].relay] = "live"
        BY <3>1 DEF Bury, Owns, Owning, PCs, Conserved, Conservation, SomewhereIsLive
      <4> QED BY <2>3, <3>1, <4>1 DEF Bury, TypeOK
    <3>2. CASE fate' = fate
      BY <2>3, <3>2
    <3> QED
      BY <1>2, <3>1, <3>2 DEF WorkerStep, Lease, GetStore, Allow, Take, Answer,
         Note, Requeue, NoteAfter, Release, history
  <2>4. ASSUME NEW w \in Workers, Reporting(w, r) PROVE Goal
    <3>1. w # v
      BY <2>1, <2>4 DEF Reporting
    <3> QED BY <2>2, <2>4, <3>1 DEF Reporting
  <2> QED BY <2>3, <2>4
<1>3. ASSUME UNCHANGED <<pc, held, result>>,
             fate[r] # "unused" => fate'[r] = fate[r]
      PROVE  Goal
  BY <1>3 DEF Reporting
<1>4. ASSUME NEW h \in Handlers, NEW item, NEW n \in Unused, NEW t, NEW target,
             Replayed(h, item, n, t, target)
      PROVE  fate[r] # "unused" => fate'[r] = fate[r]
  BY <1>4 DEF Replayed, Unused, TypeOK
<1>5. ASSUME NEW h \in Handlers, Ingest(h) PROVE Goal
  <2>1. fate[r] # "unused" => fate'[r] = fate[r]
    BY <1>5 DEF Ingest, Unused
  <2>2. UNCHANGED <<pc, held, result>>
    BY <1>5 DEF Ingest, workerVars
  <2> QED BY <1>3, <2>1, <2>2
<1>6. ASSUME NEW h \in Handlers,
             ReplayJournal(h) \/ \E x \in Replayable : Replay(h, x)
      PROVE  Goal
  <2>1. fate[r] # "unused" => fate'[r] = fate[r]
    BY <1>4, <1>6 DEF ReplayJournal, Replay
  <2>2. UNCHANGED <<pc, held, result>>
    BY <1>6 DEF ReplayJournal, Replay, workerVars
  <2> QED BY <1>3, <2>1, <2>2
<1>7. CASE UNCHANGED <<pc, held, result, fate>>
  BY <1>3, <1>7
<1> QED
  BY <1>1, <1>2, <1>5, <1>6, <1>7
     DEF Next, Around, Enqueue, DropDead, SetEnabled, Poll, Tick, vars, workerVars, history

\* Every entry of the journal after a step is an old one or the worker's note.
LEMMA JournalGrows ==
  ASSUME TypeOK, [Next]_vars
  PROVE  \A i \in DOMAIN journal' :
            \/ \E k \in DOMAIN journal : journal'[i] = journal[k]
            \/ \E w \in Workers :
                  \/ Note(w) /\ journal'[i] = NoteOf(w, Combine(result[w]))
                  \/ NoteAfter(w) /\ journal'[i] = NoteOf(w, KindOf(tag[w]))
<1>1. ASSUME NEW w \in Workers, NEW k \in JournalKinds, held[w] \in Job,
             journal' = Push(journal, NoteOf(w, k), JournalMax)
      PROVE  \A i \in DOMAIN journal' :
                \/ \E n \in DOMAIN journal : journal'[i] = journal[n]
                \/ journal'[i] = NoteOf(w, k)
  <2>1. NoteOf(w, k) \in Entry
    BY <1>1, NoteOfType
  <2> QED BY <1>1, <2>1, PushProperties, RelayAssumption DEF TypeOK
<1>2. ASSUME NEW w \in Workers, Note(w)
      PROVE  \A i \in DOMAIN journal' :
                \/ \E n \in DOMAIN journal : journal'[i] = journal[n]
                \/ journal'[i] = NoteOf(w, Combine(result[w]))
  <2>1. held[w] \in Job /\ Combine(result[w]) \in JournalKinds
    BY <1>2, CombineType DEF Note, TypeOK, JournalKinds
  <2>2. journal' = Push(journal, NoteOf(w, Combine(result[w])), JournalMax)
    BY <1>2 DEF Note
  <2> QED BY <1>1, <2>1, <2>2
<1>3. ASSUME NEW w \in Workers, NoteAfter(w)
      PROVE  \A i \in DOMAIN journal' :
                \/ \E n \in DOMAIN journal : journal'[i] = journal[n]
                \/ journal'[i] = NoteOf(w, KindOf(tag[w]))
  <2>1. held[w] \in Job /\ KindOf(tag[w]) \in JournalKinds
    BY <1>3 DEF NoteAfter, TypeOK, JournalKinds, KindOf, Kinds
  <2>2. journal' = Push(journal, NoteOf(w, KindOf(tag[w])), JournalMax)
    BY <1>3 DEF NoteAfter
  <2> QED BY <1>1, <2>1, <2>2
<1>4. \/ \E w \in Workers : Note(w) \/ NoteAfter(w)
      \/ journal' = journal
  BY DEF Next, Around, WorkerStep, Lease, GetStore, Allow, Take, Answer, Report, Requeue,
         Bury, Release, Ingest, ReplayJournal, Replay, Enqueue, DropDead,
         SetEnabled, Poll, Tick, vars, logVars
<1> QED BY <1>2, <1>3, <1>4

\* SuccessKnown is inductive: only Note journals a success, on its way to report.
LEMMA NextSuccessKnown ==
  ASSUME TypeOK, Conserved, SuccessKnown, [Next]_vars
  PROVE  SuccessKnown'
<1> SUFFICES ASSUME NEW i \in DOMAIN journal', journal'[i].kind = "success",
                    NEW r, r = journal'[i].relay
             PROVE  fate'[r] = "delivered" \/ \E w \in Workers : Reporting(w, r)'
  BY DEF SuccessKnown, Reporting
<1>1. ASSUME NEW k \in DOMAIN journal, journal'[i] = journal[k]
      PROVE  fate'[r] = "delivered" \/ \E w \in Workers : Reporting(w, r)'
  <2>1. r = journal[k].relay /\ r \in Relays
    BY <1>1, EntriesTyped
  <2>2. fate[r] = "delivered" \/ \E w \in Workers : Reporting(w, r)
    BY <1>1, <2>1 DEF SuccessKnown
  <2> QED BY <2>1, <2>2, KnownStays
<1>2. ASSUME NEW w \in Workers, Note(w),
             journal'[i] = NoteOf(w, Combine(result[w]))
      PROVE  \E v \in Workers : Reporting(v, r)'
  <2>1. pc'[w] = "report" /\ held' = held /\ result' = result
    BY <1>2 DEF Note, TypeOK
  <2>2. r = held[w].relay /\ Combine(result[w]) = "success"
    BY <1>2 DEF NoteOf
  <2>3. Reporting(w, r)'
    BY <2>1, <2>2 DEF Reporting
  <2> QED BY <2>3
<1>3. ASSUME NEW w \in Workers, NoteAfter(w),
             journal'[i] = NoteOf(w, KindOf(tag[w]))
      PROVE  FALSE
  BY <1>3 DEF NoteOf, KindOf
<1> QED BY <1>1, <1>2, <1>3, JournalGrows

\* What SuccessKnown is for: the fate, or the one worker that holds the relay,
\* leaves no other place for it.
LEMMA KnownIsFinal ==
  ASSUME Core, SuccessKnown
  PROVE  JournalledSuccessIsFinal
<1> SUFFICES ASSUME NEW i \in DOMAIN journal, journal[i].kind = "success"
             PROVE  LET r == journal[i].relay IN
                    /\ ~InReady(r) /\ ~InPlan(r)
                    /\ \A w \in Workers : Owns(w) /\ held[w].relay = r =>
                                             pc[w] = "report"
  BY DEF JournalledSuccessIsFinal
<1> USE DEF Core, Conserved, Conservation
<1> DEFINE r == journal[i].relay
<1>1. r \in Relays
  BY EntriesTyped
<1>2. CASE fate[r] = "delivered"
  BY <1>2 DEF SomewhereIsLive, InReady, InPlan
<1>3. ASSUME NEW w \in Workers, Reporting(w, r)
      PROVE  /\ ~InReady(r) /\ ~InPlan(r)
             /\ \A v \in Workers : Owns(v) /\ held[v].relay = r => pc[v] = "report"
  <2>1. Owns(w) /\ held[w].relay = r /\ pc[w] = "report"
    BY <1>3 DEF Reporting, Owns, Owning, PCs
  <2>2. IsHeld(r)
    BY <2>1 DEF IsHeld
  <2> QED BY <1>1, <2>1, <2>2 DEF NowhereTwice
<1> QED BY <1>2, <1>3 DEF SuccessKnown

\* After "success" is in the journal the relay is in no queue and no plan, and
\* no worker but the one reporting it holds it: it is never posted again.
THEOREM JournalledSuccessCorrect == Spec => []JournalledSuccessIsFinal
<1> DEFINE I == Core /\ SuccessKnown
<1>1. Init => I
  <2>1. Init => SuccessKnown
    BY DEF Init, SuccessKnown
  <2> QED BY <2>1, CoreInductive
<1>2. I /\ [Next]_vars => I'
  BY CoreInductive, NextSuccessKnown DEF Core
<1>3. I => JournalledSuccessIsFinal
  BY KnownIsFinal
<1> QED BY <1>1, <1>2, <1>3, PTL DEF Spec

------------------------------------------------------------------------------
(* No replay loses a dead letter *)

\* A relay that replays r has been enqueued.
Succeeded(r) ==
    \E n \in Relays : replayOf[n] = r /\ fate[n] # "unused" /\ ~InPlan(n)

\* The strengthening: a replay from the dead letter queue plans one relay, that
\* names its target, and it comes to removing the target only after enqueueing.
ReplayPending ==
    \A h \in Handlers :
        /\ handler[h].pc = "enqueue" /\ handler[h].target # NoRelay =>
              \E j \in Job : /\ handler[h].plan = {j}
                             /\ replayOf[j.relay] = handler[h].target
        /\ handler[h].pc = "remove" => Succeeded(handler[h].target)

\* Only unused ids enter a plan, and only they get an origin.
LEMMA OnlyFreshPlanned ==
  ASSUME TypeOK, [Next]_vars
  PROVE  /\ \A g \in Handlers : \A j \in handler'[g].plan :
               j \in handler[g].plan \/ fate[j.relay] = "unused"
         /\ \A n \in Relays : fate[n] # "unused" => replayOf'[n] = replayOf[n]
<1> DEFINE Goal == /\ \A g \in Handlers : \A j \in handler'[g].plan :
                         j \in handler[g].plan \/ fate[j.relay] = "unused"
                   /\ \A n \in Relays : fate[n] # "unused" =>
                         replayOf'[n] = replayOf[n]
<1>1. ASSUME NEW h \in Handlers, NEW x, handler' = [handler EXCEPT ![h] = x],
             \A j \in x.plan : j \in handler[h].plan \/ fate[j.relay] = "unused"
      PROVE  \A g \in Handlers : \A j \in handler'[g].plan :
                j \in handler[g].plan \/ fate[j.relay] = "unused"
  BY <1>1 DEF TypeOK
<1>2. ASSUME NEW h \in Handlers, NEW item, NEW n \in Unused, NEW t, NEW target,
             Replayed(h, item, n, t, target)
      PROVE  Goal
  <2> DEFINE x == [pc |-> "enqueue", target |-> target, at |-> 0,
                   plan |-> {NewJob(n, item.store, t)}]
  <2>1. \A j \in x.plan : fate[j.relay] = "unused"
    BY DEF NewJob, Unused
  <2>2. handler' = [handler EXCEPT ![h] = x]
    BY <1>2 DEF Replayed
  <2>3. \A m \in Relays : fate[m] # "unused" => replayOf'[m] = replayOf[m]
    BY <1>2 DEF Replayed, Unused, TypeOK
  <2> HIDE DEF x
  <2> QED BY <1>1, <2>1, <2>2, <2>3
<1>3. ASSUME NEW h \in Handlers, NEW x, handler' = [handler EXCEPT ![h] = x],
             x.plan = {}, replayOf' = replayOf
      PROVE  Goal
  BY <1>1, <1>3
<1>4. ASSUME NEW h \in Handlers, Ingest(h) PROVE Goal
  <2>0. PICK matched \in SUBSET {s \in Stores : enabled[s]} :
          \E id \in [matched -> Unused] :
              handler' = [handler EXCEPT ![h] =
                  [pc |-> "enqueue", target |-> NoRelay, at |-> 0,
                   plan |-> {NewJob(id[s], s, now) : s \in matched}]]
    BY <1>4 DEF Ingest
  <2>1. PICK id \in [matched -> Unused] :
              handler' = [handler EXCEPT ![h] =
                  [pc |-> "enqueue", target |-> NoRelay, at |-> 0,
                   plan |-> {NewJob(id[s], s, now) : s \in matched}]]
    BY <2>0
  <2> DEFINE x == [pc |-> "enqueue", target |-> NoRelay, at |-> 0,
                   plan |-> {NewJob(id[s], s, now) : s \in matched}]
  <2>2. \A j \in x.plan : fate[j.relay] = "unused"
    BY DEF NewJob, Unused
  <2>3. replayOf' = replayOf /\ handler' = [handler EXCEPT ![h] = x]
    BY <1>4, <2>1 DEF Ingest
  <2> HIDE DEF x
  <2> QED BY <1>1, <2>2, <2>3
<1>5. ASSUME NEW h \in Handlers, NEW r \in Replayable, Replay(h, r) PROVE Goal
  <2>1. CASE \E n \in Unused : Replayed(h, Newest(dlq, r), n, now, r)
    BY <1>2, <2>1
  <2> DEFINE x == [pc |-> "journal", target |-> r, plan |-> {}, at |-> now]
  <2>2. CASE handler' = [handler EXCEPT ![h] = x] /\ replayOf' = replayOf
    <3>1. x.plan = {}
      OBVIOUS
    <3> HIDE DEF x
    <3> QED BY <1>3, <2>2, <3>1
  <2> QED BY <1>5, <2>1, <2>2 DEF Replay
<1>6. ASSUME NEW h \in Handlers, ReplayJournal(h) PROVE Goal
  <2>1. IdleHandler.plan = {}
    BY DEF IdleHandler
  <2> QED BY <1>2, <1>3, <1>6, <2>1 DEF ReplayJournal
<1>7. ASSUME NEW h \in Handlers, Enqueue(h) PROVE Goal
  <2>1. \A g \in Handlers : handler'[g].plan \subseteq handler[g].plan
    BY <1>7 DEF Enqueue, TypeOK, Handler, IdleHandler
  <2> QED BY <1>7, <2>1 DEF Enqueue, history
<1>8. ASSUME NEW h \in Handlers, DropDead(h) PROVE Goal
  <2>1. IdleHandler.plan = {} /\ replayOf' = replayOf
    BY <1>8 DEF IdleHandler, DropDead, history
  <2> QED BY <1>3, <1>8, <2>1 DEF DropDead
<1>9. CASE UNCHANGED <<handler, replayOf>>
  BY <1>9
<1> QED
  BY <1>4, <1>5, <1>6, <1>7, <1>8, <1>9
     DEF Next, Around, WorkerStep, Lease, GetStore, Allow, Take, Answer, Note, Report,
         Requeue, Bury, NoteAfter, Release, SetEnabled, Poll, Tick, vars, history

\* A replay that has been enqueued stays so.
LEMMA SucceededStays ==
  ASSUME TypeOK, [Next]_vars, NEW r, Succeeded(r)
  PROVE  Succeeded(r)'
<1>1. PICK n \in Relays : replayOf[n] = r /\ fate[n] # "unused" /\ ~InPlan(n)
  BY DEF Succeeded
<1>2. replayOf'[n] = r /\ fate'[n] # "unused"
  BY <1>1, OnlyFreshPlanned, FateStays
<1>3. ~InPlan(n)'
  BY <1>1, OnlyFreshPlanned DEF InPlan
<1> QED BY <1>2, <1>3 DEF Succeeded

\* ReplayPending is inductive: App.Replay enqueues before it removes.
LEMMA NextReplayPending ==
  ASSUME TypeOK, TypeOK', Conserved, Conserved', ReplayPending, [Next]_vars
  PROVE  ReplayPending'
<1> SUFFICES ASSUME NEW g \in Handlers
             PROVE  /\ handler'[g].pc = "enqueue" /\ handler'[g].target # NoRelay =>
                          \E j \in Job : /\ handler'[g].plan = {j}
                                         /\ replayOf'[j.relay] = handler'[g].target
                    /\ handler'[g].pc = "remove" => Succeeded(handler[g].target)'
  BY DEF ReplayPending, Succeeded
<1> DEFINE P == handler'[g].pc = "enqueue" /\ handler'[g].target # NoRelay =>
                   \E j \in Job : /\ handler'[g].plan = {j}
                                  /\ replayOf'[j.relay] = handler'[g].target
           R == handler'[g].pc = "remove" => Succeeded(handler[g].target)'
<1>1. ASSUME handler'[g] = handler[g] PROVE P /\ R
  <2>1. P
    <3>1. \A j \in handler[g].plan :
            j.relay \in Relays /\ fate[j.relay] # "unused"
      BY DEF TypeOK, Handler, Job, Conserved, Conservation, SomewhereIsLive
    <3> QED BY <1>1, <3>1, OnlyFreshPlanned DEF ReplayPending
  <2>2. R
    <3>1. ASSUME NEW r, r = handler[g].target, Succeeded(r)
          PROVE  Succeeded(handler[g].target)'
      <4>1. Succeeded(r)'
        BY <3>1, SucceededStays
      <4> QED BY <1>1, <3>1, <4>1 DEF Succeeded
    <3> QED BY <1>1, <3>1 DEF ReplayPending
  <2> QED BY <2>1, <2>2
<1>2. ASSUME NEW r \in Replayable, Replay(g, r) PROVE P /\ R
  <2>1. CASE Mentions(dlq, r)
    <3>1. PICK n \in Unused : Replayed(g, Newest(dlq, r), n, now, r)
      BY <1>2, <2>1 DEF Replay
    <3>2. Newest(dlq, r) \in DeadItem /\ Newest(dlq, r).relay = r
      BY <2>1, NewestProperties DEF TypeOK
    <3> DEFINE j == NewJob(n, Newest(dlq, r).store, now)
    <3>3. j \in Job /\ j.relay = n
      BY <3>2, NewJobType DEF DeadItem, Unused, TypeOK, Time, NewJob
    <3>4. /\ handler'[g].pc = "enqueue" /\ handler'[g].plan = {j}
          /\ handler'[g].target = r /\ replayOf'[n] = r
      BY <3>1, <3>2 DEF Replayed, TypeOK, Unused
    <3> HIDE DEF j
    <3> QED BY <3>3, <3>4
  <2>2. CASE ~Mentions(dlq, r)
    BY <1>2, <2>2 DEF Replay, TypeOK
  <2> QED BY <2>1, <2>2
<1>3. ASSUME Ingest(g) \/ ReplayJournal(g) \/ DropDead(g) PROVE P /\ R
  <2>1. handler'[g].pc # "remove" /\ handler'[g].target = NoRelay
    BY <1>3 DEF Ingest, ReplayJournal, DropDead, Replayed, IdleHandler, TypeOK
  <2> QED BY <2>1
<1>4. ASSUME Enqueue(g) PROVE P /\ R
  <2>1. PICK j \in handler[g].plan :
          LET rest == handler[g].plan \ {j} IN
          /\ ready' = ready \cup {j}
          /\ handler' = [handler EXCEPT ![g] =
                IF rest # {} THEN [@ EXCEPT !.plan = rest]
                ELSE IF @.target # NoRelay
                     THEN [@ EXCEPT !.plan = rest, !.pc = "remove"]
                ELSE IdleHandler]
    BY <1>4 DEF Enqueue
  <2>2. handler[g] \in Handler /\ handler[g].pc = "enqueue"
    BY <1>4 DEF TypeOK, Enqueue
  <2>3. CASE handler[g].target = NoRelay
    <3>1. handler'[g].target = NoRelay /\ handler'[g].pc # "remove"
      BY <2>1, <2>2, <2>3 DEF TypeOK, Handler, IdleHandler
    <3> QED BY <3>1
  <2>4. CASE handler[g].target # NoRelay
    <3>1. handler[g].plan = {j} /\ replayOf[j.relay] = handler[g].target
      BY <2>2, <2>4 DEF ReplayPending
    <3>2. handler[g].plan \ {j} = {}
      BY <3>1
    <3>3. handler' = [handler EXCEPT ![g] = [@ EXCEPT !.plan = {}, !.pc = "remove"]]
      BY <2>1, <2>4, <3>2
    <3>4. handler'[g].pc = "remove" /\ handler'[g].target = handler[g].target
      BY <2>2, <3>3 DEF TypeOK, Handler
    <3>5. j.relay \in Relays /\ fate[j.relay] = "live"
      BY DEF TypeOK, Handler, Job, Conserved, Conservation, SomewhereIsLive
    <3>6. InReady(j.relay)'
      BY <2>1 DEF InReady
    <3>7. ~InPlan(j.relay)'
      <4>1. PICK r \in Relays : r = j.relay
        BY <3>5
      <4>2. InReady(r)' => ~InPlan(r)'
        BY DEF Conserved, Conservation, NowhereTwice
      <4> QED BY <3>6, <4>1, <4>2
    <3>8. UNCHANGED <<fate, replayOf>>
      BY <1>4 DEF Enqueue, history
    <3>9. Succeeded(handler[g].target)'
      BY <3>1, <3>4, <3>5, <3>7, <3>8 DEF Succeeded
    <3> QED BY <3>4, <3>9
  <2> QED BY <2>3, <2>4
<1>5. ASSUME NEW h \in Handlers,
             \/ Ingest(h) \/ ReplayJournal(h) \/ Enqueue(h) \/ DropDead(h)
             \/ \E r \in Replayable : Replay(h, r)
      PROVE  h # g => handler'[g] = handler[g]
  BY <1>5 DEF Ingest, ReplayJournal, Enqueue, DropDead, Replay, Replayed, TypeOK
<1>6. \/ \E h \in Handlers :
            \/ Ingest(h) \/ ReplayJournal(h) \/ Enqueue(h) \/ DropDead(h)
            \/ \E r \in Replayable : Replay(h, r)
      \/ handler' = handler
  BY DEF Next, Around, WorkerStep, Lease, GetStore, Allow, Take, Answer, Note, Report,
         Requeue, Bury, NoteAfter, Release, SetEnabled, Poll, Tick, vars
<1> QED BY <1>1, <1>2, <1>3, <1>4, <1>5, <1>6

\* A removal takes no item but its target's.
LEMMA RemoveOnlyTarget ==
  ASSUME NEW S, NEW q \in Seq(S), NEW r, NEW x,
         Mentions(q, r), ~Mentions(RemoveDead(q, x), r)
  PROVE  r = x
<1> SUFFICES ASSUME r # x PROVE FALSE
  OBVIOUS
<1>1. CASE ~Mentions(q, x)
  <2>1. RemoveDead(q, x) = q
    BY <1>1 DEF RemoveDead, RemoveFirstMatch, Mentions
  <2> QED BY <2>1
<1>2. CASE Mentions(q, x)
  <2> DEFINE u == RemoveDead(q, x)
  <2>1. PICK m \in 1..Len(q) :
          /\ q[m].relay = x
          /\ u \in Seq(S) /\ Len(u) = Len(q) - 1
          /\ \A i \in 1..(Len(q) - 1) : u[i] = IF i < m THEN q[i] ELSE q[i + 1]
    BY <1>2, RemoveDeadShape
  <2>2. DOMAIN u = 1..(Len(q) - 1) /\ DOMAIN q = 1..Len(q) /\ Len(q) \in Nat
    BY <2>1, ItemsTyped
  <2>3. ~Mentions(u, r)
    OBVIOUS
  <2> HIDE DEF u
  <2>4. PICK k \in 1..Len(q) : q[k].relay = r
    BY <2>2 DEF Mentions
  <2>5. k # m
    BY <2>1, <2>4
  <2>6. CASE k < m
    <3>1. k \in DOMAIN u /\ u[k] = q[k]
      BY <2>1, <2>2, <2>6
    <3> QED BY <2>3, <2>4, <3>1 DEF Mentions
  <2>7. CASE k > m
    <3>1. k - 1 \in 1..(Len(q) - 1) /\ ~(k - 1 < m) /\ (k - 1) + 1 = k
      BY <2>1, <2>2, <2>7
    <3>2. k - 1 \in DOMAIN u /\ u[k - 1] = q[k]
      BY <2>1, <2>2, <3>1
    <3> QED BY <2>3, <2>4, <3>2 DEF Mentions
  <2> QED BY <2>1, <2>5, <2>6, <2>7
<1> QED BY <1>1, <1>2

\* A push drops nothing below the cap, and at the cap the oldest only.
LEMMA PushDropsOldest ==
  ASSUME NEW S, NEW q \in Seq(S), NEW x \in S, NEW max \in Nat \ {0},
         Len(q) <= max, NEW r, Mentions(q, r), ~Mentions(Push(q, x, max), r)
  PROVE  Len(q) = max /\ Len(Push(q, x, max)) = max /\ q[1].relay = r
<1> DEFINE p == Push(q, x, max)
<1>1. DOMAIN q = 1..Len(q) /\ Len(q) \in Nat
  BY ItemsTyped
<1>2. p \in Seq(S) /\ ~Mentions(p, r)
  BY PushProperties
<1>3. DOMAIN p = 1..Len(p)
  BY <1>2, ItemsTyped
<1>4. /\ Len(q) < max => /\ Len(p) = Len(q) + 1
                         /\ \A i \in 1..Len(q) : p[i] = q[i]
      /\ Len(q) = max => /\ Len(p) = max
                         /\ \A i \in 1..(max - 1) : p[i] = q[i + 1]
  BY PushShape
<1> HIDE DEF p
<1>5. PICK k \in 1..Len(q) : q[k].relay = r
  BY <1>1 DEF Mentions
<1>6. CASE Len(q) < max
  <2>1. Len(p) = Len(q) + 1 /\ p[k] = q[k]
    BY <1>4, <1>6
  <2>2. k \in DOMAIN p
    BY <1>1, <1>3, <2>1
  <2> QED BY <1>2, <1>5, <2>1, <2>2 DEF Mentions
<1>7. CASE Len(q) = max
  <2>1. Len(p) = max /\ \A i \in 1..(max - 1) : p[i] = q[i + 1]
    BY <1>4, <1>7
  <2>2. ASSUME k # 1 PROVE FALSE
    <3>1. k - 1 \in 1..(max - 1) /\ (k - 1) + 1 = k /\ k - 1 \in 1..max
      BY <1>7, <2>2
    <3>2. k - 1 \in DOMAIN p /\ p[k - 1] = q[k]
      BY <1>3, <2>1, <3>1
    <3> QED BY <1>2, <1>5, <3>2 DEF Mentions
  <2> QED BY <1>5, <1>7, <2>1, <2>2 DEF p
<1>8. Len(q) < max \/ Len(q) = max
  <2>1. \A m, n \in Nat : m <= n => m < n \/ m = n
    OBVIOUS
  <2> QED BY <1>1, <2>1
<1> QED BY <1>6, <1>7, <1>8

\* A dead letter leaves the queue as the oldest of a full one, or after a replay
\* of it has been enqueued, for any number of concurrent replays and workers.
THEOREM DeadLetterKeptCorrect == Spec => DeadLetterKept
<1> DEFINE I == Core /\ DeadDistinct /\ ReplayPending
           A == \A r \in Relays : Mentions(dlq, r) /\ ~Mentions(dlq', r) =>
                   \/ Len(dlq) = DLQMax /\ Len(dlq') = DLQMax /\ dlq[1].relay = r
                   \/ \E n \in Relays : /\ replayOf[n] = r
                                        /\ fate[n] # "unused"
                                        /\ ~InPlan(n)
<1>1. Init => I
  <2>1. Init => DeadDistinct
    BY RelayAssumption DEF Init, DeadDistinct, Distinct
  <2>2. Init => ReplayPending
    BY DEF Init, ReplayPending, IdleHandler
  <2> QED BY <2>1, <2>2, CoreInductive
<1>2. I /\ [Next]_vars => I'
  <2>1. I /\ [Next]_vars => Core' /\ DeadDistinct'
    BY CoreInductive, NextDeadDistinct DEF Core
  <2> QED BY <2>1, NextReplayPending DEF Core
<1>3. I /\ [Next]_vars => A \/ UNCHANGED vars
  <2> SUFFICES ASSUME I, [Next]_vars, NEW r \in Relays,
                      Mentions(dlq, r), ~Mentions(dlq', r)
               PROVE  \/ Len(dlq) = DLQMax /\ Len(dlq') = DLQMax /\ dlq[1].relay = r
                      \/ Succeeded(r)
    BY DEF Succeeded
  <2>1. dlq \in Seq(DeadItem) /\ Len(dlq) <= DLQMax
    BY DEF Core, TypeOK, DeadDistinct
  <2>2. ASSUME NEW w \in Workers, Bury(w)
        PROVE  Len(dlq) = DLQMax /\ Len(dlq') = DLQMax /\ dlq[1].relay = r
    <3> DEFINE x == [relay |-> held[w].relay, store |-> held[w].store,
                     attempt |-> held[w].attempt]
    <3>1. x \in DeadItem /\ dlq' = Push(dlq, x, DLQMax)
      BY <2>2 DEF Bury, Core, TypeOK, Job, DeadItem
    <3> HIDE DEF x
    <3> QED BY <2>1, <3>1, PushDropsOldest, RelayAssumption
  <2>3. ASSUME NEW h \in Handlers, DropDead(h) PROVE Succeeded(r)
    <3>1. dlq' = RemoveDead(dlq, handler[h].target) /\ handler[h].pc = "remove"
      BY <2>3 DEF DropDead
    <3>2. r = handler[h].target
      BY <2>1, <3>1, RemoveOnlyTarget
    <3> QED BY <3>1, <3>2 DEF ReplayPending
  <2>4. CASE dlq' = dlq
    BY <2>4
  <2> QED
    BY <2>2, <2>3, <2>4
       DEF Next, Around, WorkerStep, Lease, GetStore, Allow, Take, Answer, Note, Report,
           Requeue, NoteAfter, Release, Ingest, ReplayJournal, Replay, Enqueue,
           SetEnabled, Poll, Tick, vars, logVars
<1> QED BY <1>1, <1>2, <1>3, PTL DEF Spec, DeadLetterKept
==============================================================================
