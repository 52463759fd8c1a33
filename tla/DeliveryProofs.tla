--------------------------- MODULE DeliveryProofs ---------------------------
(***************************************************************************)
(* The relay core implements the promise of module Delivery, for every     *)
(* number of workers, handlers, stores and relays and every setting.       *)
(***************************************************************************)
EXTENDS RelayProofs

\* What the promise's guards need beyond the counts: a worker with a POST
\* behind it has counted it, and a replay that searches the journal searches
\* for a relay that was accepted once.
Prepared ==
    /\ \A w \in Workers : pc[w] \in {"post", "note", "report"} => held[w].attempt >= 1
    /\ \A h \in Handlers : handler[h].pc = "journal" =>
          handler[h].target \in Relays /\ fate[handler[h].target] # "unused"

\* A relay that has been accepted stays accepted.
LEMMA FateStays ==
  ASSUME TypeOK, [Next]_vars, NEW r \in Relays, fate[r] # "unused"
  PROVE  fate'[r] # "unused"
<1>1. ASSUME NEW w \in Workers, WorkerStep(w) PROVE fate'[r] # "unused"
  <2>1. CASE Report(w) \/ Bury(w)
    BY <2>1 DEF Report, Bury, TypeOK
  <2>2. CASE fate' = fate
    BY <2>2
  <2> QED
    BY <1>1, <2>1, <2>2 DEF WorkerStep, Lease, GetStore, Allow, Take, Answer, Note,
       Requeue, NoteAfter, Release, history
<1>2. ASSUME NEW h \in Handlers, Ingest(h) PROVE fate'[r] # "unused"
  BY <1>2 DEF Ingest
<1>3. ASSUME NEW h \in Handlers, NEW item, NEW n \in Unused, NEW t, NEW target,
             Replayed(h, item, n, t, target)
      PROVE  fate'[r] # "unused"
  BY <1>3 DEF Replayed, TypeOK
<1>4. ASSUME NEW h \in Handlers, ReplayJournal(h) PROVE fate'[r] # "unused"
  BY <1>3, <1>4 DEF ReplayJournal
<1>5. ASSUME NEW h \in Handlers, NEW x \in Replayable, Replay(h, x)
      PROVE  fate'[r] # "unused"
  BY <1>3, <1>5 DEF Replay
<1>6. CASE fate' = fate
  BY <1>6
<1> QED
  BY <1>1, <1>2, <1>4, <1>5, <1>6
     DEF Next, Around, Enqueue, DropDead, SetEnabled, Poll, Tick, vars, history

\* The worker's half of Prepared: Take counts the attempt of the POST it starts.
LEMMA WorkerPrepared ==
  ASSUME TypeOK, Prepared, NEW w \in Workers, WorkerStep(w)
  PROVE  \A v \in Workers : pc'[v] \in {"post", "note", "report"} =>
                               held'[v].attempt >= 1
<1>1. \A v \in Workers : v # w => pc'[v] = pc[v] /\ held'[v] = held[v]
  <2>1. DOMAIN pc = Workers /\ DOMAIN held = Workers
    BY DEF TypeOK
  <2>2. \A v \in Workers : v # w => pc'[v] = pc[v]
    BY <2>1 DEF WorkerStep, Lease, GetStore, Allow, Take, Answer, Note, Report,
                Requeue, Bury, NoteAfter, Release
  <2>3. \A v \in Workers : v # w => held'[v] = held[v]
    BY <2>1 DEF WorkerStep, Lease, GetStore, Allow, Take, Answer, Note, Report,
                Requeue, Bury, NoteAfter, Release
  <2> QED BY <2>2, <2>3
<1>2. CASE Take(w)
  <2>1. held[w] \in Job /\ held[w].attempt \in Nat
    BY <1>2 DEF Take, TypeOK, Job
  <2>2. pc'[w] = "post" => held'[w].attempt = held[w].attempt + 1
    BY <1>2, <2>1 DEF Take, TypeOK, Job
  <2>3. pc'[w] \in {"post", "requeue"}
    BY <1>2 DEF Take, TypeOK
  <2> QED BY <1>1, <2>1, <2>2, <2>3 DEF Prepared
<1>3. CASE Answer(w) \/ Note(w)
  <2>1. held' = held /\ pc[w] \in {"post", "note"}
    BY <1>3 DEF Answer, Note
  <2> QED BY <1>1, <2>1 DEF Prepared
<1>4. CASE pc'[w] \notin {"post", "note", "report"}
  BY <1>1, <1>4 DEF Prepared
<1>5. \/ Take(w) \/ Answer(w) \/ Note(w) \/ pc'[w] \notin {"post", "note", "report"}
  BY DEF TypeOK, WorkerStep, Lease, GetStore, Allow, Report, Requeue, Bury,
         NoteAfter, Release, AfterMove
<1> QED BY <1>2, <1>3, <1>4, <1>5

\* The handler's half: App.Replay goes on to the journal with the id it was
\* asked for, and nothing else sends a handler there.
LEMMA HandlerPrepared ==
  ASSUME TypeOK, Prepared, [Next]_vars, NEW g \in Handlers,
         handler'[g].pc = "journal"
  PROVE  handler'[g].target \in Relays /\ fate'[handler'[g].target] # "unused"
<1>1. CASE handler'[g] = handler[g]
  BY <1>1, FateStays DEF Prepared
<1>2. ASSUME NEW r \in Replayable, Replay(g, r), handler'[g] # handler[g]
      PROVE  handler'[g].target \in Relays /\ fate'[handler'[g].target] # "unused"
  <2>1. handler'[g].target = r /\ fate[r] # "unused" /\ r \in Relays
    BY <1>2, RelayAssumption DEF Replay, Replayed, TypeOK
  <2> QED BY <2>1, FateStays
<1>3. ASSUME NEW h \in Handlers,
             \/ Ingest(h) \/ ReplayJournal(h) \/ Enqueue(h) \/ DropDead(h)
             \/ \E r \in Replayable : Replay(h, r)
      PROVE  h # g => handler'[g] = handler[g]
  BY <1>3 DEF Ingest, ReplayJournal, Enqueue, DropDead, Replay, Replayed, TypeOK
<1>4. ASSUME Ingest(g) \/ ReplayJournal(g) \/ DropDead(g) PROVE FALSE
  BY <1>4 DEF Ingest, ReplayJournal, DropDead, Replayed, IdleHandler, TypeOK
<1>5. ASSUME Enqueue(g) PROVE FALSE
  <2>1. handler[g] \in Handler /\ handler[g].pc = "enqueue"
    BY <1>5 DEF Enqueue, TypeOK
  <2>2. handler'[g].pc \in {"enqueue", "remove", "idle"}
    BY <1>5, <2>1 DEF Enqueue, TypeOK, Handler, IdleHandler
  <2> QED BY <2>2
<1>6. \/ \E h \in Handlers :
            \/ Ingest(h) \/ ReplayJournal(h) \/ Enqueue(h) \/ DropDead(h)
            \/ \E r \in Replayable : Replay(h, r)
      \/ handler' = handler
  BY DEF Next, Around, WorkerStep, Lease, GetStore, Allow, Take, Answer, Note, Report,
         Requeue, Bury, NoteAfter, Release, SetEnabled, Poll, Tick, vars
<1> QED BY <1>1, <1>2, <1>3, <1>4, <1>5, <1>6

\* Prepared is inductive.
LEMMA NextPrepared ==
  ASSUME TypeOK, Prepared, [Next]_vars
  PROVE  Prepared'
<1>1. \A v \in Workers : pc'[v] \in {"post", "note", "report"} =>
                            held'[v].attempt >= 1
  <2>1. CASE \E w \in Workers : WorkerStep(w)
    BY <2>1, WorkerPrepared
  <2>2. CASE UNCHANGED <<pc, held>>
    BY <2>2 DEF Prepared
  <2> QED BY <2>1, <2>2 DEF Next, Around, Ingest, ReplayJournal, Enqueue, DropDead, Replay,
             SetEnabled, Poll, Tick, vars, workerVars
<1> QED BY <1>1, HandlerPrepared DEF Prepared

------------------------------------------------------------------------------
(* Each step is a step of the promise or leaves it alone. *)

\* What a worker does to a relay it may do: it is live, has a POST left before
\* it is tried and one behind it when it is delivered.
LEMMA WorkerKeepsPromise ==
  ASSUME TypeOK, Conserved, Attempts, Prepared, NEW w \in Workers, WorkerStep(w)
  PROVE  Promise!Next \/ UNCHANGED Promise!promise
<1> DEFINE r == held[w].relay
<1>1. pc[w] \in Owning => /\ held[w] \in Job /\ r \in Relays /\ fate[r] = "live"
                          /\ held[w].attempt = posts[r]
  BY DEF TypeOK, Job, Owning, Owns, Conserved, Conservation, SomewhereIsLive,
         Attempts, AttemptsArePosts
<1>2. CASE Take(w) /\ posts' # posts
  <2>1. pc[w] \in Owning /\ pc[w] \in Fresh
    BY <1>2 DEF Take, Owning, PCs, Fresh
  <2>2. posts[r] < MaxAttempts
    BY <1>1, <2>1 DEF Attempts, AttemptsLeft
  <2>3. posts' = [posts EXCEPT ![r] = @ + 1] /\ UNCHANGED <<fate, replayOf>>
    BY <1>2 DEF Take
  <2>4. Promise!Try(r)
    BY <1>1, <2>1, <2>2, <2>3 DEF Promise!Try
  <2> QED BY <1>1, <2>1, <2>4 DEF Promise!Next
<1>3. CASE Report(w) /\ fate' # fate
  <2>1. pc[w] \in Owning /\ held[w].attempt >= 1
    BY <1>3 DEF Report, Owning, PCs, Prepared
  <2>2. /\ fate' = [fate EXCEPT ![r] = "delivered"]
        /\ UNCHANGED <<posts, replayOf>>
    BY <1>3 DEF Report
  <2>3. posts[r] \in Nat /\ posts[r] >= 1
    BY <1>1, <2>1 DEF TypeOK
  <2>4. Promise!Deliver(r)
    BY <1>1, <2>1, <2>2, <2>3 DEF Promise!Deliver
  <2> QED BY <1>1, <2>1, <2>4 DEF Promise!Next
<1>4. CASE Bury(w)
  <2>1. pc[w] \in Owning
    BY <1>4 DEF Bury, Owning, PCs
  <2>2. /\ fate' = [fate EXCEPT ![r] = "dead"]
        /\ UNCHANGED <<posts, replayOf>>
    BY <1>4 DEF Bury
  <2>3. Promise!GiveUp(r)
    BY <1>1, <2>1, <2>2 DEF Promise!GiveUp
  <2> QED BY <1>1, <2>1, <2>3 DEF Promise!Next
<1>5. CASE UNCHANGED <<fate, posts, replayOf>>
  BY <1>5 DEF Promise!promise
<1>6. CASE Take(w)
  BY <1>2, <1>5, <1>6 DEF Take
<1>7. CASE Report(w)
  BY <1>3, <1>5, <1>7 DEF Report
<1> QED
  BY <1>4, <1>5, <1>6, <1>7 DEF WorkerStep, Lease, GetStore, Allow, Answer, Note,
     Requeue, NoteAfter, Release, history

\* Ingestion accepts the relays it has minted.
LEMMA IngestKeepsPromise ==
  ASSUME TypeOK, NEW h \in Handlers, Ingest(h)
  PROVE  Promise!Next
<1>1. PICK matched \in SUBSET {s \in Stores : enabled[s]} :
        /\ matched # {}
        /\ \E id \in [matched -> Unused] :
              fate' = [r \in Relays |->
                  IF \E s \in matched : id[s] = r THEN "live" ELSE fate[r]]
  BY DEF Ingest
<1>2. PICK id \in [matched -> Unused] :
              fate' = [r \in Relays |->
                  IF \E s \in matched : id[s] = r THEN "live" ELSE fate[r]]
  BY <1>1
<1> DEFINE R == {id[s] : s \in matched}
<1>3. R # {} /\ R \in SUBSET Relays /\ \A r \in R : fate[r] = "unused"
  BY <1>1, <1>2 DEF Unused
<1>4. fate' = [r \in Relays |-> IF r \in R THEN "live" ELSE fate[r]]
  BY <1>2
<1>5. UNCHANGED <<posts, replayOf>>
  BY DEF Ingest
<1> HIDE DEF R
<1>6. Promise!Accept(R)
  BY <1>3, <1>4, <1>5 DEF Promise!Accept
<1> QED BY <1>3, <1>6 DEF Promise!Next

\* A replay reissues the relay it names.
LEMMA ReplayedKeepsPromise ==
  ASSUME NEW h \in Handlers, NEW item, NEW n \in Unused, NEW t, NEW target,
         Replayed(h, item, n, t, target), posts' = posts,
         item.relay \in Relays, fate[item.relay] # "unused"
  PROVE  Promise!Next
<1>1. n \in Relays /\ Promise!Reissue(n, item.relay)
  BY DEF Unused, Replayed, Promise!Reissue
<1> QED BY <1>1 DEF Promise!Next

\* Both lookups of a replay.
LEMMA ReplayKeepsPromise ==
  ASSUME TypeOK, Prepared, NEW h \in Handlers,
         \/ ReplayJournal(h)
         \/ \E r \in Replayable : Replay(h, r)
  PROVE  Promise!Next \/ UNCHANGED Promise!promise
<1>1. posts' = posts
  BY DEF ReplayJournal, Replay
<1>2. CASE UNCHANGED <<fate, replayOf>>
  BY <1>1, <1>2 DEF Promise!promise
<1>3. ASSUME NEW r \in Replayable, Replay(h, r), ~UNCHANGED <<fate, replayOf>>
      PROVE  Promise!Next
  <2>1. PICK n \in Unused : Replayed(h, Newest(dlq, r), n, now, r)
    BY <1>3 DEF Replay
  <2>2. Mentions(dlq, r) /\ fate[r] # "unused" /\ r \in Relays
    BY <1>3, RelayAssumption DEF Replay
  <2>3. Newest(dlq, r).relay = r
    BY <2>2, NewestProperties DEF TypeOK
  <2> QED BY <1>1, <2>1, <2>2, <2>3, ReplayedKeepsPromise
<1>4. ASSUME ReplayJournal(h), ~UNCHANGED <<fate, replayOf>>
      PROVE  Promise!Next
  <2> DEFINE r == handler[h].target
  <2>1. PICK n \in Unused :
          Replayed(h, Newest(journal, r), n, handler[h].at, NoRelay)
    BY <1>4 DEF ReplayJournal
  <2>2. Mentions(journal, r) /\ r \in Relays /\ fate[r] # "unused"
    BY <1>4 DEF ReplayJournal, Prepared
  <2>3. Newest(journal, r).relay = r
    BY <2>2, NewestProperties DEF TypeOK
  <2> QED BY <1>1, <2>1, <2>2, <2>3, ReplayedKeepsPromise
<1> QED BY <1>2, <1>3, <1>4

\* Step simulation.
LEMMA NextKeepsPromise ==
  ASSUME TypeOK, Conserved, Attempts, Prepared, [Next]_vars
  PROVE  [Promise!Next]_(Promise!promise)
<1>1. ASSUME NEW w \in Workers, WorkerStep(w)
      PROVE  [Promise!Next]_(Promise!promise)
  BY <1>1, WorkerKeepsPromise
<1>2. ASSUME NEW h \in Handlers,
             \/ Ingest(h) \/ ReplayJournal(h)
             \/ \E r \in Replayable : Replay(h, r)
      PROVE  [Promise!Next]_(Promise!promise)
  BY <1>2, IngestKeepsPromise, ReplayKeepsPromise
<1>3. CASE UNCHANGED <<fate, posts, replayOf>>
  BY <1>3 DEF Promise!promise
<1> QED
  BY <1>1, <1>2, <1>3 DEF Next, Around, Enqueue, DropDead, SetEnabled, Poll, Tick, vars, history

\* The relay core refines the promise of module Delivery: whatever workers,
\* handlers, breakers and the operator do, a relay is settled once, after at
\* most MaxAttempts POSTs, delivered only after one, and reissued as a new one.
THEOREM DeliveryRefined == Spec => RefinesDelivery
<1> DEFINE I == TypeOK /\ BreakersOK /\ Conserved /\ Attempts /\ Prepared
<1>1. Init => I
  <2>1. Init => Prepared
    BY DEF Init, Prepared, IdleHandler
  <2> QED BY <2>1, InitType, InitConserves, InitAttempts, NewBreakerOK
             DEF Init, BreakersOK
<1>2. I /\ [Next]_vars => I'
  BY NextType, NextBreakers, NextConserves, NextAttempts, NextPrepared
<1>3. Init => Promise!Init
  BY DEF Init, Promise!Init
<1>4. I /\ [Next]_vars => [Promise!Next]_(Promise!promise)
  BY NextKeepsPromise
<1> QED BY <1>1, <1>2, <1>3, <1>4, PTL DEF Spec, RefinesDelivery, Promise!Spec
==============================================================================
