---------------------------- MODULE RecoveryProofs ----------------------------
(***************************************************************************)
(* What the relay core guarantees survives crashes and restarts, because   *)
(* the file never has a relay in two states although Capture reads it from *)
(* a process that keeps working.  For any number of workers, handlers,     *)
(* stores, relays and restarts.                                            *)
(***************************************************************************)
EXTENDS Recovery, LogProofs

------------------------------------------------------------------------------
(* The inductive invariant *)

\* A snapshot a process can be started from.
Sound(snap) ==
    /\ snap \in Snapshot
    /\ Coherent(snap)
    /\ \A s \in Stores : BreakerShape(snap.breaker[s])
    /\ \A j \in snap.jobs : j.attempt < MaxAttempts
    /\ \A i \in DOMAIN snap.dead : snap.dead[i].attempt <= MaxAttempts
    /\ \A j \in snap.jobs : snap.posts[j.relay] = j.attempt
    /\ \A i \in DOMAIN snap.dead : snap.posts[snap.dead[i].relay] = snap.dead[i].attempt
    /\ Len(snap.dead) <= DLQMax

\* What the saver has read so far is settled: nothing is read before its turn,
\* the successes it has seen and the dead letters it has stay what they are,
\* so that the queues, read last, have none of them.
SaverTrue ==
    /\ Sound(saver.part)
    /\ saver.at <= 2 => saver.part.journal = <<>>
    /\ saver.at <= 3 => saver.part.dead = <<>>
    /\ saver.at <= 4 => saver.part.jobs = {}
    /\ \A r \in Relays : NotedSuccess(saver.part, r) => KnownSuccess(r)
    /\ \A i \in DOMAIN saver.part.dead : fate[saver.part.dead[i].relay] = "dead"

CoreInv == Core /\ InFlightExact /\ DeadDistinct /\ SuccessKnown

RecoveryInv == CoreInv /\ RecoveryTypeOK /\ Sound(file) /\ SaverTrue

------------------------------------------------------------------------------
(* Steps of a running process *)

\* Every step but a start of the process is a step of the relay core or leaves
\* it alone.
LEMMA StepKinds ==
  ASSUME [RecoveryNext]_allVars
  PROVE  [Next]_vars \/ Boot
  BY DEF RecoveryNext, allVars, Work, Rest, StartSave, Capture, CaptureGate, Write,
         Signal, Exit, Crash, Restart, Next, Around, Poll

\* CoreInv is inductive for the relay core.
LEMMA CoreStep == ASSUME CoreInv, [Next]_vars PROVE CoreInv'
  BY CoreInductive, NextCounts, NextDeadDistinct, NextSuccessKnown DEF CoreInv, Core

\* A settled or lost relay stays what it is while the process runs.
LEMMA EndedStays ==
  ASSUME TypeOK, Conserved, [Next]_vars, NEW r \in Relays,
         fate[r] \notin {"live", "unused"}
  PROVE  fate'[r] = fate[r]
<1>1. ASSUME NEW w \in Workers, Report(w) \/ Bury(w) PROVE fate'[r] = fate[r]
  <2>1. held[w].relay # r
    BY <1>1 DEF Report, Bury, Owns, Owning, PCs, Conserved, Conservation,
                SomewhereIsLive
  <2> QED BY <1>1, <2>1 DEF Report, Bury, TypeOK
<1>2. ASSUME NEW h \in Handlers, Ingest(h) PROVE fate'[r] = fate[r]
  BY <1>2 DEF Ingest, Unused
<1>3. ASSUME NEW h \in Handlers, NEW item, NEW n \in Unused, NEW t, NEW target,
             Replayed(h, item, n, t, target)
      PROVE  fate'[r] = fate[r]
  BY <1>3 DEF Replayed, Unused, TypeOK
<1>4. ASSUME NEW h \in Handlers, ReplayJournal(h) PROVE fate'[r] = fate[r]
  BY <1>3, <1>4 DEF ReplayJournal
<1>5. ASSUME NEW h \in Handlers, NEW x \in Replayable, Replay(h, x)
      PROVE  fate'[r] = fate[r]
  BY <1>3, <1>5 DEF Replay
<1>6. CASE fate' = fate
  BY <1>6
<1> QED
  BY <1>1, <1>2, <1>4, <1>5, <1>6
     DEF Next, Around, WorkerStep, Lease, GetStore, Allow, Take, Answer, Note,
         Requeue, NoteAfter, Release, Enqueue, DropDead, SetEnabled, Poll, Tick,
         vars, history

\* Types of the items of a snapshot.
LEMMA SnapshotItems ==
  ASSUME NEW snap \in Snapshot
  PROVE  /\ snap.dead \in Seq(DeadItem) /\ snap.journal \in Seq(Entry)
         /\ \A i \in DOMAIN snap.dead : snap.dead[i] \in DeadItem
         /\ \A i \in DOMAIN snap.journal : snap.journal[i] \in Entry
         /\ snap.jobs \subseteq Job
<1>1. /\ snap.dead \in Seq(DeadItem) /\ snap.journal \in Seq(Entry)
      /\ snap.jobs \subseteq Job
  BY DEF Snapshot
<1> QED BY <1>1, ItemsTyped

\* What the saver has read stays true while others work.
LEMMA SaverFrame ==
  ASSUME CoreInv, SaverTrue, [Next]_vars, saver' = saver
  PROVE  SaverTrue'
<1>1. TypeOK /\ Conserved
  BY DEF CoreInv, Core
<1> DEFINE part == saver.part
<1>2. part \in Snapshot
  BY DEF SaverTrue, Sound
<1>3. \A r \in Relays : NotedSuccess(part, r) => KnownSuccess(r)'
  BY <1>1, KnownStays DEF SaverTrue, KnownSuccess
<1>4. \A i \in DOMAIN part.dead : fate'[part.dead[i].relay] = "dead"
  <2> SUFFICES ASSUME NEW i \in DOMAIN part.dead
               PROVE  fate'[part.dead[i].relay] = "dead"
    OBVIOUS
  <2>1. part.dead[i].relay \in Relays
    BY <1>2, SnapshotItems DEF DeadItem
  <2>2. fate[part.dead[i].relay] = "dead"
    BY DEF SaverTrue
  <2> QED BY <1>1, <2>1, <2>2, EndedStays
<1>5. Sound(part)
  BY DEF SaverTrue
<1> QED BY <1>3, <1>4, <1>5 DEF SaverTrue

------------------------------------------------------------------------------
(* The saver *)

\* A relay whose success is known is neither dead nor in a queue.
LEMMA KnownIsElsewhere ==
  ASSUME CoreInv, NEW r \in Relays, KnownSuccess(r)
  PROVE  fate[r] # "dead" /\ ~InReady(r)
<1> USE DEF CoreInv, Core, Conserved, Conservation
<1>1. CASE fate[r] = "delivered"
  BY <1>1 DEF SomewhereIsLive, InReady
<1>2. ASSUME NEW w \in Workers, Reporting(w, r)
      PROVE  fate[r] # "dead" /\ ~InReady(r)
  <2>1. Owns(w) /\ held[w].relay = r
    BY <1>2 DEF Reporting, Owns, Owning, PCs
  <2>2. IsHeld(r)
    BY <2>1 DEF IsHeld
  <2> QED BY <2>1, <2>2 DEF SomewhereIsLive, NowhereTwice
<1> QED BY <1>1, <1>2 DEF KnownSuccess

\* What a read counts is of the type of a history.
LEMMA PostsOfType ==
  ASSUME TypeOK, saver.part \in Snapshot, NEW R PROVE PostsOf(R) \in [Relays -> Nat]
<1>1. saver.part.posts \in [Relays -> Nat]
  BY DEF Snapshot
<1> QED BY <1>1 DEF PostsOf, TypeOK

\* Stores, journal, dead letters, queues: each read finds nothing that
\* contradicts what was read before.
LEMMA CaptureStep ==
  ASSUME CoreInv, RecoveryTypeOK, SaverTrue, Capture
  PROVE  SaverTrue' /\ saver' \in Saver
<1> DEFINE part == saver.part
           next == saver'.part
<1>1. /\ TypeOK /\ Conserved /\ Attempts /\ DeadDistinct /\ SuccessKnown
      /\ UNCHANGED vars
  BY DEF CoreInv, Core, Capture
<1>2. saver \in Saver /\ part \in Snapshot /\ Sound(part)
  BY DEF RecoveryTypeOK, SaverTrue, Sound
<1>3. /\ saver.at \in 1..4
      /\ saver.at = 1 => CaptureOrder[saver.at] = "stores"
      /\ saver.at = 2 => CaptureOrder[saver.at] = "journal"
      /\ saver.at = 3 => CaptureOrder[saver.at] = "dead"
      /\ saver.at = 4 => CaptureOrder[saver.at] = "jobs"
  BY DEF Capture, Reading, CaptureOrder
<1>4. saver' = [saver EXCEPT !.part = Read(CaptureOrder[saver.at]),
                             !.at = saver.at + 1, !.left = Stores]
  BY DEF Capture
<1>5. saver'.at = saver.at + 1 /\ next = Read(CaptureOrder[saver.at])
  BY <1>2, <1>4 DEF Saver
<1>6. \A r : KnownSuccess(r)' <=> KnownSuccess(r)
  BY <1>1 DEF KnownSuccess, Reporting, vars, workerVars, history
<1>7. fate' = fate
  BY <1>1 DEF vars, history
<1>8. ASSUME Sound(next),
             saver.at = 1 => next.journal = <<>>,
             saver.at <= 2 => next.dead = <<>>,
             saver.at <= 3 => next.jobs = {},
             \A r \in Relays : NotedSuccess(next, r) => KnownSuccess(r),
             \A i \in DOMAIN next.dead : fate[next.dead[i].relay] = "dead"
      PROVE  SaverTrue' /\ saver' \in Saver
  <2>1. saver' \in Saver
    <3>1. saver.at + 1 \in 0..(Len(CaptureOrder) + 1) /\ next \in Snapshot
      BY <1>3, <1>8 DEF CaptureOrder, Sound
    <3> QED BY <1>2, <1>4, <1>5, <3>1 DEF Saver
  <2>2. \A r \in Relays : NotedSuccess(next, r) => KnownSuccess(r)'
    BY <1>6, <1>8
  <2>3. \A i \in DOMAIN next.dead : fate'[next.dead[i].relay] = "dead"
    BY <1>7, <1>8
  <2>4. /\ saver'.at <= 2 => next.journal = <<>>
        /\ saver'.at <= 3 => next.dead = <<>>
        /\ saver'.at <= 4 => next.jobs = {}
    BY <1>3, <1>5, <1>8
  <2> QED BY <1>8, <2>1, <2>2, <2>3, <2>4 DEF SaverTrue
<1>9. CASE saver.at = 1
  <2>1. next = [part EXCEPT !.enabled = enabled]
    BY <1>3, <1>5, <1>9 DEF Read
  <2>2. next \in Snapshot
    BY <1>1, <1>2, <2>1 DEF Snapshot, TypeOK
  <2>3. /\ next.journal = part.journal /\ next.dead = part.dead
        /\ next.jobs = part.jobs /\ next.breaker = part.breaker
        /\ next.posts = part.posts
    BY <1>2, <2>1 DEF Snapshot
  <2>4. Sound(next)
    BY <1>2, <2>2, <2>3 DEF Sound, Coherent, NotedSuccess
  <2>5. next.journal = <<>> /\ next.dead = <<>> /\ next.jobs = {}
    BY <1>9, <2>3 DEF SaverTrue
  <2>6. \A r \in Relays : ~NotedSuccess(next, r)
    BY <2>5 DEF NotedSuccess
  <2> QED BY <1>8, <2>4, <2>5, <2>6
<1>10. CASE saver.at = 2
  <2>1. next = [part EXCEPT !.journal = journal]
    BY <1>3, <1>5, <1>10 DEF Read
  <2>2. next \in Snapshot
    BY <1>1, <1>2, <2>1 DEF Snapshot, TypeOK
  <2>3. /\ next.journal = journal /\ next.dead = <<>>
        /\ next.jobs = {} /\ next.breaker = part.breaker
    BY <1>2, <1>10, <2>1 DEF Snapshot, SaverTrue
  <2>4. Len(next.dead) <= DLQMax
    BY <2>3, RelayAssumption
  <2>5. Sound(next)
    BY <1>2, <2>2, <2>3, <2>4 DEF Sound, Coherent
  <2>6. \A r \in Relays : NotedSuccess(next, r) => KnownSuccess(r)
    BY <1>1, <2>3 DEF NotedSuccess, SuccessKnown, KnownSuccess
  <2> QED BY <1>8, <1>10, <2>3, <2>5, <2>6
<1>11. CASE saver.at = 3
  <2> DEFINE R == {dlq[i].relay : i \in DOMAIN dlq}
  <2>1. next = [part EXCEPT !.dead = dlq, !.posts = PostsOf(R)]
    BY <1>3, <1>5, <1>11 DEF Read
  <2>2. next \in Snapshot
    <3>1. PostsOf(R) \in [Relays -> Nat] /\ dlq \in Seq(DeadItem)
      BY <1>1, <1>2, PostsOfType DEF TypeOK
    <3> HIDE DEF R, next, part
    <3> QED BY <1>2, <2>1, <3>1 DEF Snapshot
  <2>3. /\ next.journal = part.journal /\ next.dead = dlq
        /\ next.jobs = {} /\ next.breaker = part.breaker /\ next.posts = PostsOf(R)
    BY <1>2, <1>11, <2>1 DEF Snapshot, SaverTrue
  <2>4. \A r \in Relays : NotedSuccess(next, r) => KnownSuccess(r)
    BY <2>3 DEF NotedSuccess, SaverTrue
  <2>5. \A i \in DOMAIN dlq : /\ dlq[i].relay \in Relays
                              /\ fate[dlq[i].relay] = "dead"
                              /\ dlq[i].attempt <= MaxAttempts
                              /\ dlq[i].attempt = posts[dlq[i].relay]
    BY <1>1, DeadItemsTyped DEF Attempts, AttemptsLeft, AttemptsArePosts
  <2>6. \A i \in DOMAIN dlq : ~NotedSuccess(next, dlq[i].relay)
    BY <2>4, <2>5, KnownIsElsewhere
  <2>7. Coherent(next)
    BY <1>1, <2>3, <2>6 DEF Coherent, DeadDistinct, Distinct
  <2>8. \A i \in DOMAIN dlq : next.posts[dlq[i].relay] = dlq[i].attempt
    BY <2>3, <2>5 DEF PostsOf
  <2>9. Sound(next)
    BY <1>1, <1>2, <2>2, <2>3, <2>5, <2>7, <2>8 DEF Sound, DeadDistinct
  <2> QED BY <1>8, <1>11, <2>3, <2>4, <2>5, <2>9
<1>12. CASE saver.at = 4
  <2> DEFINE R == {j.relay : j \in ready}
  <2>1. next = [part EXCEPT !.jobs = ready, !.posts = PostsOf(R)]
    BY <1>3, <1>5, <1>12 DEF Read, QueueSnapshot
  <2>2. next \in Snapshot
    <3>1. PostsOf(R) \in [Relays -> Nat] /\ ready \subseteq Job
      BY <1>1, <1>2, PostsOfType DEF TypeOK
    <3> HIDE DEF R, next, part
    <3> QED BY <1>2, <2>1, <3>1 DEF Snapshot
  <2>3. /\ next.journal = part.journal /\ next.dead = part.dead
        /\ next.jobs = ready /\ next.breaker = part.breaker
        /\ next.posts = PostsOf(R)
    BY <1>2, <2>1 DEF Snapshot
  <2>4. /\ \A r \in Relays : NotedSuccess(next, r) => KnownSuccess(r)
        /\ \A i \in DOMAIN next.dead : fate[next.dead[i].relay] = "dead"
    BY <2>3 DEF NotedSuccess, SaverTrue
  <2>5. ASSUME NEW j \in ready
        PROVE  /\ j.attempt < MaxAttempts
               /\ ~Mentions(next.dead, j.relay)
               /\ ~NotedSuccess(next, j.relay)
    <3>1. j.relay \in Relays /\ InReady(j.relay)
      BY <1>1 DEF TypeOK, Job, InReady
    <3>2. fate[j.relay] = "live"
      BY <1>1 DEF Conserved, Conservation, SomewhereIsLive
    <3>3. ~Mentions(next.dead, j.relay)
      BY <2>4, <3>2 DEF Mentions
    <3>4. ~NotedSuccess(next, j.relay)
      BY <2>4, <3>1, KnownIsElsewhere
    <3> QED BY <1>1, <3>3, <3>4 DEF Attempts, AttemptsArePosts
  <2>6. \A j, k \in ready : j.relay = k.relay => j = k
    BY <1>1 DEF Conserved, Conservation, NowhereTwice
  <2>7. Coherent(next)
    <3>1. \A i \in DOMAIN next.dead : ~NotedSuccess(next, next.dead[i].relay)
      BY <1>2, <2>3 DEF Sound, Coherent, NotedSuccess
    <3>2. \A i, k \in DOMAIN next.dead :
             next.dead[i].relay = next.dead[k].relay => i = k
      BY <1>2, <2>3 DEF Sound, Coherent
    <3> QED BY <2>3, <2>5, <2>6, <3>1, <3>2 DEF Coherent
  <2>8. \A j \in ready : next.posts[j.relay] = j.attempt
    <3>1. \A j \in ready : j.relay \in Relays /\ j.attempt = posts[j.relay]
      BY <1>1 DEF TypeOK, Job, Attempts, AttemptsArePosts
    <3> QED BY <2>3, <3>1 DEF PostsOf
  <2>9. \A i \in DOMAIN next.dead :
            next.posts[next.dead[i].relay] = next.dead[i].attempt
    <3> SUFFICES ASSUME NEW i \in DOMAIN part.dead
                 PROVE  PostsOf(R)[part.dead[i].relay] = part.dead[i].attempt
      BY <2>3
    <3>1. part.dead[i].relay \in Relays
      BY <1>2, SnapshotItems DEF DeadItem
    <3>2. part.posts[part.dead[i].relay] = part.dead[i].attempt
      BY <1>2 DEF Sound
    <3>3. part.dead[i].relay \notin R
      BY <2>3, <2>5 DEF Mentions
    <3> QED BY <3>1, <3>2, <3>3 DEF PostsOf
  <2>10. Sound(next)
    BY <1>2, <2>2, <2>3, <2>5, <2>7, <2>8, <2>9 DEF Sound
  <2> QED BY <1>8, <1>12, <2>4, <2>10
<1> QED BY <1>3, <1>9, <1>10, <1>11, <1>12

\* Gates.Snapshot adds well-formed breakers to it.
LEMMA CaptureGateStep ==
  ASSUME CoreInv, RecoveryTypeOK, SaverTrue, NEW s \in Stores, CaptureGate(s)
  PROVE  SaverTrue' /\ saver' \in Saver
<1> DEFINE part == saver.part
           next == saver'.part
           b == MaybeHalfOpen(breaker[s], now)
<1>1. /\ saver \in Saver /\ part \in Snapshot /\ Sound(part)
      /\ TypeOK /\ BreakersOK
  BY DEF RecoveryTypeOK, SaverTrue, Sound, CoreInv, Core
<1>2. saver.at = 5
  BY <1>1 DEF CaptureGate, Reading, CaptureOrder, Saver
<1>3. b \in BreakerType /\ BreakerShape(b)
  BY <1>1, MaybeHalfOpenOK DEF TypeOK, BreakersOK, Time
<1>4. /\ saver' = [saver EXCEPT !.part.breaker[s] = b,
                                !.left = saver.left \ {s},
                                !.at = IF saver.left = {s} THEN saver.at + 1
                                       ELSE saver.at]
  BY DEF CaptureGate
<1>5. /\ next = [part EXCEPT !.breaker[s] = b]
      /\ saver'.at \in {5, 6}
  BY <1>1, <1>2, <1>4 DEF Saver
<1>6. part.breaker \in [Stores -> BreakerType]
  BY <1>1 DEF Snapshot
<1>7. /\ next.journal = part.journal /\ next.dead = part.dead
      /\ next.jobs = part.jobs /\ next.breaker = [part.breaker EXCEPT ![s] = b]
      /\ next.enabled = part.enabled /\ next.posts = part.posts
  BY <1>1, <1>5 DEF Snapshot
<1>8. next.breaker \in [Stores -> BreakerType]
  BY <1>3, <1>6, <1>7
<1>9. next \in Snapshot
  <2>1. next = [part EXCEPT !.breaker = next.breaker]
    BY <1>1, <1>5, <1>7 DEF Snapshot
  <2> HIDE DEF next
  <2> QED BY <1>1, <1>8, <2>1 DEF Snapshot
<1>10. \A x \in Stores : BreakerShape(next.breaker[x])
  BY <1>1, <1>3, <1>6, <1>7 DEF Sound
<1>11. Sound(next)
  BY <1>1, <1>7, <1>9, <1>10 DEF Sound, Coherent, NotedSuccess
<1>12. saver' \in Saver
  <2>1. saver' = [saver EXCEPT !.part = next, !.left = saver.left \ {s},
                               !.at = saver'.at]
    BY <1>1, <1>4, <1>5 DEF Saver
  <2>2. saver'.at \in 0..(Len(CaptureOrder) + 1)
    BY <1>5 DEF CaptureOrder
  <2> HIDE DEF next
  <2> QED BY <1>1, <1>9, <2>1, <2>2 DEF Saver
<1>13. SaverTrue'
  <2>1. UNCHANGED <<pc, held, result, fate>>
    BY DEF CaptureGate, Poll, workerVars, history
  <2>2. \A r : KnownSuccess(r)' <=> KnownSuccess(r)
    BY <2>1 DEF KnownSuccess, Reporting
  <2>3. \A r \in Relays : NotedSuccess(next, r) => KnownSuccess(r)'
    BY <1>7, <2>2 DEF SaverTrue, NotedSuccess
  <2>4. \A i \in DOMAIN next.dead : fate'[next.dead[i].relay] = "dead"
    BY <1>7, <2>1 DEF SaverTrue
  <2> QED BY <1>5, <1>11, <2>3, <2>4 DEF SaverTrue
<1> QED BY <1>12, <1>13

\* Between two saves there is nothing to be true about.
LEMMA IdleSaverTrue ==
  /\ Quiet \in Snapshot /\ Sound(Quiet)
  /\ \A g \in BOOLEAN : [IdleSaver EXCEPT !.gone = g] \in Saver
  /\ IdleSaver \in Saver
<1>1. /\ Quiet.journal = <<>> /\ Quiet.dead = <<>> /\ Quiet.jobs = {}
      /\ Quiet.breaker = [s \in Stores |-> NewBreaker]
  BY DEF Quiet
<1>2. Quiet \in Snapshot
  BY NewBreakerOK DEF Quiet, Snapshot
<1>3. Coherent(Quiet)
  BY <1>1 DEF Coherent
<1>4. Sound(Quiet)
  BY <1>1, <1>2, <1>3, NewBreakerOK, RelayAssumption DEF Sound
<1>5. 0 \in 0..(Len(CaptureOrder) + 1)
  BY DEF CaptureOrder
<1>6. \A g \in BOOLEAN : [IdleSaver EXCEPT !.gone = g] \in Saver
  BY <1>2, <1>5 DEF IdleSaver, Saver
<1> QED BY <1>2, <1>4, <1>5, <1>6 DEF IdleSaver, Saver

------------------------------------------------------------------------------
(* The start of a process *)

\* The history a start assigns agrees with the records it restores.
LEMMA RestoredHistory ==
  ASSUME TypeOK, Attempts, Sound(file)
  PROVE  /\ \A r \in Relays :
               /\ FateOnRestart(r) \in {"unused", "live", "delivered", "dead", "lost"}
               /\ PostsOnRestart(r) \in Nat /\ PostsOnRestart(r) <= MaxAttempts
               /\ FateOnRestart(r) = "live" => Saved(r)
               /\ FateOnRestart(r) = "unused" => PostsOnRestart(r) = 0
               /\ NotedSuccess(file, r) => FateOnRestart(r) = "delivered"
         /\ \A j \in file.jobs : /\ FateOnRestart(j.relay) = "live"
                                 /\ PostsOnRestart(j.relay) = j.attempt
         /\ \A i \in DOMAIN file.dead :
               /\ FateOnRestart(file.dead[i].relay) = "dead"
               /\ PostsOnRestart(file.dead[i].relay) = file.dead[i].attempt
<1>1. /\ file \in Snapshot /\ Coherent(file)
      /\ file.dead \in Seq(DeadItem) /\ file.jobs \subseteq Job
      /\ \A i \in DOMAIN file.dead : file.dead[i] \in DeadItem
  BY SnapshotItems DEF Sound
<1>2. ASSUME NEW i \in DOMAIN file.dead
      PROVE  /\ Mentions(file.dead, file.dead[i].relay)
             /\ FateOnRestart(file.dead[i].relay) = "dead"
             /\ PostsOnRestart(file.dead[i].relay) = file.dead[i].attempt
  BY DEF Mentions, FateOnRestart, PostsOnRestart, Sound
<1>3. ASSUME NEW j \in file.jobs
      PROVE  /\ FateOnRestart(j.relay) = "live"
             /\ PostsOnRestart(j.relay) = j.attempt
  <2>1. /\ Saved(j.relay) /\ ~Mentions(file.dead, j.relay)
        /\ ~NotedSuccess(file, j.relay)
    BY <1>1 DEF Saved, Coherent
  <2> QED BY <2>1 DEF FateOnRestart, PostsOnRestart, Sound
<1>4. ASSUME NEW r \in Relays
      PROVE  /\ FateOnRestart(r) \in {"unused", "live", "delivered", "dead", "lost"}
             /\ FateOnRestart(r) = "live" => Saved(r)
  BY DEF FateOnRestart, TypeOK
<1>5. ASSUME NEW r \in Relays, NotedSuccess(file, r)
      PROVE  FateOnRestart(r) = "delivered"
  <2>1. ~Mentions(file.dead, r)
    BY <1>1, <1>5 DEF Coherent, Mentions
  <2> QED BY <1>5, <2>1 DEF FateOnRestart
<1>6. ASSUME NEW r \in Relays
      PROVE  /\ PostsOnRestart(r) \in Nat /\ PostsOnRestart(r) <= MaxAttempts
             /\ FateOnRestart(r) = "unused" => PostsOnRestart(r) = 0
  <2>1. CASE Mentions(file.dead, r)
    <3>1. PICK i \in DOMAIN file.dead : file.dead[i].relay = r
      BY <2>1 DEF Mentions
    <3>2. file.dead[i].attempt \in Nat /\ file.dead[i].attempt <= MaxAttempts
      BY <1>1 DEF DeadItem, Sound
    <3> QED BY <1>2, <3>1, <3>2
  <2>2. CASE ~Mentions(file.dead, r) /\ Saved(r)
    <3>1. PICK j \in file.jobs : j.relay = r
      BY <2>2 DEF Saved
    <3>2. j.attempt \in Nat /\ j.attempt < MaxAttempts
      BY <1>1 DEF Job, Sound
    <3>3. PostsOnRestart(r) = j.attempt /\ FateOnRestart(r) = "live"
      BY <1>3, <3>1
    <3>4. j.attempt <= MaxAttempts
      BY <3>2, BackoffAssumption
    <3> QED BY <3>2, <3>3, <3>4
  <2>3. CASE ~Mentions(file.dead, r) /\ ~Saved(r)
    <3>1. PostsOnRestart(r) = posts[r]
      BY <2>3 DEF PostsOnRestart
    <3>2. FateOnRestart(r) = "unused" => fate[r] = "unused"
      BY <2>3 DEF FateOnRestart
    <3> QED BY <3>1, <3>2 DEF TypeOK, Attempts, AttemptsArePosts, AttemptsLeft
  <2> QED BY <2>1, <2>2, <2>3
<1> QED BY <1>2, <1>3, <1>4, <1>5, <1>6

\* A start restores a state of the right type.
LEMMA BootType ==
  ASSUME TypeOK, Attempts, Sound(file), Boot
  PROVE  TypeOK' /\ BreakersOK'
<1>1. file \in Snapshot
  BY DEF Sound
<1>2. /\ enabled' \in [Stores -> BOOLEAN] /\ journal' \in Seq(Entry)
      /\ dlq' \in Seq(DeadItem) /\ ready' \subseteq Job
      /\ breaker' \in [Stores -> BreakerType]
  BY <1>1 DEF Boot, Snapshot, Restored
<1>3. BreakersOK'
  BY DEF Boot, Sound, BreakersOK
<1>4. now' \in Time
  BY RelayAssumption DEF Boot, TypeOK, Time
<1>5. bucket' \in [Stores -> BucketType]
  BY <1>4, NewBucketType DEF Boot, Time
<1>6. handler' \in [Handlers -> Handler]
  BY DEF Boot, IdleHandler, Handler, Time
<1>7. fate' \in [Relays -> {"unused", "live", "delivered", "dead", "lost"}]
  BY RestoredHistory DEF Boot
<1>8. posts' \in [Relays -> Nat]
  BY RestoredHistory DEF Boot
<1>9. /\ inFlight' \in [Stores -> Nat] /\ pc' \in [Workers -> PCs]
      /\ held' \in [Workers -> Job \cup {NoJob}]
      /\ result' \in [Workers -> ResultType \cup {NoResult}]
      /\ tag' \in [Workers -> Tags] /\ postBy' \in [Workers -> Time]
      /\ replayOf' \in [Relays -> Relays \cup {NoRelay}]
      /\ \A w \in Workers : pc'[w] = "idle"
  BY DEF Boot, TypeOK, PCs, Tags, Time, FreshInFlight
<1> QED BY <1>2, <1>3, <1>4, <1>5, <1>6, <1>7, <1>8, <1>9 DEF TypeOK

\* And one in which everything the relay core promises holds again.
LEMMA BootCore ==
  ASSUME CoreInv, Sound(file), Boot
  PROVE  CoreInv'
<1>1. TypeOK /\ Attempts /\ Coherent(file)
  BY DEF CoreInv, Core, Sound
<1>2. TypeOK' /\ BreakersOK'
  BY <1>1, BootType
<1>3. /\ ready' = file.jobs /\ dlq' = file.dead /\ journal' = file.journal
      /\ \A w \in Workers : pc'[w] = "idle"
      /\ \A h \in Handlers : handler'[h].plan = {}
      /\ \A r \in Relays : /\ fate'[r] = FateOnRestart(r)
                           /\ posts'[r] = PostsOnRestart(r)
  BY DEF Boot, Restored, IdleHandler
<1>4. /\ \A w \in Workers : ~Owns(w)' /\ pc'[w] \notin Fresh
      /\ \A r : ~IsHeld(r)' /\ ~InPlan(r)'
  BY <1>3 DEF Owns, Owning, IsHeld, InPlan, Fresh
<1>5. \A j \in ready' : /\ j.relay \in Relays /\ fate'[j.relay] = "live"
                        /\ posts'[j.relay] = j.attempt
  <2>1. \A j \in file.jobs : j.relay \in Relays
    BY SnapshotItems DEF Sound, Job
  <2> QED BY <1>1, <1>3, <2>1, RestoredHistory
<1>6. \A i \in DOMAIN dlq' : /\ dlq'[i].relay \in Relays
                             /\ fate'[dlq'[i].relay] = "dead"
                             /\ posts'[dlq'[i].relay] = dlq'[i].attempt
  <2>1. \A i \in DOMAIN file.dead : file.dead[i].relay \in Relays
    BY SnapshotItems DEF Sound, DeadItem
  <2> QED BY <1>1, <1>3, <2>1, RestoredHistory
<1>7. Conserved'
  <2>1. LiveIsSomewhere'
    BY <1>1, <1>3, RestoredHistory DEF LiveIsSomewhere, InReady, Saved
  <2>2. SomewhereIsLive'
    BY <1>3, <1>4, <1>5 DEF SomewhereIsLive
  <2>3. \A j, k \in ready' : j.relay = k.relay => j = k
    BY <1>1, <1>3 DEF Coherent
  <2>4. NowhereTwice'
    BY <1>3, <1>4, <2>3 DEF NowhereTwice
  <2>5. PlansAreWork'
    BY <1>3 DEF PlansAreWork
  <2> QED BY <2>1, <2>2, <2>4, <2>5 DEF Conserved, Conservation
<1>8. Attempts'
  <2>1. \A r \in Relays : posts'[r] <= MaxAttempts
    BY <1>1, <1>3, RestoredHistory
  <2>2. \A j \in ready' : j.attempt = posts'[j.relay] /\ j.attempt < MaxAttempts
    BY <1>3, <1>5 DEF Sound
  <2>3. AttemptsArePosts'
    BY <1>3, <1>4, <1>6, <2>1, <2>2 DEF AttemptsArePosts
  <2>4. \A r \in Relays : fate'[r] = "unused" => posts'[r] = 0
    BY <1>1, <1>3, RestoredHistory
  <2>5. AttemptsLeft'
    BY <1>4, <1>6, <2>4 DEF AttemptsLeft
  <2> QED BY <2>3, <2>5 DEF Attempts
<1>9. InFlightExact'
  <2>1. \A s \in Stores : Busy(s)' = {} /\ inFlight'[s] = 0
    BY <1>3 DEF Busy, Boot, FreshInFlight
  <2> QED BY <2>1, FS_EmptySet, MaxFlightType DEF InFlightExact
<1>10. DeadDistinct'
  BY <1>1, <1>3 DEF DeadDistinct, Distinct, Coherent, Sound
<1>11. SuccessKnown'
  <2> SUFFICES ASSUME NEW i \in DOMAIN journal', journal'[i].kind = "success"
               PROVE  fate'[journal'[i].relay] = "delivered"
    BY DEF SuccessKnown
  <2>1. NotedSuccess(file, journal'[i].relay)
    BY <1>3 DEF NotedSuccess
  <2>2. journal'[i].relay \in Relays
    BY <1>3, SnapshotItems DEF Sound, Entry
  <2> QED BY <1>1, <1>3, <2>1, <2>2, RestoredHistory
<1> QED BY <1>2, <1>7, <1>8, <1>9, <1>10, <1>11 DEF CoreInv, Core

------------------------------------------------------------------------------
(* The theorems *)

\* What is posted is counted, by a process that runs.
SentCounts == sent' = [r \in Relays |-> IF posts'[r] = posts[r] THEN sent[r] ELSE sent[r] + 1]

\* Every step counts what it posts, a start posts nothing.
LEMMA StepCounts ==
  ASSUME TypeOK, sent \in [Relays -> Nat], [RecoveryNext]_allVars
  PROVE  /\ SentCounts \/ (Boot /\ sent' = sent)
         /\ sent' \in [Relays -> Nat]
<1>1. ASSUME posts' = posts, sent' = sent PROVE SentCounts
  BY <1>1 DEF SentCounts
<1>2. ASSUME Around PROVE posts' = posts
  BY <1>2 DEF Around, Ingest, ReplayJournal, Replay, Replayed, Enqueue, DropDead,
              SetEnabled, Poll, Tick, vars, history
<1>3. CASE Rest
  BY <1>1, <1>2, <1>3 DEF Rest, lifeVars
<1>4. CASE StartSave \/ Capture \/ Write \/ Signal \/ Exit \/ UNCHANGED allVars
  BY <1>1, <1>4 DEF StartSave, Capture, Write, Signal, Exit, vars, history, allVars,
                    lifeVars
<1>5. CASE \E s \in Stores : CaptureGate(s)
  BY <1>1, <1>5 DEF CaptureGate, Poll, history
<1>6. CASE \E w \in Workers : Work(w)
  BY <1>6 DEF Work, SentCounts
<1>7. CASE Boot
  BY <1>7 DEF Boot
<1>8. SentCounts \/ (Boot /\ sent' = sent)
  BY <1>3, <1>4, <1>5, <1>6, <1>7 DEF RecoveryNext, Crash, Restart
<1> QED BY <1>8 DEF SentCounts

\* RecoveryInv holds of a process started from the snapshot of a quiet one.
LEMMA RecoveryStart == RecoveryInit => RecoveryInv
<1> SUFFICES ASSUME RecoveryInit PROVE RecoveryInv
  OBVIOUS
<1>1. CoreInv
  <2>1. Core
    BY CoreInductive DEF RecoveryInit
  <2>2. \A s \in Stores : Busy(s) = {} /\ inFlight[s] = 0
    BY DEF RecoveryInit, Init, Busy
  <2>3. InFlightExact
    BY <2>2, FS_EmptySet, MaxFlightType DEF InFlightExact
  <2>4. DeadDistinct /\ SuccessKnown
    BY RelayAssumption DEF RecoveryInit, Init, DeadDistinct, Distinct, SuccessKnown
  <2> QED BY <2>1, <2>3, <2>4 DEF CoreInv
<1>2. RecoveryTypeOK
  BY IdleSaverTrue DEF RecoveryInit, RecoveryTypeOK, Phases
<1>3. Sound(file)
  BY IdleSaverTrue DEF RecoveryInit
<1>4. SaverTrue
  <2>1. saver.part = Quiet /\ Sound(Quiet)
    BY IdleSaverTrue DEF RecoveryInit, IdleSaver
  <2>2. Quiet.journal = <<>> /\ Quiet.dead = <<>> /\ Quiet.jobs = {}
    BY DEF Quiet
  <2> QED BY <2>1, <2>2 DEF SaverTrue, NotedSuccess
<1> QED BY <1>1, <1>2, <1>3, <1>4 DEF RecoveryInv

\* A saver with nothing read.
LEMMA IdleSaverStep ==
  ASSUME \/ saver' = IdleSaver
         \/ \E g \in BOOLEAN : saver' = [IdleSaver EXCEPT !.gone = g]
  PROVE  SaverTrue' /\ saver' \in Saver
<1>1. saver'.part = Quiet /\ Sound(Quiet) /\ saver' \in Saver
  <2>1. CASE saver' = IdleSaver
    BY <2>1, IdleSaverTrue DEF IdleSaver
  <2>2. ASSUME NEW g \in BOOLEAN, saver' = [IdleSaver EXCEPT !.gone = g]
        PROVE  saver'.part = Quiet /\ saver' \in Saver
    <3>1. saver' \in Saver
      BY <2>2, IdleSaverTrue
    <3>2. saver'.part = Quiet
      BY <2>2 DEF IdleSaver
    <3> QED BY <3>1, <3>2
  <2> QED BY <2>1, <2>2, IdleSaverTrue
<1>2. Quiet.journal = <<>> /\ Quiet.dead = <<>> /\ Quiet.jobs = {}
  BY DEF Quiet
<1>3. Sound(saver'.part) /\ \A r \in Relays : ~NotedSuccess(saver'.part, r)
  BY <1>1, <1>2 DEF NotedSuccess
<1> QED BY <1>1, <1>2, <1>3 DEF SaverTrue

\* Every step keeps what the saver and the file say.
LEMMA RecoverySaver ==
  ASSUME RecoveryInv, [RecoveryNext]_allVars
  PROVE  RecoveryTypeOK' /\ Sound(file)' /\ SaverTrue'
<1>1. CoreInv /\ RecoveryTypeOK /\ Sound(file) /\ SaverTrue
  BY DEF RecoveryInv
<1>2. sent' \in [Relays -> Nat]
  BY <1>1, StepCounts DEF RecoveryTypeOK, CoreInv, Core
<1> USE DEF RecoveryTypeOK, Phases
<1>3. ASSUME UNCHANGED <<saver, file>>, [Next]_vars,
             phase' \in Phases, doomed' \subseteq Workers, restarts' = restarts
      PROVE  RecoveryTypeOK' /\ Sound(file)' /\ SaverTrue'
  BY <1>1, <1>3, <1>2, SaverFrame
<1>4. ASSUME Boot PROVE RecoveryTypeOK' /\ Sound(file)' /\ SaverTrue'
  <2>1. saver' = IdleSaver
    BY <1>4 DEF Boot
  <2>2. SaverTrue' /\ saver' \in Saver
    BY <2>1, IdleSaverStep
  <2> QED BY <1>1, <1>4, <1>2, <2>2 DEF Boot
<1>5. ASSUME NEW w \in Workers, Work(w)
      PROVE  RecoveryTypeOK' /\ Sound(file)' /\ SaverTrue'
  <2>1. [Next]_vars /\ UNCHANGED <<phase, saver, file, restarts>>
    BY <1>5 DEF Work, Next
  <2>2. doomed' \subseteq Workers
    BY <1>1, <1>5 DEF Work
  <2> QED BY <1>1, <1>3, <2>1, <2>2
<1>6. ASSUME Rest PROVE RecoveryTypeOK' /\ Sound(file)' /\ SaverTrue'
  BY <1>1, <1>3, <1>6 DEF Rest, Next, lifeVars
<1>7. ASSUME StartSave PROVE RecoveryTypeOK' /\ Sound(file)' /\ SaverTrue'
  <2>1. PICK f \in BOOLEAN : saver' = [saver EXCEPT !.at = 1, !.final = f]
    BY <1>7 DEF StartSave
  <2>2. saver.at = 0 /\ UNCHANGED <<vars, phase, doomed, file, restarts>>
    BY <1>7 DEF StartSave
  <2>3. saver' \in Saver /\ saver'.part = saver.part /\ saver'.at = 1
    <3>1. 1 \in 0..(Len(CaptureOrder) + 1)
      BY DEF CaptureOrder
    <3> QED BY <1>1, <2>1, <3>1 DEF Saver
  <2>4. UNCHANGED <<pc, held, result, fate>>
    BY <2>2 DEF vars, workerVars, history
  <2>5. \A r : KnownSuccess(r)' <=> KnownSuccess(r)
    BY <2>4 DEF KnownSuccess, Reporting
  <2>6. SaverTrue'
    BY <1>1, <2>2, <2>3, <2>4, <2>5 DEF SaverTrue
  <2> QED BY <1>1, <1>2, <2>2, <2>3, <2>6
<1>8. ASSUME Capture PROVE RecoveryTypeOK' /\ Sound(file)' /\ SaverTrue'
  BY <1>1, <1>8, <1>2, CaptureStep DEF Capture
<1>9. ASSUME NEW s \in Stores, CaptureGate(s)
      PROVE  RecoveryTypeOK' /\ Sound(file)' /\ SaverTrue'
  BY <1>1, <1>9, <1>2, CaptureGateStep DEF CaptureGate
<1>10. ASSUME Write PROVE RecoveryTypeOK' /\ Sound(file)' /\ SaverTrue'
  <2>1. saver.final \in BOOLEAN
    BY <1>1 DEF Saver
  <2>2. SaverTrue' /\ saver' \in Saver
    BY <1>10, <2>1, IdleSaverStep DEF Write
  <2>3. Sound(file)' /\ file' \in Snapshot
    BY <1>1, <1>10 DEF Write, SaverTrue, Sound
  <2> QED BY <1>1, <1>10, <1>2, <2>2, <2>3 DEF Write
<1>11. ASSUME Signal \/ Exit PROVE RecoveryTypeOK' /\ Sound(file)' /\ SaverTrue'
  BY <1>1, <1>3, <1>11 DEF Signal, Exit
<1>12. ASSUME UNCHANGED allVars PROVE RecoveryTypeOK' /\ Sound(file)' /\ SaverTrue'
  BY <1>1, <1>3, <1>12 DEF allVars, lifeVars
<1> QED
  BY <1>4, <1>5, <1>6, <1>7, <1>8, <1>9, <1>10, <1>11, <1>12
     DEF RecoveryNext, Crash, Restart

\* RecoveryInv is inductive.
LEMMA RecoveryInductive == ASSUME RecoveryInv, [RecoveryNext]_allVars PROVE RecoveryInv'
  BY StepKinds, CoreStep, BootCore, RecoverySaver DEF RecoveryInv

\* The snapshot file never has a relay in two states, although Capture reads the
\* journal, the dead letters and the queues of a process that keeps working:
\* the order in which it reads them is what makes this true.
THEOREM FileCoherentCorrect == RecoverySpec => []FileCoherent
<1>1. RecoveryInv => FileCoherent
  BY DEF RecoveryInv, Sound, FileCoherent
<1> QED BY <1>1, RecoveryStart, RecoveryInductive, PTL DEF RecoverySpec

\* What the relay core guarantees, it guarantees across crashes and restarts at
\* any moment: no relay is duplicated or dropped by the running process, in-flight
\* counts are exact, a job carries the POSTs its process knows of, a dead letter
\* is listed once and a journalled success is final.
THEOREM SurvivesRestarts ==
  RecoverySpec => [](/\ Conservation /\ InFlightExact /\ AttemptsArePosts
                     /\ DeadOnce /\ JournalledSuccessIsFinal)
<1>1. RecoveryInv => /\ Conservation /\ InFlightExact /\ AttemptsArePosts
                     /\ DeadOnce /\ JournalledSuccessIsFinal
  <2> SUFFICES ASSUME RecoveryInv
               PROVE  /\ Conservation /\ InFlightExact /\ AttemptsArePosts
                      /\ DeadOnce /\ JournalledSuccessIsFinal
    OBVIOUS
  <2>1. Core /\ InFlightExact /\ DeadDistinct /\ SuccessKnown
    BY DEF RecoveryInv, CoreInv
  <2>2. DeadOnce
    BY <2>1 DEF Core, DeadDistinct, Distinct, DeadOnce, Attempts, AttemptsLeft
  <2>3. JournalledSuccessIsFinal
    BY <2>1, KnownIsFinal
  <2> QED BY <2>1, <2>2, <2>3 DEF Core, Conserved, Attempts
<1> QED BY <1>1, RecoveryStart, RecoveryInductive, PTL DEF RecoverySpec
------------------------------------------------------------------------------
(* Gone for good: the refinement of module Durable *)

\* A snapshot agrees with the history: it may be behind, never ahead.
Accounted(snap) ==
    /\ \A j \in snap.jobs : fate[j.relay] # "unused" /\ j.attempt <= posts[j.relay]
    /\ \A i \in DOMAIN snap.dead :
          /\ fate[snap.dead[i].relay] = "dead"
          /\ snap.dead[i].attempt = posts[snap.dead[i].relay]
    /\ \A r \in Relays : NotedSuccess(snap, r) => KnownSuccess(r)

DurableInv ==
    /\ RecoveryInv /\ Prepared /\ RecordedIsGone
    /\ Accounted(file) /\ Accounted(saver.part)

\* The running process posts only relays that are live and whose success is not
\* known, and takes no POST back.
LEMMA PostsOfOthers ==
  ASSUME CoreInv, [Next]_vars, NEW r \in Relays
  PROVE  /\ posts'[r] \in {posts[r], posts[r] + 1} /\ posts'[r] >= posts[r]
         /\ posts'[r] # posts[r] => fate[r] = "live" /\ ~KnownSuccess(r)
<1> USE DEF CoreInv, Core
<1>1. CASE posts' = posts
  BY <1>1 DEF TypeOK
<1>2. ASSUME NEW w \in Workers, Take(w), posts' # posts
      PROVE  /\ posts'[r] \in {posts[r], posts[r] + 1} /\ posts'[r] >= posts[r]
             /\ posts'[r] # posts[r] => fate[r] = "live" /\ ~KnownSuccess(r)
  <2>1. posts' = [posts EXCEPT ![held[w].relay] = @ + 1]
    BY <1>2 DEF Take
  <2>2. posts'[r] \in {posts[r], posts[r] + 1} /\ posts'[r] >= posts[r]
    BY <2>1 DEF TypeOK
  <2>3. CASE held[w].relay = r
    <3>1. Owns(w) /\ pc[w] = "take"
      BY <1>2 DEF Take, Owns, Owning, PCs
    <3>2. fate[r] = "live"
      BY <2>3, <3>1 DEF Conserved, Conservation, SomewhereIsLive
    <3>3. \A v \in Workers : ~Reporting(v, r)
      <4> SUFFICES ASSUME NEW v \in Workers, Reporting(v, r) PROVE FALSE
        OBVIOUS
      <4>1. Owns(v) /\ held[v].relay = r /\ pc[v] = "report"
        BY DEF Reporting, Owns, Owning, PCs
      <4> QED BY <2>3, <3>1, <4>1 DEF Conserved, Conservation, NowhereTwice
    <3> QED BY <2>2, <3>2, <3>3 DEF KnownSuccess
  <2>4. CASE held[w].relay # r
    BY <2>1, <2>4 DEF TypeOK
  <2> QED BY <2>3, <2>4
<1> QED
  BY <1>1, <1>2 DEF Next, Around, WorkerStep, Lease, GetStore, Allow, Take, Answer,
     Note, Report, Requeue, Bury, NoteAfter, Release, Ingest, ReplayJournal, Replay,
     Enqueue, DropDead, SetEnabled, Poll, Tick, vars, history

\* A snapshot stays accounted for while the process works.
LEMMA AccountedStays ==
  ASSUME CoreInv, [Next]_vars, NEW snap \in Snapshot, Accounted(snap)
  PROVE  Accounted(snap)'
<1>1. TypeOK /\ Conserved
  BY DEF CoreInv, Core
<1>2. ASSUME NEW j \in snap.jobs
      PROVE  fate'[j.relay] # "unused" /\ j.attempt <= posts'[j.relay]
  <2>1. j.relay \in Relays /\ j.attempt \in Nat
    BY SnapshotItems DEF Job
  <2>2. posts[j.relay] \in Nat /\ posts'[j.relay] \in Nat
    BY <1>1, <2>1, NextType, RelayAssumption DEF CoreInv, Core, TypeOK
  <2> QED BY <1>1, <2>1, <2>2, FateStays, PostsOfOthers DEF Accounted
<1>3. ASSUME NEW i \in DOMAIN snap.dead
      PROVE  /\ fate'[snap.dead[i].relay] = "dead"
             /\ snap.dead[i].attempt = posts'[snap.dead[i].relay]
  <2>1. snap.dead[i].relay \in Relays
    BY SnapshotItems DEF DeadItem
  <2> QED BY <1>1, <2>1, EndedStays, PostsOfOthers DEF Accounted
<1>4. ASSUME NEW r \in Relays, NotedSuccess(snap, r)
      PROVE  KnownSuccess(r)'
  BY <1>1, <1>4, KnownStays DEF Accounted, KnownSuccess
<1> QED BY <1>2, <1>3, <1>4 DEF Accounted, NotedSuccess

\* What the saver reads next agrees with the history, and none of it is a job of
\* a relay that is gone.
LEMMA CaptureAccounted ==
  ASSUME DurableInv, Capture
  PROVE  /\ Accounted(saver.part)'
         /\ \A j \in saver'.part.jobs :
               /\ j \in saver.part.jobs \/ j \in ready
               /\ \A r \in Relays : Gone(r) => j.relay # r
<1> DEFINE part == saver.part
           next == saver'.part
<1>1. /\ CoreInv /\ TypeOK /\ Conserved /\ Attempts /\ SuccessKnown
      /\ saver \in Saver /\ part \in Snapshot /\ Accounted(part)
  BY DEF DurableInv, RecoveryInv, RecoveryTypeOK, CoreInv, Core, SaverTrue, Sound
<1>2. UNCHANGED <<pc, held, result, fate, posts>>
  BY DEF Capture, vars, workerVars, history
<1>3. \A r : KnownSuccess(r)' <=> KnownSuccess(r)
  BY <1>2 DEF KnownSuccess, Reporting
<1>4. next = Read(CaptureOrder[saver.at])
  <2>1. saver' = [saver EXCEPT !.part = Read(CaptureOrder[saver.at]),
                               !.at = saver.at + 1, !.left = Stores]
    BY DEF Capture
  <2> QED BY <1>1, <2>1 DEF Saver
<1>5. CaptureOrder[saver.at] \in {"stores", "journal", "dead", "jobs"}
  BY DEF Capture, Reading, CaptureOrder
<1>6. /\ next.jobs = part.jobs \/ next.jobs = ready
      /\ next.dead = part.dead \/ next.dead = dlq
      /\ next.journal = part.journal \/ next.journal = journal
  BY <1>1, <1>4, <1>5 DEF Read, QueueSnapshot, Snapshot
<1>7. ASSUME NEW j \in ready
      PROVE  fate[j.relay] = "live" /\ j.attempt <= posts[j.relay]
  <2>1. j.attempt = posts[j.relay] /\ j.attempt \in Nat
    BY <1>1 DEF Attempts, AttemptsArePosts, TypeOK, Job
  <2>2. fate[j.relay] = "live"
    BY <1>1 DEF Conserved, Conservation, SomewhereIsLive
  <2> QED BY <2>1, <2>2
<1>8. \A i \in DOMAIN dlq : /\ fate[dlq[i].relay] = "dead"
                            /\ dlq[i].attempt = posts[dlq[i].relay]
  BY <1>1 DEF Attempts, AttemptsArePosts, AttemptsLeft
<1>9. \A r \in Relays : NotedSuccess(next, r) => KnownSuccess(r)
  BY <1>1, <1>6 DEF NotedSuccess, SuccessKnown, KnownSuccess, Accounted
<1>10. Accounted(part)'
  <2>1. ASSUME NEW j \in next.jobs
        PROVE  fate[j.relay] # "unused" /\ j.attempt <= posts[j.relay]
    BY <1>1, <1>6, <1>7 DEF Accounted
  <2>2. ASSUME NEW i \in DOMAIN next.dead
        PROVE  /\ fate[next.dead[i].relay] = "dead"
               /\ next.dead[i].attempt = posts[next.dead[i].relay]
    BY <1>1, <1>6, <1>8 DEF Accounted
  <2> QED BY <1>2, <1>3, <1>9, <2>1, <2>2 DEF Accounted, NotedSuccess
<1>11. ASSUME NEW j \in next.jobs, NEW r \in Relays, Gone(r) PROVE j.relay # r
  <2>1. CASE j \in part.jobs
    BY <1>11, <2>1 DEF Gone
  <2>2. CASE j \in ready /\ j.relay = r
    <3>1. fate[r] = "live" /\ InReady(r)
      BY <1>7, <2>2 DEF InReady
    <3> QED BY <1>1, <1>11, <3>1, KnownIsElsewhere DEF Gone
  <2> QED BY <1>6, <2>1, <2>2
<1> QED BY <1>6, <1>10, <1>11

\* A start neither posts nor frees what is gone, and forgets without inventing.
LEMMA BootForgets ==
  ASSUME DurableInv, Boot
  PROVE  /\ \A r \in Relays :
               /\ fate'[r] \in {"unused", "live", "delivered", "dead", "lost"}
               /\ fate'[r] = "unused" <=> fate[r] = "unused"
               /\ posts'[r] <= posts[r]
               /\ fate'[r] = "live" => ~Gone(r) /\ posts'[r] < MaxAttempts
               /\ Gone(r) => Gone(r)' /\ posts'[r] = posts[r]
         /\ Accounted(file)' /\ Accounted(saver.part)' /\ Prepared'
<1>1. /\ CoreInv /\ TypeOK /\ Conserved /\ Attempts /\ Sound(file)
      /\ file \in Snapshot /\ Coherent(file) /\ Accounted(file)
  BY DEF DurableInv, RecoveryInv, CoreInv, Core, Sound
<1>2. /\ \A r \in Relays : fate'[r] = FateOnRestart(r) /\ posts'[r] = PostsOnRestart(r)
      /\ file' = file /\ saver' = IdleSaver
      /\ \A w \in Workers : pc'[w] = "idle"
      /\ \A h \in Handlers : handler'[h].pc = "idle"
  BY DEF Boot, IdleHandler
<1>3. saver'.part.jobs = {} /\ saver'.part.dead = <<>> /\ saver'.part.journal = <<>>
  BY <1>2 DEF IdleSaver, Quiet
<1>4. ASSUME NEW i \in DOMAIN file.dead
      PROVE  /\ file.dead[i].relay \in Relays
             /\ fate'[file.dead[i].relay] = "dead"
             /\ posts'[file.dead[i].relay] = file.dead[i].attempt
             /\ posts'[file.dead[i].relay] = posts[file.dead[i].relay]
  <2>1. file.dead[i].relay \in Relays
    BY <1>1, SnapshotItems DEF DeadItem
  <2>2. file.dead[i].attempt = posts[file.dead[i].relay]
    BY <1>1 DEF Accounted
  <2> QED BY <1>1, <1>2, <2>1, <2>2, RestoredHistory
<1>5. ASSUME NEW j \in file.jobs
      PROVE  /\ j.relay \in Relays /\ fate'[j.relay] = "live"
             /\ posts'[j.relay] = j.attempt /\ j.attempt \in Nat
             /\ j.attempt < MaxAttempts /\ j.attempt <= posts[j.relay]
  <2>1. j.relay \in Relays /\ j.attempt \in Nat
    BY <1>1, SnapshotItems DEF Job
  <2> QED BY <1>1, <1>2, <2>1, RestoredHistory DEF Sound, Accounted
<1>6. ASSUME NEW r \in Relays
      PROVE  /\ fate'[r] \in {"unused", "live", "delivered", "dead", "lost"}
             /\ posts[r] \in Nat
             /\ NotedSuccess(file, r) => fate'[r] = "delivered"
             /\ fate'[r] = "live" => Saved(r)
  BY <1>1, <1>2, RestoredHistory DEF TypeOK
<1>7. ASSUME NEW r \in Relays
      PROVE  fate'[r] = "unused" <=> fate[r] = "unused"
  <2>1. fate'[r] = "unused" => fate[r] = "unused"
    BY <1>2 DEF FateOnRestart
  <2>2. ASSUME fate[r] = "unused" PROVE fate'[r] = "unused"
    <3>1. ~Mentions(file.dead, r)
      BY <1>1, <2>2 DEF Mentions, Accounted
    <3>2. ~Saved(r)
      BY <1>1, <2>2 DEF Saved, Accounted
    <3>3. ~NotedSuccess(file, r)
      <4>1. \A w \in Workers : ~Reporting(w, r)
        BY <1>1, <2>2 DEF Reporting, Owns, Owning, PCs, Conserved, Conservation,
                          SomewhereIsLive
      <4> QED BY <1>1, <2>2, <4>1 DEF Accounted, KnownSuccess
    <3> QED BY <1>2, <2>2, <3>1, <3>2, <3>3 DEF FateOnRestart
  <2> QED BY <2>1, <2>2
<1>8. ASSUME NEW r \in Relays
      PROVE  /\ posts'[r] <= posts[r]
             /\ fate'[r] = "live" => posts'[r] < MaxAttempts
             /\ ~Saved(r) => posts'[r] = posts[r]
  <2>1. CASE Mentions(file.dead, r)
    <3>1. PICK i \in DOMAIN file.dead : file.dead[i].relay = r
      BY <2>1 DEF Mentions
    <3>2. posts'[r] = posts[r] /\ fate'[r] = "dead"
      BY <1>4, <3>1
    <3> QED BY <1>6, <3>2
  <2>2. CASE Saved(r)
    <3>1. PICK j \in file.jobs : j.relay = r
      BY <2>2 DEF Saved
    <3> QED BY <1>5, <2>2, <3>1
  <2>3. CASE ~Mentions(file.dead, r) /\ ~Saved(r)
    <3>1. posts'[r] = posts[r]
      BY <1>2, <2>3 DEF PostsOnRestart
    <3> QED BY <1>6, <2>3, <3>1
  <2> QED BY <2>1, <2>2, <2>3
<1>9. ASSUME NEW r \in Relays, Gone(r) PROVE Gone(r)' /\ ~Saved(r)
  <2>1. ~Saved(r) /\ ~Saved(r)'
    BY <1>2, <1>9 DEF Gone, Saved
  <2>2. fate[r] # "unused" /\ (KnownSuccess(r) => fate[r] \in {"live", "delivered"})
    <3>1. ASSUME NEW w \in Workers, Reporting(w, r) PROVE fate[r] = "live"
      BY <1>1, <3>1 DEF Reporting, Owns, Owning, PCs, Conserved, Conservation,
                        SomewhereIsLive
    <3> QED BY <1>9, <3>1 DEF Gone, KnownSuccess
  <2>3. fate'[r] \in {"delivered", "dead", "lost"}
    BY <1>6, <1>7, <2>1, <2>2
  <2> QED BY <1>3, <2>1, <2>3 DEF Gone, KnownSuccess
<1>10. Accounted(file)'
  <2>1. \A r \in Relays : NotedSuccess(file, r)' => KnownSuccess(r)'
    BY <1>2, <1>6 DEF NotedSuccess, KnownSuccess
  <2>2. \A j \in file'.jobs : fate'[j.relay] # "unused" /\ j.attempt <= posts'[j.relay]
    BY <1>2, <1>5
  <2> QED BY <1>2, <1>4, <2>1, <2>2 DEF Accounted
<1>11. Accounted(saver.part)'
  BY <1>3 DEF Accounted, NotedSuccess
<1>12. Prepared'
  BY <1>2 DEF Prepared
<1> QED BY <1>6, <1>7, <1>8, <1>9, <1>10, <1>11, <1>12

\* What is gone, no step of a process and no start of another brings back or posts.
LEMMA GoneStays ==
  ASSUME DurableInv, [RecoveryNext]_allVars, NEW r \in Relays, Gone(r)
  PROVE  Gone(r)' /\ posts'[r] = posts[r]
<1>1. CoreInv /\ TypeOK /\ Conserved /\ saver \in Saver
  BY DEF DurableInv, RecoveryInv, RecoveryTypeOK, CoreInv, Core
<1>2. ASSUME [Next]_vars
      PROVE  /\ posts'[r] = posts[r]
             /\ Gone(r)' \/ \E j \in file'.jobs \cup saver'.part.jobs : j.relay = r
  <2>1. posts'[r] = posts[r]
    BY <1>1, <1>2, PostsOfOthers DEF Gone
  <2>2. KnownSuccess(r) => KnownSuccess(r)'
    BY <1>1, <1>2, KnownStays DEF KnownSuccess
  <2>3. fate[r] \in {"dead", "lost"} => fate'[r] = fate[r]
    BY <1>1, <1>2, EndedStays
  <2> QED BY <2>1, <2>2, <2>3 DEF Gone, Saved
<1>3. CASE Boot
  BY <1>3, BootForgets
<1>4. CASE Capture
  <2>1. [Next]_vars /\ file' = file
    BY <1>4 DEF Capture
  <2>2. \A j \in file'.jobs \cup saver'.part.jobs : j.relay # r
    BY <1>4, <2>1, CaptureAccounted DEF Gone, Saved
  <2> QED BY <1>2, <2>1, <2>2
<1>5. CASE Write
  <2>1. [Next]_vars /\ file' \in {saver.part, file}
    BY <1>5 DEF Write
  <2>2. saver'.part.jobs = {}
    BY <1>5 DEF Write, IdleSaver, Quiet
  <2>3. \A j \in file'.jobs \cup saver'.part.jobs : j.relay # r
    BY <2>1, <2>2 DEF Gone, Saved
  <2> QED BY <1>2, <2>1, <2>3
<1>6. CASE [Next]_vars /\ file' = file /\ saver'.part.jobs = saver.part.jobs
  <2>1. \A j \in file'.jobs \cup saver'.part.jobs : j.relay # r
    BY <1>6 DEF Gone, Saved
  <2> QED BY <1>2, <1>6, <2>1
<1>7. ASSUME NEW s \in Stores, CaptureGate(s)
      PROVE  [Next]_vars /\ file' = file /\ saver'.part.jobs = saver.part.jobs
  <2>1. saver.part \in Snapshot
    BY <1>1 DEF Saver
  <2>2. saver'.part.jobs = saver.part.jobs
    BY <1>1, <1>7, <2>1 DEF CaptureGate, Saver, Snapshot
  <2> QED BY <1>7, <2>2 DEF CaptureGate, Next, Around
<1>8. CASE StartSave
  <2>1. saver'.part = saver.part
    BY <1>1, <1>8 DEF StartSave, Saver
  <2> QED BY <1>6, <1>8, <2>1 DEF StartSave
<1>9. CASE Rest \/ \E w \in Workers : Work(w)
  BY <1>6, <1>9 DEF Rest, Work, Next, lifeVars
<1>10. CASE Signal \/ Exit \/ UNCHANGED allVars
  BY <1>6, <1>10 DEF Signal, Exit, allVars, lifeVars
<1> QED
  BY <1>3, <1>4, <1>5, <1>6, <1>7, <1>8, <1>9, <1>10 DEF RecoveryNext, Crash, Restart

\* DurableInv holds of a process started from the snapshot of a quiet one.
LEMMA DurableStart == RecoveryInit => DurableInv
<1> SUFFICES ASSUME RecoveryInit PROVE DurableInv
  OBVIOUS
<1>1. /\ file.jobs = {} /\ file.dead = <<>> /\ file.journal = <<>>
      /\ saver.part = file
  BY DEF RecoveryInit, IdleSaver, Quiet
<1>2. Prepared
  BY DEF RecoveryInit, Init, Prepared, IdleHandler
<1>3. Accounted(file) /\ Accounted(saver.part)
  BY <1>1 DEF Accounted, NotedSuccess
<1>4. RecordedIsGone
  BY <1>1 DEF RecordedIsGone, Mentions, NotedSuccess
<1> QED BY <1>2, <1>3, <1>4, RecoveryStart DEF DurableInv

\* What the file records is gone, whichever file a save leaves.
LEMMA RecordedStays ==
  ASSUME DurableInv, [RecoveryNext]_allVars, RecoveryInv'
  PROVE  RecordedIsGone'
<1>1. CASE file' = file
  <2>1. \A r \in Relays : /\ Mentions(file'.dead, r) <=> Mentions(file.dead, r)
                          /\ NotedSuccess(file, r)' <=> NotedSuccess(file, r)
    BY <1>1 DEF NotedSuccess
  <2> QED BY <2>1, GoneStays DEF DurableInv, RecordedIsGone
<1>2. CASE Write /\ file' = saver.part
  <2>1. saver'.part.jobs = {} /\ UNCHANGED <<pc, held, result, fate>>
    BY <1>2 DEF Write, IdleSaver, Quiet, vars, workerVars, history
  <2>2. Coherent(file)' /\ Accounted(saver.part)
    BY DEF DurableInv, RecoveryInv, Sound
  <2>3. \A r : KnownSuccess(r)' <=> KnownSuccess(r)
    BY <2>1 DEF KnownSuccess, Reporting
  <2> SUFFICES ASSUME NEW r \in Relays, Mentions(file'.dead, r) \/ NotedSuccess(file, r)'
               PROVE  Gone(r)'
    BY DEF RecordedIsGone
  <2>4. KnownSuccess(r)' \/ fate'[r] = "dead"
    BY <1>2, <2>1, <2>2, <2>3 DEF Accounted, Mentions, NotedSuccess
  <2>5. ~Saved(r)'
    BY <2>2 DEF Saved, Coherent
  <2> QED BY <2>1, <2>4, <2>5 DEF Gone
<1>3. file' = file \/ (Write /\ file' = saver.part)
  BY DEF RecoveryNext, allVars, lifeVars, Work, Rest, StartSave, Capture, CaptureGate,
         Write, Signal, Exit, Crash, Restart, Boot
<1> QED BY <1>1, <1>2, <1>3

\* DurableInv is inductive.
LEMMA DurableInductive ==
  ASSUME DurableInv, [RecoveryNext]_allVars
  PROVE  DurableInv'
<1>1. RecoveryInv' /\ RecordedIsGone'
  BY RecoveryInductive, RecordedStays DEF DurableInv
<1>2. /\ CoreInv /\ TypeOK /\ Prepared /\ Accounted(file) /\ Accounted(saver.part)
      /\ file \in Snapshot /\ saver.part \in Snapshot /\ saver \in Saver
  BY DEF DurableInv, RecoveryInv, RecoveryTypeOK, CoreInv, Core, Sound, SaverTrue
<1>3. CASE Boot
  BY <1>1, <1>3, BootForgets DEF DurableInv
<1>4. ASSUME [Next]_vars
      PROVE  Prepared' /\ \A snap \in Snapshot : Accounted(snap) => Accounted(snap)'
  BY <1>2, <1>4, NextPrepared, AccountedStays
<1>5. CASE Capture
  <2>1. [Next]_vars /\ file' = file
    BY <1>5 DEF Capture
  <2>2. Accounted(file)'
    BY <1>2, <1>4, <2>1 DEF Accounted, NotedSuccess
  <2> QED BY <1>1, <1>4, <1>5, <2>1, <2>2, CaptureAccounted DEF DurableInv
<1>6. ASSUME [Next]_vars,
             file' \in {file, saver.part},
             \/ saver'.part = saver.part
             \/ saver'.part = Quiet
             \/ /\ saver'.part.jobs = saver.part.jobs
                /\ saver'.part.dead = saver.part.dead
                /\ saver'.part.journal = saver.part.journal
      PROVE  DurableInv'
  <2>1. Accounted(file)'
    BY <1>2, <1>4, <1>6 DEF Accounted, NotedSuccess
  <2>2. Accounted(saver.part)'
    BY <1>2, <1>4, <1>6 DEF Accounted, NotedSuccess, Quiet
  <2> QED BY <1>1, <1>4, <1>6, <2>1, <2>2 DEF DurableInv
<1>7. CASE Write
  BY <1>6, <1>7 DEF Write, IdleSaver
<1>8. ASSUME NEW s \in Stores, CaptureGate(s) PROVE DurableInv'
  <2>1. /\ saver'.part.jobs = saver.part.jobs
        /\ saver'.part.dead = saver.part.dead
        /\ saver'.part.journal = saver.part.journal
    BY <1>2, <1>8 DEF CaptureGate, Saver, Snapshot
  <2> QED BY <1>6, <1>8, <2>1 DEF CaptureGate, Next, Around
<1>9. CASE StartSave
  <2>1. saver'.part = saver.part
    BY <1>2, <1>9 DEF StartSave, Saver
  <2> QED BY <1>6, <1>9, <2>1 DEF StartSave
<1>10. CASE Rest \/ \E w \in Workers : Work(w)
  BY <1>6, <1>10 DEF Rest, Work, Next, lifeVars
<1>11. CASE Signal \/ Exit \/ UNCHANGED allVars
  BY <1>6, <1>11 DEF Signal, Exit, allVars, lifeVars
<1> QED
  BY <1>3, <1>5, <1>7, <1>8, <1>9, <1>10, <1>11 DEF RecoveryNext, Crash, Restart
\* Step simulation: a step of a running process keeps the promise of module
\* Delivery, a start is a takeover, and neither touches what is gone.
LEMMA StepRefinesDurable ==
  ASSUME DurableInv, [RecoveryNext]_allVars
  PROVE  (Promised!Working \/ Promised!TakeOver) /\ Promised!Forever
<1>1. /\ TypeOK /\ Conserved /\ Attempts /\ Prepared /\ sent \in [Relays -> Nat]
  BY DEF DurableInv, RecoveryInv, RecoveryTypeOK, CoreInv, Core
<1>2. SentCounts \/ (Boot /\ sent' = sent)
  BY <1>1, StepCounts
<1>3. Promised!Forever
  <2>1. ASSUME NEW r \in Relays, Gone(r) PROVE Gone(r)' /\ sent'[r] = sent[r]
    BY <1>2, <2>1, GoneStays DEF SentCounts
  <2> QED BY <2>1 DEF Promised!Forever
<1>4. CASE [Next]_vars /\ SentCounts
  <2>1. [Promise!Next]_(Promise!promise)
    BY <1>1, <1>4, NextKeepsPromise
  <2>2. Promised!Next \/ UNCHANGED Promised!promise
    BY <2>1 DEF Promise!Next, Promise!promise, Promise!Accept, Promise!Reissue,
                Promise!Try, Promise!Deliver, Promise!GiveUp,
                Promised!Next, Promised!promise, Promised!Accept, Promised!Reissue,
                Promised!Try, Promised!Deliver, Promised!GiveUp
  <2> QED BY <1>3, <1>4, <2>2 DEF Promised!Working, SentCounts
<1>5. CASE Boot
  <2>1. replayOf' = replayOf /\ sent' = sent
    BY <1>5 DEF Boot
  <2>2. Promised!TakeOver
    BY <1>5, <2>1, BootForgets DEF Promised!TakeOver, Promised!Status
  <2> QED BY <1>3, <2>2
<1> QED BY <1>2, <1>4, <1>5, StepKinds

\* The program with its saver, its crashes and its restarts implements the
\* abstract promise of module Durable, for any number of workers, handlers,
\* stores, relays and restarts.
THEOREM DurableRefined == RecoverySpec => RefinesDurable
<1>1. RecoveryInit => Promised!DurableInit
  <2> SUFFICES ASSUME RecoveryInit
               PROVE  Promised!Init /\ \A r \in Relays : ~Gone(r)
    BY DEF RecoveryInit, Promised!DurableInit
  <2>1. /\ \A r \in Relays : fate[r] = "unused"
        /\ \A w \in Workers : pc[w] = "idle"
    BY DEF RecoveryInit, Init
  <2> QED BY <2>1 DEF RecoveryInit, Init, Promised!Init, Gone, KnownSuccess, Reporting
<1>2. DurableInv /\ [RecoveryNext]_allVars =>
         [(Promised!Working \/ Promised!TakeOver) /\ Promised!Forever]_(Promised!durable)
  BY StepRefinesDurable
<1> QED
  BY <1>1, <1>2, DurableStart, DurableInductive, PTL
     DEF RecoverySpec, RefinesDurable, Promised!DurableSpec

\* A relay the file lists as dead or delivered is in no snapshot as a job, nor
\* in the process that wrote the file.
THEOREM RecordedIsGoneCorrect == RecoverySpec => []RecordedIsGone
<1>1. DurableInv => RecordedIsGone
  BY DEF DurableInv
<1> QED BY <1>1, DurableStart, DurableInductive, PTL DEF RecoverySpec

\* So no POST is ever again sent for a relay that a file once listed as dead or
\* delivered, by this process or by any that follows, whatever is saved and
\* whenever they die.
THEOREM NeverPostedAgain ==
  ASSUME NEW r \in Relays, NEW n \in Nat
  PROVE  RecoverySpec =>
            []((Mentions(file.dead, r) \/ NotedSuccess(file, r)) /\ sent[r] = n
                  => [](sent[r] = n))
<1> DEFINE Over == Gone(r) /\ sent[r] = n
<1>1. DurableInv => ((Mentions(file.dead, r) \/ NotedSuccess(file, r)) /\ sent[r] = n
                        => Over)
  BY DEF DurableInv, RecordedIsGone
<1>2. DurableInv /\ Over /\ [RecoveryNext]_allVars => Over'
  BY StepRefinesDurable DEF Promised!Forever
<1>3. Over => sent[r] = n
  OBVIOUS
<1> HIDE DEF Over
<1> QED BY <1>1, <1>2, <1>3, DurableStart, DurableInductive, PTL DEF RecoverySpec

------------------------------------------------------------------------------
(* The POSTs of all processes *)

\* What a start forgets of the process before it are POSTs that process made, its
\* attempts once over.
PostsInv ==
    /\ DurableInv
    /\ \A r \in Relays :
          posts[r] <= sent[r] /\ sent[r] <= posts[r] + MaxAttempts * restarts

\* PostsInv is inductive.
LEMMA PostsInductive ==
  ASSUME PostsInv, [RecoveryNext]_allVars
  PROVE  PostsInv'
<1>1. DurableInv /\ DurableInv' /\ CoreInv /\ TypeOK /\ TypeOK' /\ Attempts
  BY DurableInductive DEF PostsInv, DurableInv, RecoveryInv, CoreInv, Core
<1>2. sent \in [Relays -> Nat] /\ restarts \in Nat /\ MaxAttempts \in Nat
  BY BackoffAssumption DEF PostsInv, DurableInv, RecoveryInv, RecoveryTypeOK
<1> SUFFICES ASSUME NEW r \in Relays
             PROVE  /\ posts'[r] <= sent'[r]
                    /\ sent'[r] <= posts'[r] + MaxAttempts * restarts'
  BY <1>1 DEF PostsInv
<1>3. /\ posts[r] \in Nat /\ posts'[r] \in Nat /\ posts[r] <= MaxAttempts
      /\ posts[r] <= sent[r] /\ sent[r] <= posts[r] + MaxAttempts * restarts
      /\ sent[r] \in Nat /\ MaxAttempts * restarts \in Nat
  BY <1>1, <1>2 DEF PostsInv, TypeOK, Attempts, AttemptsArePosts
<1>4. SentCounts \/ (Boot /\ sent' = sent)
  BY <1>1, <1>2, StepCounts
<1>5. CASE Boot /\ sent' = sent
  <2>1. posts'[r] <= posts[r] /\ restarts' = restarts + 1
    BY <1>1, <1>5, BootForgets DEF Boot
  <2>2. MaxAttempts * (restarts + 1) = MaxAttempts * restarts + MaxAttempts
    BY <1>2
  <2>3. MaxAttempts * restarts' = MaxAttempts * restarts + MaxAttempts
    BY <2>1, <2>2
  <2>4. MaxAttempts \in Nat /\ sent'[r] = sent[r]
    BY <1>2, <1>5
  <2> QED
    <3> DEFINE X == MaxAttempts * restarts
               Y == MaxAttempts * restarts'
    <3>1. X \in Nat /\ Y = X + MaxAttempts /\ sent[r] <= posts[r] + X
      BY <1>3, <2>3
    <3> HIDE DEF X, Y
    <3>2. posts'[r] <= sent'[r] /\ sent'[r] <= posts'[r] + Y
      BY <1>3, <2>1, <2>4, <3>1
    <3> QED BY <3>2 DEF Y
<1>6. CASE ~Boot /\ SentCounts
  <2>1. [Next]_vars
    BY <1>6, StepKinds
  <2>2. posts'[r] \in {posts[r], posts[r] + 1}
    BY <1>1, <2>1, PostsOfOthers
  <2>3. restarts' = restarts
    BY <1>6 DEF RecoveryNext, allVars, lifeVars, Work, Rest, StartSave, Capture,
                CaptureGate, Write, Signal, Exit, Crash, Restart
  <2>4. sent'[r] = IF posts'[r] = posts[r] THEN sent[r] ELSE sent[r] + 1
    BY <1>6 DEF SentCounts
  <2> QED BY <1>3, <2>2, <2>3, <2>4
<1>7. CASE Boot /\ SentCounts
  <2>1. sent' = sent
    BY <1>7 DEF Boot
  <2> QED BY <1>5, <1>7, <2>1
<1> QED BY <1>4, <1>5, <1>6, <1>7

\* PostsInv holds of the first process.
LEMMA PostsStart == RecoveryInit => PostsInv
<1> SUFFICES ASSUME RecoveryInit PROVE PostsInv
  OBVIOUS
<1>1. \A r \in Relays : posts[r] = 0 /\ sent[r] = 0
  BY DEF RecoveryInit, Init
<1>2. MaxAttempts * restarts = 0
  BY BackoffAssumption DEF RecoveryInit
<1> QED BY <1>1, <1>2, DurableStart DEF PostsInv

\* A job or dead letter a process starts with carries exactly the POSTs made until
\* it was read, and no start counts one that was not made.
THEOREM AttemptsCarriedOverCorrect == RecoverySpec => []AttemptsCarriedOver
<1>1. PostsInv => AttemptsCarriedOver
  BY DEF PostsInv, DurableInv, RecoveryInv, CoreInv, Core, Attempts, AttemptsCarriedOver
<1> QED BY <1>1, PostsStart, PostsInductive, PTL DEF RecoverySpec

\* The stores get MaxAttempts POSTs of a relay at most from every process there
\* was, however often what a process posted since its last save is forgotten.
THEOREM PostsPerProcessCorrect == RecoverySpec => []PostsPerProcess
<1>1. PostsInv => PostsPerProcess
  <2> SUFFICES ASSUME PostsInv, NEW r \in Relays
               PROVE  sent[r] <= MaxAttempts * (restarts + 1)
    BY DEF PostsPerProcess
  <2>1. /\ posts[r] \in Nat /\ posts[r] <= MaxAttempts /\ sent[r] \in Nat
        /\ restarts \in Nat /\ MaxAttempts \in Nat
        /\ sent[r] <= posts[r] + MaxAttempts * restarts
    BY BackoffAssumption DEF PostsInv, DurableInv, RecoveryInv, RecoveryTypeOK, CoreInv,
       Core, TypeOK, Attempts, AttemptsArePosts
  <2>2. MaxAttempts * (restarts + 1) = MaxAttempts * restarts + MaxAttempts
    BY <2>1
  <2>3. MaxAttempts * restarts \in Nat
    BY <2>1
  <2> QED BY <2>1, <2>2, <2>3
<1> QED BY <1>1, PostsStart, PostsInductive, PTL DEF RecoverySpec
==============================================================================
