------------------------------ MODULE Recovery -------------------------------
(***************************************************************************)
(* The life of the mudlog process around the relay core: the goroutine     *)
(* that saves a snapshot of the in-memory state while everybody else keeps *)
(* working, the signal that stops the process, a crash at any moment, and  *)
(* the start of the next process from the file.                            *)
(*                                                                         *)
(* store.Capture reads one object after the other, each under its own      *)
(* mutex, so a snapshot is a state the program need never have been in.    *)
(* The memory of a process that has exited is left as it was: nothing      *)
(* reads it before Restart overwrites it.                                  *)
(*                                                                         *)
(* A crash is the end of the process, not of the machine: what Rename put  *)
(* in place is there after it.  Idempotency records, nonces and keys are   *)
(* part of the same file and not of this module.                           *)
(***************************************************************************)
EXTENDS Relay

CONSTANT MaxRestarts        \* bound: processes that end

\* A cancelled POST is one of the outcomes, reserved for a process that stops.
ASSUME RecoveryAssumption ==
    /\ MaxRestarts \in Nat
    /\ Failed("cancelled") \in Outcomes

VARIABLES
    phase,      \* where main is: see Phases
    doomed,     \* workers whose POST began after the context was cancelled
    saver,      \* the goroutine of snapshotLoop
    file,       \* the snapshot in the data directory
    restarts,   \* processes that have ended and been replaced
    sent        \* history: POSTs started for each relay by all processes

lifeVars == <<phase, doomed, saver, file, restarts, sent>>
allVars == <<vars, lifeVars>>

Phases == {"up", "stopping", "exited"}

Running == phase \in {"up", "stopping"}

\* store.Snapshot, the parts the relay core restores.  posts is history and not in
\* the file: the POSTs made for each relay when its dead letter or job was read.
Snapshot == [enabled : [Stores -> BOOLEAN], journal : Seq(Entry),
             dead : Seq(DeadItem), jobs : SUBSET Job,
             breaker : [Stores -> BreakerType], posts : [Relays -> Nat]]

\* What a quiet process with nothing queued or logged saves.
Quiet == [enabled |-> [s \in Stores |-> TRUE], journal |-> <<>>,
          dead |-> <<>>, jobs |-> {}, breaker |-> [s \in Stores |-> NewBreaker],
          posts |-> [r \in Relays |-> 0]]

\* Capture's field order, jobs first.
BadCaptureOrder == <<"stores", "jobs", "journal", "dead", "gates">>

\* The order in which Capture's composite literal evaluates its calls.
CaptureOrder == <<"stores", "journal", "dead", "jobs", "gates">>

\* at: 0 between two saves, then the next part to read, one past the last when
\* the file is about to be written.  left: breakers Gates.Snapshot has to read.
Saver == [at : 0..(Len(CaptureOrder) + 1), part : Snapshot,
          left : SUBSET Stores, final : BOOLEAN, gone : BOOLEAN]

IdleSaver == [at |-> 0, part |-> Quiet, left |-> {}, final |-> FALSE,
              gone |-> FALSE]

\* The process was started from the snapshot of a quiet one, with its stores.
RecoveryInit ==
    /\ Init
    /\ phase = "up"
    /\ doomed = {}
    /\ saver = IdleSaver
    /\ file = Quiet
    /\ restarts = 0
    /\ sent = [r \in Relays |-> 0]

------------------------------------------------------------------------------
(* The relay core at work.  Workers share the context that the signal      *)
(* cancels, but select may still pick the ticker, so they may lease; a     *)
(* POST under way may have its answer or be cancelled, and one started on  *)
(* the cancelled context can only fail.                                    *)

PostResult(w) ==
    IF result'[w] = Failed("cancelled") THEN phase = "stopping" ELSE w \notin doomed

Work(w) ==
    /\ Running
    /\ WorkerStep(w)
    /\ pc[w] = "post" => PostResult(w)
    /\ doomed' = IF phase = "stopping" /\ pc[w] = "take" /\ pc'[w] = "post"
                 THEN doomed \cup {w} ELSE doomed \ {w}
    /\ sent' = [r \in Relays |-> IF posts'[r] = posts[r] THEN sent[r] ELSE sent[r] + 1]
    /\ UNCHANGED <<phase, saver, file, restarts>>

Rest == Running /\ Around /\ UNCHANGED lifeVars

------------------------------------------------------------------------------
(* snapshotLoop: save on every tick of its ticker, and once more on the    *)
(* signal before it returns.                                               *)

StartSave ==
    /\ Running
    /\ saver.at = 0 /\ ~saver.gone
    /\ \E f \in BOOLEAN :
          /\ f => phase = "stopping"
          /\ saver' = [saver EXCEPT !.at = 1, !.final = f]
    /\ UNCHANGED <<vars, phase, doomed, file, restarts, sent>>

\* A queue snapshot with the leased jobs in it.
BadQueueSnapshot == ready \cup {held[w] : w \in {v \in Workers : pc[v] # "idle"}}

\* Broker.Snapshot: the ready heaps; a job a worker holds is in none.
QueueSnapshot == ready

\* The history of a read: what had been posted of the relays it finds.
PostsOf(R) == [r \in Relays |-> IF r \in R THEN posts[r] ELSE saver.part.posts[r]]

\* List and Snapshot of the objects that are read in one critical section.
Read(name) ==
    CASE name = "stores"  -> [saver.part EXCEPT !.enabled = enabled]
      [] name = "journal" -> [saver.part EXCEPT !.journal = journal]
      [] name = "dead"    -> [saver.part EXCEPT !.dead = dlq,
             !.posts = PostsOf({dlq[i].relay : i \in DOMAIN dlq})]
      [] name = "jobs"    -> [saver.part EXCEPT !.jobs = QueueSnapshot,
             !.posts = PostsOf({j.relay : j \in QueueSnapshot})]

Reading == Running /\ saver.at \in DOMAIN CaptureOrder

Capture ==
    /\ Reading /\ CaptureOrder[saver.at] # "gates"
    /\ saver' = [saver EXCEPT !.part = Read(CaptureOrder[saver.at]),
                              !.at = @ + 1,
                              !.left = Stores]
    /\ UNCHANGED <<vars, phase, doomed, file, restarts, sent>>

\* Gates.Snapshot: Breaker.Snapshot of each store, which may half-open it.
CaptureGate(s) ==
    /\ Reading /\ CaptureOrder[saver.at] = "gates"
    /\ s \in saver.left
    /\ Poll(s)
    /\ saver' = [saver EXCEPT !.part.breaker[s] = MaybeHalfOpen(breaker[s], now),
                              !.left = @ \ {s},
                              !.at = IF saver.left = {s} THEN @ + 1 ELSE @]
    /\ UNCHANGED <<phase, doomed, file, restarts, sent>>

\* File.Save: the new file replaces the old one in a rename, or an error is
\* logged and the old one stays.
Write ==
    /\ Running
    /\ saver.at = Len(CaptureOrder) + 1
    /\ file' \in {saver.part, file}
    /\ saver' = [IdleSaver EXCEPT !.gone = saver.final]
    /\ UNCHANGED <<vars, phase, doomed, restarts, sent>>

------------------------------------------------------------------------------
(* main *)

\* SIGTERM or an interrupt cancels the context of the workers and the saver.
Signal ==
    /\ phase = "up"
    /\ phase' = "stopping"
    /\ UNCHANGED <<vars, doomed, saver, file, restarts, sent>>

\* srv.Shutdown returns once no request is being served, and main returns; it
\* waits neither for the workers nor for the saver.
Exit ==
    /\ phase = "stopping" /\ restarts < MaxRestarts
    /\ \A h \in Handlers : handler[h].pc = "idle"
    /\ phase' = "exited"
    /\ UNCHANGED <<vars, doomed, saver, file, restarts, sent>>

BadRestored(jobs) == {[j EXCEPT !.attempt = 0] : j \in jobs}

\* Broker.Restore: the jobs as they were saved.
Restored(jobs) == jobs

\* newDestQueue: nothing of a new broker is in flight.
FreshInFlight == [s \in Stores |-> 0]

Saved(r) == \E j \in file.jobs : j.relay = r

NotedSuccess(snap, r) ==
    \E i \in DOMAIN snap.journal :
        snap.journal[i].relay = r /\ snap.journal[i].kind = "success"

\* History: what the new process knows of each relay.  One that is neither
\* queued nor settled in the file has been forgotten.
FateOnRestart(r) ==
    IF Mentions(file.dead, r) THEN "dead"
    ELSE IF NotedSuccess(file, r) THEN "delivered"
    ELSE IF Saved(r) THEN "live"
    ELSE IF fate[r] = "live" THEN "lost"
    ELSE fate[r]

\* History: of a relay in the file the new process can only know the POSTs made
\* before it was read.  Those made since are in sent alone.
PostsOnRestart(r) ==
    IF Mentions(file.dead, r) \/ Saved(r) THEN file.posts[r] ELSE posts[r]

\* app.New: Load and Apply.  Gates.Restore leaves rates empty, so that the
\* first Ensure of a store gives it a full bucket whatever was saved.
Boot ==
    /\ phase' = "up"
    /\ restarts' = restarts + 1
    /\ enabled' = file.enabled
    /\ journal' = file.journal
    /\ dlq' = file.dead
    /\ ready' = Restored(file.jobs)
    /\ inFlight' = FreshInFlight
    /\ breaker' = file.breaker
    /\ now' \in now..MaxTime
    /\ bucket' = [s \in Stores |-> NewBucket(now')]
    /\ pc' = [w \in Workers |-> "idle"]
    /\ held' = [w \in Workers |-> NoJob]
    /\ result' = [w \in Workers |-> NoResult]
    /\ tag' = [w \in Workers |-> "none"]
    /\ postBy' = [w \in Workers |-> 0]
    /\ handler' = [h \in Handlers |-> IdleHandler]
    /\ fate' = [r \in Relays |-> FateOnRestart(r)]
    /\ posts' = [r \in Relays |-> PostsOnRestart(r)]
    /\ doomed' = {}
    /\ saver' = IdleSaver
    /\ UNCHANGED <<replayOf, file, sent>>

Restart == phase = "exited" /\ Boot

\* The process dies and is started again; a Shutdown that runs into its timeout
\* while a request is being served ends no better.
Crash == Running /\ restarts < MaxRestarts /\ Boot

RecoveryNext ==
    \/ \E w \in Workers : Work(w)
    \/ Rest
    \/ StartSave \/ Capture \/ Write
    \/ \E s \in Stores : CaptureGate(s)
    \/ Signal \/ Exit \/ Crash \/ Restart

RecoverySpec == RecoveryInit /\ [][RecoveryNext]_allVars

------------------------------------------------------------------------------
(* Properties: those of module Relay, across restarts, and these. *)

\* Type correctness of the process around the relay core.
RecoveryTypeOK ==
    /\ phase \in Phases
    /\ doomed \subseteq Workers
    /\ saver \in Saver
    /\ file \in Snapshot
    /\ restarts \in Nat
    /\ sent \in [Relays -> Nat]

\* A snapshot has a relay in one state: no job or dead letter twice, no job
\* that is also a dead letter, and neither with its success in the journal.
Coherent(snap) ==
    /\ \A j, k \in snap.jobs : j.relay = k.relay => j = k
    /\ \A i, k \in DOMAIN snap.dead : snap.dead[i].relay = snap.dead[k].relay => i = k
    /\ \A j \in snap.jobs :
          ~Mentions(snap.dead, j.relay) /\ ~NotedSuccess(snap, j.relay)
    /\ \A i \in DOMAIN snap.dead : ~NotedSuccess(snap, snap.dead[i].relay)

\* Whatever the workers and requests do while Capture reads the journal, then
\* the dead letters, then the queues, the file never has a relay in two states:
\* a start from it neither delivers again what it lists as delivered nor
\* retries what it lists as dead.
FileCoherent == Coherent(file)

\* A job a process starts with carries the POSTs that had been made for it when
\* the queues were read, skips and delays uncounted, a dead letter those made in
\* all, and no start counts a POST that was not made.  What was posted after the
\* queues were read is forgotten and may be posted again.
AttemptsCarriedOver ==
    /\ AttemptsArePosts
    /\ \A r \in Relays : posts[r] <= sent[r]

\* Each process posts a relay MaxAttempts times at most, but together they may post
\* it more often than PROJECT.md 3.5 says ("`maxAttempts=8` (including the first
\* try)"): a POST made after the last save was begun does not count.
PostsPerProcess == \A r \in Relays : sent[r] <= MaxAttempts * (restarts + 1)

\* A success that is in the history or about to be.
KnownSuccess(r) == fate[r] = "delivered" \/ \E w \in Workers : Reporting(w, r)

\* The process is through with r, and a new one would be: neither the file nor
\* the snapshot that is being taken has a job of it.
Gone(r) ==
    /\ KnownSuccess(r) \/ fate[r] \in {"dead", "lost"}
    /\ ~Saved(r)
    /\ \A j \in saver.part.jobs : j.relay # r

\* A relay the file lists as dead or delivered is gone, and stays so whatever
\* file is written next, see RefinesDurable.
RecordedIsGone ==
    \A r \in Relays : Mentions(file.dead, r) \/ NotedSuccess(file, r) => Gone(r)

\* PROJECT.md 3.9: "On shutdown (and on a ticker) the in-memory store is
\* snapshotted to the data directory."  When main has returned, every relay
\* still to be delivered is in the file.
ShutdownSaves ==
    phase = "exited" =>
        \A r \in Relays : fate[r] = "live" => Saved(r) \/ Mentions(file.dead, r)

------------------------------------------------------------------------------
Promised == INSTANCE Durable WITH status <- fate, tries <- posts, origin <- replayOf,
                                  gone <- {r \in Relays : Gone(r)}, posted <- sent

\* The program keeps the promise of module Durable: between two starts every step
\* is one of Delivery's, a start forgets at most what was not saved, and no POST is
\* ever sent again for a relay neither the process nor its snapshots have a job of,
\* whenever the process dies and however the saver overlaps the workers.
RefinesDurable == Promised!DurableSpec
==============================================================================
