---------------------------- MODULE IngestRecovery ----------------------------
(***************************************************************************)
(* Ingestion across a restart: store.Capture reads the idempotency         *)
(* records, then the nonces, then the queues, while handlers go on         *)
(* serving; the process ends at any moment, by a crash or by main's return *)
(* (Shutdown lets the handlers finish while the last save is under way);   *)
(* and the next one starts from the file.                                  *)
(***************************************************************************)
EXTENDS Ingest, Sequences

CONSTANT MaxRestarts        \* bound: processes that end

VARIABLES
    saver,      \* the snapshot under construction
    file,       \* the snapshot in the data directory
    restarts

lifeVars == <<saver, file, restarts>>
allVars == <<vars, lifeVars>>

\* What a process that has served nothing saves.
Blank == [enabled |-> [s \in Stores |-> TRUE],
          idem |-> [k \in Keys |-> NoRecord],
          book |-> [n \in Nonces |-> 0],
          jobs |-> {}]

\* The order in which Capture's composite literal evaluates its calls.
CaptureOrder == <<"stores", "records", "nonces", "jobs">>

RecoveryInit ==
    /\ Init
    /\ saver = [at |-> 1, part |-> Blank]
    /\ file = Blank
    /\ restarts = 0

Serve == Next /\ UNCHANGED lifeVars

\* Reading the records or the nonces drops the expired ones.
Sweep(name) ==
    CASE name = "records" -> SweepRecords
      [] name = "nonces"  -> SweepNonces
      [] OTHER            -> UNCHANGED vars

\* The snapshot with one part more; the queues hold what no worker has taken.
Extended(name, part) ==
    CASE name = "stores"  -> {[part EXCEPT !.enabled = enabled]}
      [] name = "records" -> {[part EXCEPT !.idem = LiveRecords(now)]}
      [] name = "nonces"  -> {[part EXCEPT !.book = LiveNonces(now)]}
      [] name = "jobs"    -> {[part EXCEPT !.jobs = jobs] : jobs \in SUBSET queued}

Capture ==
    /\ saver.at \in DOMAIN CaptureOrder
    /\ Sweep(CaptureOrder[saver.at])
    /\ \E part \in Extended(CaptureOrder[saver.at], saver.part) :
          saver' = [at |-> saver.at + 1, part |-> part]
    /\ UNCHANGED <<file, restarts>>

\* File.Save, or an error that leaves the old file in place.
Write ==
    /\ saver.at = Len(CaptureOrder) + 1
    /\ file' \in {saver.part, file}
    /\ saver' = [at |-> 1, part |-> Blank]
    /\ UNCHANGED <<vars, restarts>>

\* History: the frames of which the file knows anything.
Survives(a) ==
    \/ file.idem[a.req.key] # NoRecord /\ file.idem[a.req.key].frame = a.frame
    \/ \E j \in file.jobs : j[1] = a.frame

\* app.New: Load and Apply; both Restores leave out what has expired.
Restart ==
    /\ restarts < MaxRestarts
    /\ restarts' = restarts + 1
    /\ now' \in now..MaxTime
    /\ enabled' = file.enabled
    /\ idem' = [k \in Keys |->
          IF file.idem[k] # NoRecord /\ file.idem[k].expires > now'
          THEN file.idem[k] ELSE NoRecord]
    /\ book' = [n \in Nonces |-> IF file.book[n] > now' THEN file.book[n] ELSE 0]
    /\ queued' = file.jobs
    /\ planned' = file.jobs
    /\ handler' = [h \in Handlers |-> IdleHandler]
    /\ accepted' = {a \in accepted : Survives(a)}
    /\ saver' = [at |-> 1, part |-> Blank]
    /\ UNCHANGED <<frames, file>>

RecoveryNext == Serve \/ Capture \/ Write \/ Restart

RecoverySpec == RecoveryInit /\ [][RecoveryNext]_allVars

------------------------------------------------------------------------------
(* Properties *)

\* PROJECT.md 3.2: "Same key + same body hash: return the first accept result,
\* do not re-enqueue."  Two frames that are both in the queues have different
\* keys, different bodies, or lie a TTL apart, across restarts too.
NotEnqueuedAgain ==
    \A a, b \in accepted :
        /\ a # b /\ a.req.key = b.req.key /\ a.req.body = b.req.body
        /\ (\E e \in queued : e[1] = a.frame) /\ (\E e \in queued : e[1] = b.frame)
        => a.at + TTL <= b.at \/ b.at + TTL <= a.at
==============================================================================
