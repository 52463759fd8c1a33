-------------------------------- MODULE Relay --------------------------------
(***************************************************************************)
(* The relay core of mudlog: the broker's per-store queues, the worker     *)
(* pool of internal/worker that drains them through the circuit breaker,   *)
(* the rate limiter and the HTTP client, the attempt journal, the dead     *)
(* letter queue, and the HTTP handlers that add work (frame ingestion and  *)
(* operator replay) or switch stores on and off.                           *)
(*                                                                         *)
(* Every shared object of the program has its own mutex, so the unit of    *)
(* interleaving is one call on one such object: a worker's pc names the    *)
(* next call it will make.  Frame contents are not represented; a job is   *)
(* what the scheduling decisions read.                                     *)
(***************************************************************************)
EXTENDS Circuit, Classify, Backoff, TokenBucket, Queue,
        FiniteSets, SequencesExt

CONSTANTS
    Workers,        \* worker goroutines (Engine.Run)
    Handlers,       \* HTTP handler goroutines that ingest and replay
    Relays,         \* bound: relay ids that idgen can mint
    NoRelay,        \* the empty ReplayOf
    NoJob,          \* held by a worker that has leased nothing
    NoResult,       \* the result of a worker that has not posted
    Outcomes,       \* results a POST may have, a subset of ResultType
    SkipDelay,      \* ticks a job waits after the breaker refused it (200ms)
    PostTimeout,    \* ticks after which the HTTP client gives up (10s)
    DLQMax,         \* dlq.Queue.max
    JournalMax,     \* journal.Log.max
    Switchable,     \* bound: stores the operator switches on and off
    Replayable,     \* bound: relays the operator asks to replay
    MaxTime,        \* bound: last tick of the clock
    Urgent          \* TRUE: time passes only when nobody can run

ASSUME RelayAssumption ==
    /\ IsFiniteSet(Workers)
    /\ NoRelay \notin Relays
    /\ NoJob \notin [relay : Relays, store : Stores, attempt : Nat,
                    notBefore : Nat, createdAt : Nat]
    /\ NoResult \notin ResultType
    /\ Outcomes \subseteq ResultType
    /\ SkipDelay \in Nat \ {0}
    /\ PostTimeout \in Nat \ {0}
    /\ DLQMax \in Nat \ {0}
    /\ JournalMax \in Nat \ {0}
    /\ Switchable \subseteq Stores
    /\ Replayable \subseteq Relays
    /\ MaxTime \in Nat
    /\ Urgent \in BOOLEAN

VARIABLES
    now,        \* clk.Now()
    enabled,    \* geology.Store.Enabled
    ready,      \* jobs in the ready heaps of the broker
    inFlight,   \* DestQueue.inFlight
    breaker,    \* Gates.breakers
    bucket,     \* Gates.buckets
    journal,    \* Log.entries
    dlq,        \* Queue.items
    pc,         \* next call of each worker
    held,       \* the job a worker leased last
    result,     \* the answer to its last POST
    tag,        \* the branch of handle it is in
    postBy,     \* when the client times its POST out
    handler,    \* state of each HTTP handler
    replayOf,   \* ReplayOf of each relay, fixed when its id is minted
    fate,       \* history: what became of each relay
    posts       \* history: POSTs started for each relay

workerVars == <<pc, held, result, tag, postBy>>
storeVars == <<enabled, inFlight, breaker, bucket>>
logVars == <<journal, dlq>>
history == <<replayOf, fate, posts>>
vars == <<now, ready, storeVars, logVars, workerVars, handler, history>>

------------------------------------------------------------------------------
(* Data *)

Time == Nat

\* job.Job without the frame it carries.
Job == [relay : Relays, store : Stores, attempt : Nat,
        notBefore : Time, createdAt : Time]

Tags == {"none", "store_unavailable", "skipped_open", "rate_delayed",
         "exhausted"}

PCs == {"idle", "get", "allow", "take", "post", "note", "report", "requeue",
        "bury", "note_after", "release"}

\* While its pc is one of these a worker is the only holder of its job.
Owning == PCs \ {"idle", "note_after", "release"}

JournalKinds == Kinds \cup {"skipped_open", "rate_delayed"}

Entry == [relay : Relays, store : Stores, attempt : Nat,
          kind : JournalKinds]

DeadItem == [relay : Relays, store : Stores, attempt : Nat]

Handler == [pc : {"idle", "journal", "enqueue", "remove"},
            target : Relays \cup {NoRelay},
            plan : SUBSET Job,
            at : Time]

IdleHandler == [pc |-> "idle", target |-> NoRelay, plan |-> {}, at |-> 0]

\* Append at the end and drop the oldest: journal.Append and dlq.Push.
Push(q, x, max) ==
    LET t == Append(q, x) IN
        IF Len(t) > max THEN SubSeq(t, Len(t) - max + 1, Len(t)) ELSE t

Mentions(q, r) == \E i \in DOMAIN q : q[i].relay = r

\* Get of both logs: the newest item of a relay.
Newest(q, r) ==
    q[CHOOSE i \in DOMAIN q :
        q[i].relay = r /\ \A k \in DOMAIN q : q[k].relay = r => k <= i]

BadRemoveDead(q, r) == IF Mentions(q, r) THEN Tail(q) ELSE q

\* dlq.Remove: the oldest item of a relay.
RemoveDead(q, r) == RemoveFirstMatch(q, LAMBDA it : it.relay = r)

\* A job as ingest and replay build it.
NewJob(r, s, t) ==
    [relay |-> r, store |-> s, attempt |-> 0, notBefore |-> t, createdAt |-> t]

Unused == {r \in Relays : fate[r] = "unused"}

------------------------------------------------------------------------------
Init ==
    /\ now = 0
    /\ enabled = [s \in Stores |-> TRUE]
    /\ ready = {}
    /\ inFlight = [s \in Stores |-> 0]
    /\ breaker = [s \in Stores |-> NewBreaker]
    /\ bucket = [s \in Stores |-> NewBucket(0)]
    /\ journal = <<>>
    /\ dlq = <<>>
    /\ pc = [w \in Workers |-> "idle"]
    /\ held = [w \in Workers |-> NoJob]
    /\ result = [w \in Workers |-> NoResult]
    /\ tag = [w \in Workers |-> "none"]
    /\ postBy = [w \in Workers |-> 0]
    /\ handler = [h \in Handlers |-> IdleHandler]
    /\ replayOf = [r \in Relays |-> NoRelay]
    /\ fate = [r \in Relays |-> "unused"]
    /\ posts = [r \in Relays |-> 0]

------------------------------------------------------------------------------
(* Worker: Engine.tick and Engine.handle, one action per call. *)

\* broker.Lease
Lease(w) ==
    /\ pc[w] = "idle"
    /\ \E j \in Leasable(ready, inFlight, now) :
        /\ ready' = ready \ {j}
        /\ inFlight' = [inFlight EXCEPT ![j.store] = @ + 1]
        /\ held' = [held EXCEPT ![w] = j]
    /\ pc' = [pc EXCEPT ![w] = "get"]
    /\ UNCHANGED <<now, enabled, breaker, bucket, logVars, result, tag, postBy,
                   handler, history>>

BadGetStore(w) ==
    /\ pc[w] = "get"
    /\ pc' = [pc EXCEPT ![w] = IF enabled[held[w].store] THEN "allow" ELSE "release"]
    /\ UNCHANGED <<now, ready, storeVars, logVars, held, result, tag, postBy,
                   handler, history>>

\* stores.Get; a disabled store buries the job.
GetStore(w) ==
    /\ pc[w] = "get"
    /\ IF enabled[held[w].store]
       THEN /\ pc' = [pc EXCEPT ![w] = "allow"]
            /\ tag' = tag
       ELSE /\ pc' = [pc EXCEPT ![w] = "bury"]
            /\ tag' = [tag EXCEPT ![w] = "store_unavailable"]
    /\ UNCHANGED <<now, ready, storeVars, logVars, held, result, postBy,
                   handler, history>>

BadAllow(w) ==
    LET s == held[w].store IN
    /\ pc[w] = "allow"
    /\ breaker' = [breaker EXCEPT ![s] = AfterAllow(@, now)]
    /\ IF Admits(breaker[s], now)
       THEN /\ pc' = [pc EXCEPT ![w] = "take"]
            /\ UNCHANGED <<held, tag>>
       ELSE /\ pc' = [pc EXCEPT ![w] = "requeue"]
            /\ held' = [held EXCEPT ![w].notBefore = now + SkipDelay,
                                    ![w].attempt = @ + 1]
            /\ tag' = [tag EXCEPT ![w] = "skipped_open"]
    /\ UNCHANGED <<now, ready, enabled, inFlight, bucket, logVars, result,
                   postBy, handler, history>>

\* gates.Ensure, br.Allow; a refused job is put off without losing an attempt.
Allow(w) ==
    LET s == held[w].store IN
    /\ pc[w] = "allow"
    /\ breaker' = [breaker EXCEPT ![s] = AfterAllow(@, now)]
    /\ IF Admits(breaker[s], now)
       THEN /\ pc' = [pc EXCEPT ![w] = "take"]
            /\ UNCHANGED <<held, tag>>
       ELSE /\ pc' = [pc EXCEPT ![w] = "requeue"]
            /\ held' = [held EXCEPT ![w].notBefore = now + SkipDelay]
            /\ tag' = [tag EXCEPT ![w] = "skipped_open"]
    /\ UNCHANGED <<now, ready, enabled, inFlight, bucket, logVars, result,
                   postBy, handler, history>>

\* Bucket.Take; with no wait to serve, the attempt is counted and the POST
\* starts.  A delayed job goes back although Allow may have spent a probe.
Take(w) ==
    LET s == held[w].store
        r == held[w].relay
        wait == TakeWait(bucket[s], now)
    IN
    /\ pc[w] = "take"
    /\ bucket' = [bucket EXCEPT ![s] = AfterTake(@, now)]
    /\ IF wait > 0
       THEN /\ pc' = [pc EXCEPT ![w] = "requeue"]
            /\ held' = [held EXCEPT ![w].notBefore = now + wait]
            /\ tag' = [tag EXCEPT ![w] = "rate_delayed"]
            /\ UNCHANGED <<postBy, posts>>
       ELSE /\ pc' = [pc EXCEPT ![w] = "post"]
            /\ held' = [held EXCEPT ![w].attempt = @ + 1]
            /\ postBy' = [postBy EXCEPT ![w] = now + PostTimeout]
            /\ posts' = [posts EXCEPT ![r] = @ + 1]
            /\ UNCHANGED tag
    /\ UNCHANGED <<now, ready, enabled, inFlight, breaker, logVars, result,
                   handler, replayOf, fate>>

\* client.Post returns.
Answer(w) ==
    /\ pc[w] = "post"
    /\ \E res \in Outcomes : result' = [result EXCEPT ![w] = res]
    /\ pc' = [pc EXCEPT ![w] = "note"]
    /\ postBy' = [postBy EXCEPT ![w] = 0]
    /\ UNCHANGED <<now, ready, storeVars, logVars, held, tag, handler, history>>

NoteOf(w, kind) ==
    [relay |-> held[w].relay, store |-> held[w].store,
     attempt |-> held[w].attempt, kind |-> kind]

\* noteWithStatus: the attempt is journalled before it is acted upon.
Note(w) ==
    /\ pc[w] = "note"
    /\ journal' = Push(journal, NoteOf(w, Combine(result[w])), JournalMax)
    /\ pc' = [pc EXCEPT ![w] = "report"]
    /\ UNCHANGED <<now, ready, storeVars, dlq, held, result, tag, postBy,
                   handler, history>>

BadTold(b, kind, t) ==
    CASE kind = "success"   -> AfterSuccess(b)
      [] kind = "retryable" -> AfterFailure(b, t)
      [] OTHER              -> b

\* Every answer but a success counts against the store.
Told(b, kind, t) == IF kind = "success" THEN AfterSuccess(b) ELSE AfterFailure(b, t)

\* br.Success or br.Failure, and the decision what to do with the job.
Report(w) ==
    LET s == held[w].store
        r == held[w].relay
        kind == Combine(result[w])
    IN
    /\ pc[w] = "report"
    /\ breaker' = [breaker EXCEPT ![s] = Told(@, kind, now)]
    /\ \/ /\ kind = "success"
          /\ fate' = [fate EXCEPT ![r] = "delivered"]
          /\ pc' = [pc EXCEPT ![w] = "release"]
          /\ UNCHANGED <<held, tag>>
       \/ /\ kind = "retryable" /\ Exhausted(held[w].attempt)
          /\ pc' = [pc EXCEPT ![w] = "bury"]
          /\ tag' = [tag EXCEPT ![w] = "exhausted"]
          /\ UNCHANGED <<held, fate>>
       \/ /\ kind = "retryable" /\ ~Exhausted(held[w].attempt)
          /\ \E d \in Delays(held[w].attempt) :
                held' = [held EXCEPT ![w].notBefore = now + d]
          /\ pc' = [pc EXCEPT ![w] = "requeue"]
          /\ UNCHANGED <<tag, fate>>
       \/ /\ kind = "terminal"
          /\ pc' = [pc EXCEPT ![w] = "bury"]
          /\ UNCHANGED <<held, tag, fate>>
    /\ UNCHANGED <<now, ready, enabled, inFlight, bucket, logVars, result,
                   postBy, handler, replayOf, posts>>

BadAfterMove(t) == IF t = "none" THEN "requeue" ELSE "note_after"

\* The skip, delay and unavailable branches journal after the job has moved.
AfterMove(t) == IF t = "none" THEN "release" ELSE "note_after"

BadRequeue(w) ==
    /\ pc[w] = "requeue"
    /\ pc' = [pc EXCEPT ![w] = AfterMove(tag[w])]
    /\ UNCHANGED <<now, ready, storeVars, logVars, held, result, tag, postBy,
                   handler, history>>

\* broker.Enqueue of a job that keeps its place in the system.
Requeue(w) ==
    /\ pc[w] = "requeue"
    /\ ready' = ready \cup {held[w]}
    /\ pc' = [pc EXCEPT ![w] = AfterMove(tag[w])]
    /\ UNCHANGED <<now, storeVars, logVars, held, result, tag, postBy,
                   handler, history>>

\* dead.Push
Bury(w) ==
    LET j == held[w] IN
    /\ pc[w] = "bury"
    /\ dlq' = Push(dlq, [relay |-> j.relay, store |-> j.store,
                         attempt |-> j.attempt], DLQMax)
    /\ fate' = [fate EXCEPT ![j.relay] = "dead"]
    /\ pc' = [pc EXCEPT ![w] = AfterMove(tag[w])]
    /\ UNCHANGED <<now, ready, storeVars, journal, held, result, tag, postBy,
                   handler, replayOf, posts>>

KindOf(t) == IF t \in {"skipped_open", "rate_delayed"} THEN t ELSE "terminal"

\* e.note at the end of the branches that have no answer to journal.
NoteAfter(w) ==
    /\ pc[w] = "note_after"
    /\ journal' = Push(journal, NoteOf(w, KindOf(tag[w])), JournalMax)
    /\ pc' = [pc EXCEPT ![w] = "release"]
    /\ UNCHANGED <<now, ready, storeVars, dlq, held, result, tag, postBy,
                   handler, history>>

BadRelease(w) ==
    /\ pc[w] = "release"
    /\ inFlight' = [inFlight EXCEPT ![held[w].store] =
                       IF tag[w] # "none" /\ @ > 0 THEN @ - 1 ELSE @]
    /\ pc' = [pc EXCEPT ![w] = "idle"]
    /\ held' = [held EXCEPT ![w] = NoJob]
    /\ result' = [result EXCEPT ![w] = NoResult]
    /\ tag' = [tag EXCEPT ![w] = "none"]
    /\ UNCHANGED <<now, ready, enabled, breaker, bucket, logVars, postBy,
                   handler, history>>

\* The deferred broker.Release of tick; handle's locals go out of scope.
Release(w) ==
    /\ pc[w] = "release"
    /\ inFlight' = [inFlight EXCEPT ![held[w].store] =
                       IF @ > 0 THEN @ - 1 ELSE @]
    /\ pc' = [pc EXCEPT ![w] = "idle"]
    /\ held' = [held EXCEPT ![w] = NoJob]
    /\ result' = [result EXCEPT ![w] = NoResult]
    /\ tag' = [tag EXCEPT ![w] = "none"]
    /\ UNCHANGED <<now, ready, enabled, breaker, bucket, logVars, postBy,
                   handler, history>>

WorkerStep(w) ==
    \/ Lease(w) \/ GetStore(w) \/ Allow(w) \/ Take(w) \/ Answer(w) \/ Note(w)
    \/ Report(w) \/ Requeue(w) \/ Bury(w) \/ NoteAfter(w) \/ Release(w)

------------------------------------------------------------------------------
(* HTTP handlers *)

\* Pipeline.Handle from Matching on: one new relay for each matching store.
\* Which enabled stores match depends on the frame's type.
Ingest(h) ==
    /\ handler[h].pc = "idle"
    /\ \E matched \in SUBSET {s \in Stores : enabled[s]} :
        /\ matched # {}
        /\ \E id \in [matched -> Unused] :
            /\ \A s, u \in matched : id[s] = id[u] => s = u
            /\ handler' = [handler EXCEPT ![h] =
                  [pc |-> "enqueue", target |-> NoRelay, at |-> 0,
                   plan |-> {NewJob(id[s], s, now) : s \in matched}]]
            /\ fate' = [r \in Relays |->
                  IF \E s \in matched : id[s] = r THEN "live" ELSE fate[r]]
    /\ UNCHANGED <<now, ready, storeVars, logVars, workerVars, replayOf, posts>>

BadReplayed(h, item, n, t, target) ==
    /\ handler' = [handler EXCEPT ![h] =
          [pc |-> "enqueue", target |-> target, at |-> 0,
           plan |-> {NewJob(item.relay, item.store, t)}]]
    /\ UNCHANGED <<fate, replayOf>>

\* The job FromDLQ or FromJournal makes of a logged item.
Replayed(h, item, n, t, target) ==
    /\ handler' = [handler EXCEPT ![h] =
          [pc |-> "enqueue", target |-> target, at |-> 0,
           plan |-> {NewJob(n, item.store, t)}]]
    /\ fate' = [fate EXCEPT ![n] = "live"]
    /\ replayOf' = [replayOf EXCEPT ![n] = item.relay]

\* App.Replay: Dead.Get, and on a miss on to the journal.
Replay(h, r) ==
    /\ handler[h].pc = "idle"
    /\ fate[r] # "unused"
    /\ \/ /\ Mentions(dlq, r)
          /\ \E n \in Unused : Replayed(h, Newest(dlq, r), n, now, r)
       \/ /\ ~Mentions(dlq, r)
          /\ handler' = [handler EXCEPT ![h] =
                [pc |-> "journal", target |-> r, plan |-> {}, at |-> now]]
          /\ UNCHANGED <<fate, replayOf>>
    /\ UNCHANGED <<now, ready, storeVars, logVars, workerVars, posts>>

\* App.Replay: Log.Get; an id neither log knows is an error to the caller
\* (and so, within the bound on Relays, is a replay with no id left to mint).
ReplayJournal(h) ==
    LET r == handler[h].target IN
    /\ handler[h].pc = "journal"
    /\ \/ /\ Mentions(journal, r)
          /\ \E n \in Unused :
                Replayed(h, Newest(journal, r), n, handler[h].at, NoRelay)
       \/ /\ ~Mentions(journal, r) \/ Unused = {}
          /\ handler' = [handler EXCEPT ![h] = IdleHandler]
          /\ UNCHANGED <<fate, replayOf>>
    /\ UNCHANGED <<now, ready, storeVars, logVars, workerVars, posts>>

\* broker.Ensure and broker.Enqueue of one planned relay.
Enqueue(h) ==
    /\ handler[h].pc = "enqueue"
    /\ \E j \in handler[h].plan :
        LET rest == handler[h].plan \ {j} IN
        /\ ready' = ready \cup {j}
        /\ handler' = [handler EXCEPT ![h] =
              IF rest # {} THEN [@ EXCEPT !.plan = rest]
              ELSE IF @.target # NoRelay
                   THEN [@ EXCEPT !.plan = rest, !.pc = "remove"]
              ELSE IdleHandler]
    /\ UNCHANGED <<now, storeVars, logVars, workerVars, history>>

\* Dead.Remove; another replay may have taken the item already.
DropDead(h) ==
    /\ handler[h].pc = "remove"
    /\ dlq' = RemoveDead(dlq, handler[h].target)
    /\ handler' = [handler EXCEPT ![h] = IdleHandler]
    /\ UNCHANGED <<now, ready, storeVars, journal, workerVars, history>>

\* Registry.SetEnabled
SetEnabled(s) ==
    /\ enabled' = [enabled EXCEPT ![s] = ~@]
    /\ UNCHANGED <<now, ready, inFlight, breaker, bucket, logVars, workerVars,
                   handler, history>>

\* Gates.Public and Gates.Snapshot read the breakers one after the other, each
\* under its own mutex; reading one may half-open it.
Poll(s) ==
    /\ breaker' = [breaker EXCEPT ![s] = MaybeHalfOpen(@, now)]
    /\ UNCHANGED <<now, ready, enabled, inFlight, bucket, logVars, workerVars,
                   handler, history>>

------------------------------------------------------------------------------
(* Time *)

\* No worker and no enqueueing handler has a step to take, and some job or POST
\* is waiting for time to pass.
Waiting ==
    /\ \A w \in Workers : pc[w] \in {"idle", "post"}
    /\ \A h \in Handlers : handler[h].pc # "enqueue"
    /\ (\E w \in Workers : pc[w] = "idle") => Leasable(ready, inFlight, now) = {}
    /\ ready # {} \/ \E w \in Workers : pc[w] = "post"

\* The client's timeout bounds how long a POST stays unanswered.
Tick ==
    /\ now < MaxTime
    /\ \A w \in Workers : pc[w] = "post" => now < postBy[w]
    /\ Urgent => Waiting
    /\ now' = now + 1
    /\ UNCHANGED <<ready, storeVars, logVars, workerVars, handler, history>>

\* Requests, operators, monitors and the clock.
Around ==
    \/ \E h \in Handlers :
          \/ Ingest(h) \/ ReplayJournal(h) \/ Enqueue(h) \/ DropDead(h)
          \/ \E r \in Replayable : Replay(h, r)
    \/ \E s \in Switchable : SetEnabled(s)
    \/ \E s \in Stores : Poll(s)
    \/ Tick

Next == (\E w \in Workers : WorkerStep(w)) \/ Around

Spec == Init /\ [][Next]_vars

------------------------------------------------------------------------------
(* Fairness: goroutines that can run do run, a POST is answered no later    *)
(* than its timeout, and time passes.  Nothing is asked of the operator or  *)
(* of the rig.                                                              *)

HandlerStep(h) == ReplayJournal(h) \/ Enqueue(h) \/ DropDead(h)

Fairness ==
    /\ \A w \in Workers : WF_vars(WorkerStep(w))
    /\ \A h \in Handlers : WF_vars(HandlerStep(h))
    /\ WF_vars(Tick)

FairSpec == Spec /\ Fairness

------------------------------------------------------------------------------
(* Properties *)

\* Type correctness.  Only a busy worker holds a job and only one past its
\* POST has a result.  (A relay is lost by a restart only: see Recovery.)
TypeOK ==
    /\ now \in Time
    /\ enabled \in [Stores -> BOOLEAN]
    /\ ready \subseteq Job
    /\ inFlight \in [Stores -> Nat]
    /\ breaker \in [Stores -> BreakerType]
    /\ bucket \in [Stores -> BucketType]
    /\ journal \in Seq(Entry)
    /\ dlq \in Seq(DeadItem)
    /\ pc \in [Workers -> PCs]
    /\ held \in [Workers -> Job \cup {NoJob}]
    /\ result \in [Workers -> ResultType \cup {NoResult}]
    /\ tag \in [Workers -> Tags]
    /\ postBy \in [Workers -> Time]
    /\ handler \in [Handlers -> Handler]
    /\ replayOf \in [Relays -> Relays \cup {NoRelay}]
    /\ fate \in [Relays -> {"unused", "live", "delivered", "dead", "lost"}]
    /\ posts \in [Relays -> Nat]
    /\ \A w \in Workers : pc[w] # "idle" => held[w] \in Job
    /\ \A w \in Workers : pc[w] \in {"note", "report"} => result[w] \in ResultType

InReady(r) == \E j \in ready : j.relay = r
InPlan(r) == \E h \in Handlers : \E j \in handler[h].plan : j.relay = r
Owns(w) == pc[w] \in Owning
IsHeld(r) == \E w \in Workers : Owns(w) /\ held[w].relay = r

LiveIsSomewhere ==
    \A r \in Relays : fate[r] = "live" => InReady(r) \/ InPlan(r) \/ IsHeld(r)

SomewhereIsLive ==
    /\ \A j \in ready : fate[j.relay] = "live"
    /\ \A h \in Handlers : \A j \in handler[h].plan : fate[j.relay] = "live"
    /\ \A w \in Workers : Owns(w) => fate[held[w].relay] = "live"

NowhereTwice ==
    /\ \A j, k \in ready : j.relay = k.relay => j = k
    /\ \A g, h \in Handlers : \A j \in handler[g].plan, k \in handler[h].plan :
          j.relay = k.relay => g = h /\ j = k
    /\ \A v, w \in Workers :
          Owns(v) /\ Owns(w) /\ held[v].relay = held[w].relay => v = w
    /\ \A r \in Relays :
          /\ ~(InReady(r) /\ InPlan(r))
          /\ ~(InReady(r) /\ IsHeld(r))
          /\ ~(InPlan(r) /\ IsHeld(r))

\* No relay is lost or duplicated: an accepted relay that is neither delivered
\* nor dead is in exactly one place (a ready heap, a handler about to enqueue
\* it, or one worker), and a settled one is in none.  This is what handle's
\* branches owe each other: each ends in exactly one of Success, Enqueue, Push.
Conservation == LiveIsSomewhere /\ SomewhereIsLive /\ NowhereTwice

Busy(s) == {w \in Workers : pc[w] # "idle" /\ held[w].store = s}

\* The broker's in-flight count is the number of workers on the store and never
\* exceeds the store's limit, so an ordered store has one relay under way at a
\* time (PROJECT.md 3.3, "`ordered=true` serializes relays on that store").
InFlightExact ==
    \A s \in Stores :
        /\ inFlight[s] = Cardinality(Busy(s))
        /\ inFlight[s] <= MaxFlight(s)

\* The attempt number a job carries is the number of POSTs made for it; being
\* skipped by the breaker or delayed by the limiter costs none (PROJECT.md 3.6:
\* "it is not a business failure attempt"), and a process posts no relay more than
\* MaxAttempts times.
AttemptsArePosts ==
    /\ \A r \in Relays : posts[r] <= MaxAttempts
    /\ \A j \in ready : j.attempt = posts[j.relay] /\ j.attempt < MaxAttempts
    /\ \A h \in Handlers : \A j \in handler[h].plan :
          j.attempt = 0 /\ posts[j.relay] = 0
    /\ \A w \in Workers : Owns(w) => held[w].attempt = posts[held[w].relay]
    /\ \A i \in DOMAIN dlq : dlq[i].attempt = posts[dlq[i].relay]

\* Every store's breaker keeps its shape under concurrent reports of workers.
BreakersOK == \A s \in Stores : BreakerShape(breaker[s])

\* The dead letter queue lists a relay once, and only relays given up on.
DeadOnce ==
    /\ \A i \in DOMAIN dlq : fate[dlq[i].relay] = "dead"
    /\ \A i, k \in DOMAIN dlq : dlq[i].relay = dlq[k].relay => i = k

\* The worker that is about to report the success of r.
Reporting(w, r) ==
    pc[w] = "report" /\ held[w].relay = r /\ Combine(result[w]) = "success"

\* Once a success is journalled the relay is never queued or posted again: the
\* only worker that may still hold it is the one about to report the success.
JournalledSuccessIsFinal ==
    \A i \in DOMAIN journal : journal[i].kind = "success" =>
        LET r == journal[i].relay IN
        /\ ~InReady(r) /\ ~InPlan(r)
        /\ \A w \in Workers : Owns(w) /\ held[w].relay = r => pc[w] = "report"

\* A dead letter leaves the queue only as the oldest of a full one that gets a
\* newer item, or after a replay of it has been enqueued: App.Replay enqueues
\* before it removes, so no interleaving of two replays and the workers drops
\* a frame.
DeadLetterKept ==
    [][\A r \in Relays : Mentions(dlq, r) /\ ~Mentions(dlq', r) =>
          \/ Len(dlq) = DLQMax /\ Len(dlq') = DLQMax /\ dlq[1].relay = r
          \/ \E n \in Relays : /\ replayOf[n] = r
                               /\ fate[n] # "unused"
                               /\ ~InPlan(n)]_vars

\* The probe budget of a half-open breaker is spent.
ProbesSpent(s) == breaker[s].state = "half_open" /\ breaker[s].probesLeft = 0

\* Workers the breaker of store s admitted that have yet to report to it.
Admitted(s) == {w \in Workers : /\ pc[w] \in {"take", "post", "note", "report"}
                               /\ held[w].store = s}

\* A worker that goes back with its job because the bucket of s is short.
DelayedOn(s) ==
    \E w \in Admitted(s) : pc[w] = "take" /\ pc'[w] = "requeue"

\* A half-open breaker whose probe budget is spent is waiting for somebody: a
\* worker it admitted has yet to report (PROJECT.md 3.6: "allow `probe` (default
\* 1) probes; success -> Closed and clear count; failure -> Open again").
\* Otherwise it refuses every job of the store for good, for nothing but a
\* report takes it out of half-open.
ProbeOutstanding == \A s \in Stores : ProbesSpent(s) => Admitted(s) # {}

\* A store refused for good: the last probe is spent and nobody will report.
Wedged(s) == ProbesSpent(s) /\ Admitted(s) = {}

\* Nothing but the rate limiter loses a probe, by sending the last worker the
\* breaker admitted back to the queue; no interleaving of answers, reports of
\* any kind, polls, switches or skipped jobs does.  And once lost it is lost:
\* no step of a running process lets the store be tried again.
WedgedByDelayForGood ==
    [][\A s \in Stores :
          /\ Wedged(s) => Wedged(s)'
          /\ Wedged(s)' => Wedged(s) \/ DelayedOn(s)]_vars

\* Units in the bucket of store s, with what it has earned until now.
Level(s) == Refill(bucket[s], now).tokens

\* A POST to store s starts.
PostStarts(s) ==
    \E w \in Workers : pc[w] = "take" /\ pc'[w] = "post" /\ held[w].store = s

\* PROJECT.md 3.7: the token bucket is what bounds the rate of POSTs to a store.
\* Only time fills it, at Rate a tick, and a POST either takes a whole token out
\* or, because the wait is truncated to the tick, finds it short of one by less
\* than a tick's earnings.  However workers interleave, nothing is earned twice.
PostsPaid ==
    [][\A s \in Stores :
          /\ Level(s)' <= Level(s) + Rate * (now' - now)
          /\ PostStarts(s) => \/ Level(s)' = Level(s) - Unit
                              \/ Level(s) < Unit /\ Unit - Level(s) < Rate]_vars

\* PROJECT.md 3.4: "Retryable: 408, 429, 500-599, network errors, timeouts."
\* A relay whose last POST failed in the network is not given up on while it
\* has attempts left.
NetworkErrorsRetried ==
    \A w \in Workers :
        pc[w] = "bury" /\ result[w] # NoResult /\ result[w].err # "none" =>
            Exhausted(held[w].attempt)

\* Every accepted relay is eventually delivered or dead-lettered, through
\* failures, an open breaker, half-open probes and stores switched off.
Settles ==
    \A r \in Relays :
        fate[r] = "live" ~> fate[r] \in {"delivered", "dead"}

------------------------------------------------------------------------------
Promise == INSTANCE Delivery WITH status <- fate, tries <- posts, origin <- replayOf

\* The relay core keeps the promise of module Delivery: through skips, delays,
\* retries, exhaustion, switched-off stores and replays of replays, a relay is
\* settled once and for good, never after more than MaxAttempts POSTs, never
\* delivered without one, and a replay is always a fresh relay of a known one.
RefinesDelivery == Promise!Spec
==============================================================================
