# A TLA+ model of mudlog

mudlog receives signed mud-logging frames from a rig and relays each of them to
one or more geology stores over HTTP, with retries, a circuit breaker and a rate
limiter per store, a dead letter queue, an attempt journal and operator replay.
This directory models its concurrent core, checks it with TLC on small
instances, and proves the main safety properties with TLAPS for all values of
the constants. Section numbers such as "3.6" are those of `PROJECT.md` of the
repository.

## Inventory

The process is a set of goroutines over shared objects, each object behind its
own mutex. HTTP handlers run concurrently with each other and with the workers
(`Cfg.Workers` goroutines that tick every 25 ms) and with the snapshot loop
(every 5 s). No lock is held from one call on a shared object to the next (the
gates' own mutex only guards the map of breakers while a listing walks it), so
**the unit of interleaving is one call on one object**, and that is the unit of
an action here.

| Component | State | Operations that change it | Used by | What makes it correct |
|---|---|---|---|---|
| `circuit` | state, failure count, opening time, probes left | Allow, Success, Failure, Snapshot (may half-open), Restore | workers, `GET /circuits`, snapshot loop | counts consecutive failures; admits nobody early; no probe unaccounted for |
| `ratelimit` | tokens, last refill | Take | workers | never negative, never above burst |
| `runtime` (gates) | breaker and bucket per store | Ensure, Restore | workers, snapshot loop | one breaker per store |
| `backoff`, `classify` | none | | workers | bounded attempts, right kind of outcome |
| `queue` | per store: heap of due jobs, in-flight count | Ensure, Enqueue, Lease, Release, Restore | workers, handlers, snapshot loop | no job lost or doubled; the limit of a store holds |
| `worker` | locals of `handle` | tick: Lease, handle, Release | | every branch moves its job exactly once |
| `journal`, `dlq` | bounded lists | Append; Push, Remove; Restore | workers, replay, snapshot loop | dead letters stay until replayed or evicted |
| `app.Replay`, `replay` | | new relay from a dead letter or a journal entry | handlers | a replay is a new relay, and drops nothing |
| `ingest` | | Verify, nonce, idempotency, match, enqueue | handlers | one frame per key and TTL; truthful answers; complete fan-out |
| `idempotency`, `nonce` | records with expiry | Remember, CheckAndRemember, sweeps, Restore | handlers, snapshot loop | see above |
| `geology` | stores, enabled flag | Create, SetEnabled | handlers, workers | |
| `store`, `cmd/mudlog` | snapshot file | Capture + Save, Load + Apply | snapshot loop, signal, start | the file has a relay in one state only; nothing it holds is lost or doubled by a restart |

What is hard to test here: reports of POSTs of different ages meeting one
breaker; a job that is requeued and leased again while its former holder is still
inside `handle`; a probe handed to a job that the limiter then turns away; two
replays of one dead letter with both logs evicting; two requests with one
idempotency key between two mutexes; records that expire at the very tick they
are read; a store switched off under way; a snapshot read piece by piece while
all of this goes on, and a process that ends in the middle of it. `PROJECT.json`
lists these hazards at their lines, with the property that covers each.

## Modules

| Module | Models | Notes |
|---|---|---|
| `Circuit` | `internal/circuit` | operators on a breaker record, one per method |
| `Breaker` | one breaker with concurrent callers | actions Allow, Success, Failure, Forget, Save, Poll, Restart, Tick |
| `Classify` | `internal/classify` | status and error class to kind |
| `Backoff` | `internal/backoff` | attempt limit, set of possible delays |
| `TokenBucket` | `internal/ratelimit` | operators on a bucket record, `Unit` units to a token in place of floats |
| `Queue` | `internal/queue` | which jobs a lease may take |
| `Relay` | `internal/worker` composed with all of the above, the logs, replay and fan-out | the core |
| `Ingest` | `internal/ingest` with the nonce book and the idempotency store | |
| `Delivery` | the promise about a relay: accepted, tried, settled, reissued | abstract; `Relay!RefinesDelivery` maps it to the history variables |
| `Acceptance` | the promise to the rig: a request is decided at one moment, an accepted frame is handed on once per store | abstract; `Ingest!RefinesAcceptance` maps it |
| `Durable` | the promise about a relay when the process may die | abstract, extends `Delivery`; `Recovery!RefinesDurable` maps it |
| `Recovery` | `internal/store`, `App.snapshotLoop`, `app.New` and `main` around `Relay` | every step of `Relay`, plus capture, write, signal, exit, crash, restart |
| `IngestRecovery` | the same file around `Ingest` | records, nonces and queues |
| `MCBreaker`, `MCRelay`, `MCRecovery`, `MCIngest`, `MCIngestRecovery` | instances for TLC | |
| `CircuitProofs`, `BreakerProofs`, `RelayTypeProofs`, `RelayProofs`, `DeliveryProofs`, `LogProofs`, `RecoveryProofs`, `IngestProofs` | proofs | |

Definitions named `Bad...` or `Early...` are wrong variants of the definition
after them. They are not part of any specification; `PROJECT.json` pairs each
with the property that fails when it takes the definition's place.

**Relay.** `ready` is the union of the stores' heaps; a heap promises only that
its root is minimal, so any minimal job may come out. A worker's `pc` is its
next call: `Lease`, `GetStore` (`stores.Get`), `Allow`, `Take` (and the start of
the POST), `Answer` (`client.Post` returns), `Note` (journal), `Report`
(`br.Success`/`br.Failure` and the decision), `Requeue` or `Bury`, `NoteAfter`
(the branches that journal last), `Release`. `held`, `result`, `tag` and
`postBy` are the locals of `handle`. A handler has a `plan` of jobs it has built
and not yet enqueued: `Ingest` and `Replay`/`ReplayJournal` fill it, `Enqueue`
empties it, `DropDead` is `Dead.Remove`. `fate` and `posts` are history: what
became of a relay, and how often it was posted. A job is what scheduling reads;
body, type and secrets are not represented. Relay ids are never reused
(`idgen`), so an id is drawn from those still unused.

**Delivery.** What an operator may rely on, in five actions over `status`,
`tries` and `origin`: `Accept`, `Reissue`, `Try`, `Deliver`, `GiveUp`. `Relay`
implements it with `status <- fate`, `tries <- posts`, `origin <- replayOf`. The
history variables are set where the code acts: `posts` where the POST starts,
`fate` at the branch of `handle` that ends the relay. So the refinement says that
these branches come in the promised order for each relay, whatever the queue, the
breaker, the limiter and the other actors do in between.

**Durable.** `Delivery` plus what a restart may and may not do. `Working` is a
step of `Delivery`; `TakeOver` is a new process, which may know less than the old
one (a relay settled since the last save is live again, one accepted since is
`lost`, tries are forgotten) and invents nothing. `posted` counts the tries of all
processes, those forgotten included. `gone` are the relays nobody has a job of:
they are through in the process and in neither the file nor the snapshot under
construction. `Forever` says that `gone` only grows and that nothing in it is
posted again. `Recovery` implements it with `gone <- {r : Gone(r)}` and
`posted <- sent`, and
`RecordedIsGone` connects it with the disk: what the file lists as dead or
delivered is gone.

**Acceptance.** What the rig may rely on: no nonces, no records, no expiry, no
sweeps. A request is decided in one step against the frames accepted within the
TTL: `Repeat` when its key stands for one, with that frame's id, `Accept` when it
stands for none, `Refuse` otherwise. `Plan` and `Relay` hand the frame on, each
relay once and all of them before the 202. `Ingest` implements it with
`relayed <- queued`, `accepted` as it is, and each handler seen through `Stage`,
which merges the nonce check into the decision. The step that decides is
`Remember`: the refinement says that the record it reads, kept by key, expiring
at a tick of its own, swept by others and overwritten by racing handlers, answers
as the set of accepted frames does.

**Recovery.** `Work` and `Rest` are the steps of `Relay` while the process runs.
The snapshot loop is an actor of its own: `StartSave`, then `Capture` once for
each object in the order of `store.Capture`'s composite literal (Go evaluates the
calls left to right), `CaptureGate` once for each breaker (reading one may
half-open it), then `Write`, which renames the file into place or fails and
leaves the old one. `Signal` cancels the context: workers finish what they do and
may still win the `select` for another lease, a POST under way may be cancelled,
one that starts afterwards can only fail (`doomed`). `Exit` is `main`'s return: it
waits for the requests being served and for nobody else. `Crash` ends the process
at any step. `Boot` is `app.New`: the file as it is, empty slots, full buckets,
idle goroutines. `FateOnRestart` takes the fates from what the file says; a live
relay that the file does not have is `lost`, a fate nothing but a restart
produces. Relay ids handed out before a restart stay used. POSTs have two
histories. `sent` counts every POST of every process and no restart touches it.
`posts` is what the running process can know: the snapshot remembers, beside its
code-visible fields, how many POSTs had been made for a relay when its dead letter
or its job was read (`PostsOf`), and a start takes `posts` from there, not from
the attempt number in the file. So `AttemptsCarriedOver` compares the two, and a
POST made after the queues were read is in `sent` and not in `posts`.

**IngestRecovery.** The other half of the file. `Capture` reads stores, records,
nonces and queues in that order beside the handlers; the queues' part may be any
subset of what was enqueued, because workers take relays out meanwhile.

**Ingest.** A request is what arrives: a stamp, a nonce and a body, which are
what the rig signed (`Signature`, after `CanonicalV1`), and the `Idempotency-Key`
header, which is not signed. It may arrive any number of times at any time, and
one signature may arrive under several keys. `form` says what is wrong with it,
if anything, and `Verdict` applies the checks in the order of the code. From
there every call on a shared object is an action: `CheckNonce`, `Remember`,
`Match`, `Enqueue`. `Sweep...` are the snapshot loop's reads, which delete what
has expired. The clock has `Second` ticks to the second because stamps and the
window comparison are in whole seconds and expiry times are not.

**Breaker.** The breaker alone, under more freedom than the workers use: any
number of permits out, reported in any order or never, plus a restart from a
saved snapshot at any point. `streak`, `tripped` and `lost` are history; the
first two are saved and restored with the snapshot they belong to.

## Runs

| Run | Instance | Shows |
|---|---|---|
| `breaker` | 3 callers, threshold 2, open 2 ticks, 2 probes, 6 ticks, 2 restarts | `ShapeInv`, `ClosedIffShortStreak`, `ProbeLedger`, `OpenPeriodServed`, `StuckForGood` |
| `relay_core` | 2 workers, 1 store with 2 slots that is switched off and on, 2 relays, 2 attempts, threshold 1, 20 ticks; tokens to spare; fair | `Conservation`, `InFlightExact`, `AttemptsArePosts`, `BreakersOK`, `ProbeOutstanding`, `RefinesDelivery`, `Settles` |
| `relay_stores` | 2 stores, one ordered and switchable, 2/5 of a token per tick and a burst of one | `Conservation`, `InFlightExact`, `AttemptsArePosts` with fan-out, rate delays and unavailable stores; `PostsPaid`, `WedgedByDelayForGood` |
| `relay_replay` | 2 handlers, 2 workers, 3 relays, both logs of length 2 | `Conservation`, `DeadOnce`, `JournalledSuccessIsFinal`, `DeadLetterKept`, `RefinesDelivery` |
| `recovery` | 1 worker, 1 handler, 1 store, 2 relays, both logs of length 1, 1 restart, any save may fail | `Conservation`, `AttemptsCarriedOver`, `DeadOnce`, `JournalledSuccessIsFinal` across the restart; `FileCoherent`, `RecordedIsGone`, `RefinesDurable` |
| `ingest` | 2 handlers, 3 requests with one key, one of their signatures under a second key and two refused ones, 2 stores, one switchable, window 1 s, TTL 3.5 s, 7 half seconds | `OneFramePerKey`, `ResentOnce`, `NonceSpaced`, `AnswersTruthful`, `FanOutAccounted`, `RefinesAcceptance` |

`TypeOK` is checked once per component. Deadlock is checked in every run; no
specification can get stuck: polls and sweeps are always possible, and `Exit`
happens only while a restart is left to take.

*Why the bounds are enough.* Two workers on one store already give every race of
this code: each race is between two calls on one object, and a third worker
repeats the second one's part. Three callers in `breaker` leave one probe out,
one early permit and one newcomer at once, over three open periods. Two relays
compete for the slots and the probe; a third is needed only for a replay of a
replay, and `relay_replay` has it. Logs of length 1 or 2 evict immediately. Two
attempts separate "retry" from "exhausted". In `relay_stores` 5 units to a token
and 2 per tick make both kinds of wait: one that is truncated to 0, whose POST
costs nothing, and one that delays. In `ingest` a frame accepted at 0
expires at tick 7, the last one, where its key may be accepted again; the TTL is
the smallest that `LongTTL` allows for the first stamp, so one tick less breaks
`ResentOnce`. Of the refused forms there is one that `Verify` refuses before it
looks at the stamp and one that it refuses after: the others differ from them in
the status only, and the proofs have all of them. In
`recovery` one worker suffices because the races that matter there are between an
actor that moves a relay and the snapshot loop that reads the places it moves
between; one restart suffices because `Boot` depends on the file, the clock and
the history alone. Its clock stands still, with backoff delays of 0 among the
possible ones; a second worker, the slots and a moving clock are left to the
proofs. A restart from a file older than the last POST is among its behaviours, so
`posts` and `sent` do come apart in it; that they stay within `MaxAttempts` per
process (`PostsPerProcess`) is left to the proofs too, because the single token of
its bucket lets no process reach the limit.
Where a bound could hide something, the proofs below do not have it. Symmetry is
used for workers, relays, handlers and callers, in safety runs only.

*Fairness.* `relay_core` assumes weak fairness of each worker and each handler
with a step to take (goroutines that can run are scheduled; a worker with nothing
to lease polls again every 25 ms), and of the clock. A POST is answered no later
than `PostTimeout` (`http.Client.Timeout`), which `Tick` enforces. Nothing is
assumed about the stores' answers, the operator or the rig: the operator may keep
switching the store, and the store may fail for ever. `Urgent` makes time pass
only when no worker or handler can move: the steps between two waits take
microseconds, the shortest wait in the code is 25 ms. Without it a bounded clock
could run out before the workers had moved at all. `Settles` holds because tokens
are to spare there; `relay_probe` shows what happens otherwise.

### Where code and documents disagree

Six runs are expected to end in a violation; each checks a sentence of
`PROJECT.md`.

* `relay_probe` (`ProbeOutstanding`): `handle` asks the breaker before the
  limiter. When the job that got the half-open probe is rate-delayed, nobody
  reports the probe, and a half-open breaker with an empty budget is left only by
  a report: the store's jobs are skipped every 200 ms from then on. `relay_core`
  checks the same property with tokens to spare, where it holds, so scarcity is
  the cause, and `relay_stores` checks `WedgedByDelayForGood`: nothing but a rate
  delay swallows a probe, and no step of the process ever gives it back. The data
  flow of section 7 has the opposite order.
* `breaker_open` (`OpenHolds`): a success of a POST from before the trip closes
  an open breaker ahead of time (3.6). What does hold is
  `ClosedIffShortStreak` and, while no success comes in, `OpenPeriodServed`.
* `relay_net` (`NetworkErrorsRetried`): network errors outside a fixed list, such
  as an unresolvable host, are terminal (3.4).
* `ingest_nonce` (`NonceOnceInWindow`): a nonce is remembered for one window from
  its arrival, a signature is valid for up to two, so a late duplicate passes the
  nonce check again (3.1). Under its own idempotency key the record answers it
  (`ResentOnce`). The signature does not cover the key, so under another key it is
  a second frame; what is left is `NonceSpaced`: such frames lie a window apart.
* `recovery_shutdown` (`ShutdownSaves`): `main` returns without waiting for the
  final save, so a relay in its queue may be in no file (3.9).
* `ingest_recovery` (`NotEnqueuedAgain`): the records are read before the queues.
  A frame remembered and enqueued between the two reads is restored with its
  relays and without its record, and the rig's retry is enqueued as a second
  frame (3.2). Reading the queues first would not do either: a record without its
  relays makes the retry a duplicate of a frame nobody relays. The relay core's
  part of the file has no such gap, see `FileCoherent`.

`ProbeOutstanding` fails only where a store earns fewer tokens in an open period
than it may need at the end of it; `Reserve`, below, says how many that is. The
settings a store gets by default (20 per second, 30 s open, 4 workers, 1 probe)
are far above it, and nothing keeps an operator from a store below it.

Seen in the code but too plain for a run: the ceiling of the backoff is `base *
2^(attempt-1)` with attempts counted from 1 (`backoff.go:42`), where 3.5 writes
`base * 2^attempt`, so every delay is drawn from half the documented range; a
relay may get more POSTs than `maxAttempts` (3.5) when the process dies after
POSTs that no save has seen (`AttemptsCarriedOver` says which ones count,
`PostsPerProcessCorrect` bounds the sum by `maxAttempts` per process); a job that
is skipped or delayed before its first POST is journalled with attempt 0
(`worker.go:79`, `:88`, `:95`), where 3.5 says that attempt numbers start at 1;
and `CheckRedirect` never follows a redirect, where 3.4 allows one to the same
host (`wits.go:52`).

## Proofs

All theorems are about the specifications as they are, with any sets of workers,
handlers, stores, relays and requests and any values of the settings. The
assumptions are the named `ASSUME`s: settings that `normalize`, `Validate` and
`New` guarantee to be positive, finite sets of workers and callers, and
placeholders (`NoJob`, `NoRecord`...) that are not real values.

* **Breaker** (`BreakerProofs`). `IndInv` is inductive: types, the shape of the
  breaker and of its snapshot, agreement of both with the history (`Agrees`) and
  the probe ledger. Shape is needed for the ledger (a budget only in half-open),
  and the snapshot's half for `Restart`. `BreakerTypeCorrect`, `ShapeCorrect`,
  `ClosedIffShortStreakCorrect` and `ProbeLedgerCorrect` follow; `Dated` adds
  that an open or half-open breaker was opened when `tripped` says, in the
  running process and in the snapshot, and gives the action property
  `OpenPeriodServedCorrect`: a trip by a failed probe, a poll and a restart in
  between are what it is about. `StuckForGoodCorrect`, an action property too,
  uses the ledger: once the last permit of a half-open breaker without budget is
  gone, all its probes are lost. A restart from a snapshot with a spent budget
  brings that about at once, and from the moment the file holds it nothing but
  replacing the file ends it. The lemmas of `CircuitProofs` say what each method
  preserves and are shared with the relay.
* **Relay** (`RelayTypeProofs`, `RelayProofs`). `RelayTypeCorrect` proves
  `TypeOK` and `BreakersOK` together, as `Trip` and `AfterAllow` are well typed
  only on breakers of the right shape; `BreakersCorrect` is its second half.
  `ConservationCorrect` uses
  `Conserved`, which adds to `Conservation` that only a handler about to enqueue
  has a plan: without it an idle handler could overwrite one. Its lemmas are one
  per way a job can move (leased, kept, settled, requeued, planned, enqueued).
  `InFlightCorrect` is inductive with the types alone, by the cardinality of the
  set of workers on a store, and gives `OrderedSerialized`. `AttemptsCorrect`
  uses `Attempts`, which adds that a job not yet posted in this pass has attempts
  left and that an unused relay was never posted; it rests on `Conserved`,
  because a second copy of a relay would be posted without the first one's
  attempt number moving.
* **Probes and tokens** (`RelayTypeProofs`, `RelayProofs`). A store is `Wedged`
  when its half-open breaker has no probe left and nobody admitted who could
  report. `WedgedByDelayForGoodCorrect`, an action property: only a step in which
  `Take` answers a wait brings this about, and no step of anybody ends it. So
  `ProbeOutstanding` holds in every behaviour in which the limiter sends nobody
  back (`ProbesReported`; the hypothesis is about the behaviour, not about the
  settings). `ProbeOutstandingCorrect` gives settings that guarantee it, `Reserve`:
  in one open period a store earns a token for each probe and for each worker but
  one, and its bucket can hold them. It limits neither the number of relays nor
  the delays of a closed breaker's jobs. The invariant `Reserved` says why: as
  long as a breaker is not closed, its bucket will have, by the time it may next
  admit somebody, a token for every worker it admitted before that has yet to ask
  the limiter and for every probe it can hand out. A trip is made by a worker past
  the limiter, so `Cardinality(Workers) - 1` others at most can still be on their
  way (`Takers`), and the open period earns what they and the probes need.
  `PostsPaidCorrect`: over any stretch of a run a store's
  bucket gains at most `Rate` per tick and pays a token for each POST; the only
  POST that is not paid in full is one that found the bucket short by less than a
  tick's earning, where the wait is truncated to 0 and the code leaves the bucket
  as it was.
* **Delivery** (`DeliveryProofs`). `DeliveryRefined`: the initial states map, and
  each action of `Relay` maps to one of `Delivery` or to a stutter. A delivery
  needs a POST before it and a POST an attempt left, which is why the step
  lemmas use the invariants `Conserved` and `Attempts`.
* **Logs** (`LogProofs`). `DeadOnceCorrect` from `DeadDistinct`, inductive because
  a worker buries only a relay it holds and holds only live ones (`Conserved`).
  `JournalledSuccessCorrect` from `SuccessKnown`: a success in the journal is of a
  delivered relay, or of one whose holder is about to report it.
  `DeadLetterKeptCorrect` is an action property; its lemmas are about eviction
  (`Push`) and the removal of the first match.
* **Recovery** (`RecoveryProofs`). `FileCoherentCorrect` and `SurvivesRestarts`
  have one invariant, `RecoveryInv`: the relay core's invariants, `Sound(file)`
  and `SaverTrue`. `Sound` says what a start needs of a file: types, shapes,
  coherence, attempts within bounds. `SaverTrue` relates the snapshot under
  construction to the running system, read by read, and rests on the order of
  `Capture`: a relay moves from the queues to the logs and never back, so what is
  queued when the queues are read cannot be in a log that was read before. The
  successes and the dead letters already read stay what they are (`KnownIsFinal`,
  `EndedStays`). With the queues read first the invariant fails, and so does the
  run.
* **Durable** (`RecoveryProofs`). `DurableRefined`: the steps of the core map by
  the lemmas of `DeliveryProofs`, those of the saver stutter or let a relay go,
  and `Restart` maps to `TakeOver`. `DurableInv` adds to `RecoveryInv`
  `RecordedIsGone`, the worker's side of `Delivery` (`Prepared`), and `Accounted`
  for the file and for the snapshot under construction: neither is ever ahead of
  the history, in attempts, deaths or successes. `GoneStays` is the lemma about
  `Forever`: a relay that is through is in no queue, so neither the snapshot nor
  the file can get a job of it, and no start can read one. That what the file
  lists is gone is where the order of `Capture` enters (`RecordedStays`).
  `RecordedIsGoneCorrect` is the invariant itself, and `NeverPostedAgain` what
  both mean for an operator: a relay that one file listed as dead or delivered has
  the number of POSTs it had, for ever, counted by `sent`.
* **POSTs across restarts** (`RecoveryProofs`). `AttemptsCarriedOverCorrect` and
  `PostsPerProcessCorrect` from `PostsInv`: the POSTs a process, its file or its
  snapshot under construction accounts for were made, and each process adds
  `MaxAttempts` at most to what a relay has got. That a job in the file carries
  the POSTs made when it was read needs `Attempts` of the running process at that
  moment, and that nothing after the read enters the snapshot's number.
* **Ingest** (`IngestProofs`). `IngestTypeCorrect`; `OneFramePerKeyCorrect` from
  `OneFrame`, which adds that every accepted frame younger than the TTL still
  has its record (`Recorded`), whatever sweeps and other handlers do.
  `ResentOnceCorrect` assumes `LongTTL` (the TTL exceeds both sides of the
  window, the second lost in rounding and a handler's longest delay; the defaults
  are 24 h against 601 s) and uses `Prompt`: a request is accepted within
  `MaxLag` of a moment at which its stamp was in the window. `NonceSpacedCorrect`
  needs no such assumption: a nonce stays in the book a window from the moment it
  passed (`Booked`), so of two handlers that passed with one nonce all but the last
  did so a window ago (`Apart`), whatever keys they carry. `AnswersCorrect` and
  `FanOutCorrect` share `FanOut`, which says who works on which frame: a record
  names a frame accepted for its key (`RecordsKnown`), a frame is fanned out by
  one handler only (`OneWorker`), which plans it once (`PlannedOnce`) and has
  nothing to do that it did not plan (`TodoPlanned`).
* **Acceptance** (`IngestProofs`). `AcceptanceRefined`, one lemma per action of a
  handler. `RecordDecides` is the heart: from `Recorded` (an accepted frame
  younger than the TTL has its record) and `RecordsKnown` (a record is of an
  accepted frame and expires a TTL after it) the record and the set of accepted
  frames decide alike. `TodoPending` says that a relay still to be enqueued is not
  in the queues, so it is handed on once.
* **Ingestion across restarts** (`IngestProofs`, over `IngestRecovery`).
  `NotEnqueuedAgain` does not hold there; `TruthfulAcrossRestarts` is what does:
  `AnswersTruthful` and `FanOutAccounted`, whatever a snapshot caught of a request
  under way. `RestartInv` adds `Vouched` for the file and for the snapshot under
  construction: every record and every relay in it is of an accepted frame. So a
  restart can forget an acceptance, and its relays, but never makes one up. TLC
  agrees on the instance of `ingest_recovery` with five ticks and two restarts.

Model-checked only: `Settles`, since fairness and ENABLED are beyond the prover.
`ProbeOutstanding` is proved under the hypotheses above and is false without
them (see `relay_probe`). No theorem needs induction over data, and no module
uses a recursive operator.

## Not modelled

* The two halves of the snapshot file in one model: `Recovery` restores the relay
  core, `IngestRecovery` the records and the nonces. Keys are saved and restored
  unchanged; saved buckets are replaced before anybody takes from them.
* The crash of the machine: the file is renamed into place without being synced.
* Creation of stores at run time (an independent queue, breaker and bucket is
  added), rotation of secrets, changes of a store's rate (no endpoint does either).
* HMAC, header syntax, JSON and the validation of frame fields: members of
  `Forms`. The domain tables (lithology codes, annulus, gas, pump, channels,
  packing) are stateless formulas over reals.
* The cuttings sink, redaction, the static UI, environment parsing.
* Floats: the bucket counts integer units, delays and waits are whole ticks. The
  truncation of `Take` is kept.
* A clock that steps backwards.

## What is left

1. What `IngestRecovery` promises about the keys themselves: one frame per TTL
   among those whose record the file has.
2. `Relay` and `Ingest` joined on the broker, so that fan-out, relaying and both
   halves of the file share one state; then what a 202 promises across a restart.
3. Creation of stores at run time, with the order in which the registry and the
   queues are saved.
4. Liveness across a restart, under fairness of the snapshot loop.
