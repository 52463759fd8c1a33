------------------------------- MODULE Breaker -------------------------------
(***************************************************************************)
(* One circuit breaker used by several concurrent callers.  A caller asks  *)
(* Allow, holds a permit while its POST is under way, and then reports     *)
(* Success or Failure -- or never reports, because the rate limiter turned *)
(* it away after Allow.  The clock advances at any point.  GET /api/v1/    *)
(* circuits and the snapshot loop read the breaker through Snapshot, which *)
(* may itself move it to half-open, and a restart resumes from the last    *)
(* snapshot, forgetting the permits that were out.                         *)
(***************************************************************************)
EXTENDS Circuit, FiniteSets

CONSTANTS
    Callers,        \* worker goroutines that share the breaker
    MaxTime,        \* bound: last tick of the clock
    MaxRestarts     \* bound: process restarts explored

ASSUME BreakerAssumption ==
    /\ IsFiniteSet(Callers)
    /\ MaxTime \in Nat
    /\ MaxRestarts \in Nat

VARIABLES
    br,         \* the breaker record
    now,        \* clk.Now(), in ticks
    permit,     \* what each caller holds: see Permits
    streak,     \* history: failures reported since the last success, saturated
    tripped,    \* history: when the last failure that opened it was reported
    lost,       \* history: probes of this half-open episode never reported
    saved,      \* Snapshot on disk, with the history that belongs to it
    restarts

vars == <<br, now, permit, streak, tripped, lost, saved, restarts>>

(* "early": admitted before the current half-open episode began. *)
Permits == {"none", "early", "probe"}

TypeOK ==
    /\ br \in BreakerType
    /\ now \in 0..MaxTime
    /\ permit \in [Callers -> Permits]
    /\ streak \in 0..FailThreshold
    /\ tripped \in 0..MaxTime
    /\ lost \in 0..Probes
    /\ saved \in [br : BreakerType, streak : 0..FailThreshold,
                  tripped : 0..MaxTime]
    /\ restarts \in 0..MaxRestarts

Init ==
    /\ br = NewBreaker
    /\ now = 0
    /\ permit = [c \in Callers |-> "none"]
    /\ streak = 0
    /\ tripped = 0
    /\ lost = 0
    /\ saved = [br |-> NewBreaker, streak |-> 0, tripped |-> 0]
    /\ restarts = 0

------------------------------------------------------------------------------
(* A new half-open episode makes every permit already out an early one. *)
Aged(p) == [c \in Callers |-> IF p[c] = "probe" THEN "early" ELSE p[c]]

Begins(b, b2) == b.state # "half_open" /\ b2.state = "half_open"

Allow(c) ==
    /\ permit[c] = "none"
    /\ br' = AfterAllow(br, now)
    /\ LET old == IF Begins(br, br') THEN Aged(permit) ELSE permit IN
           permit' = IF Admits(br, now)
                     THEN [old EXCEPT ![c] = IF br'.state = "half_open"
                                             THEN "probe" ELSE "early"]
                     ELSE old
    /\ lost' = IF Begins(br, br') THEN 0 ELSE lost
    /\ UNCHANGED <<now, streak, tripped, saved, restarts>>

Success(c) ==
    /\ permit[c] # "none"
    /\ br' = AfterSuccess(br)
    /\ permit' = [permit EXCEPT ![c] = "none"]
    /\ streak' = 0
    /\ UNCHANGED <<now, tripped, lost, saved, restarts>>

Failure(c) ==
    /\ permit[c] # "none"
    /\ br' = AfterFailure(br, now)
    /\ permit' = [permit EXCEPT ![c] = "none"]
    /\ streak' = IF streak < FailThreshold THEN streak + 1 ELSE streak
    /\ tripped' = IF streak' = FailThreshold /\ br.state # "open"
                  THEN now ELSE tripped
    /\ UNCHANGED <<now, lost, saved, restarts>>

\* The rate limiter delays the job after Allow: the permit is never reported.
Forget(c) ==
    /\ permit[c] # "none"
    /\ permit' = [permit EXCEPT ![c] = "none"]
    /\ lost' = IF permit[c] = "probe" /\ br.state = "half_open"
               THEN lost + 1 ELSE lost
    /\ UNCHANGED <<br, now, streak, tripped, saved, restarts>>

\* Snapshot, by the snapshot loop: what it returns is what reaches the disk.
Save ==
    /\ br' = MaybeHalfOpen(br, now)
    /\ permit' = IF Begins(br, br') THEN Aged(permit) ELSE permit
    /\ lost' = IF Begins(br, br') THEN 0 ELSE lost
    /\ saved' = [br |-> br', streak |-> streak, tripped |-> tripped]
    /\ UNCHANGED <<now, streak, tripped, restarts>>

\* Snapshot, by a reader that only displays it (Gates.Public).
Poll ==
    /\ br' = MaybeHalfOpen(br, now)
    /\ permit' = IF Begins(br, br') THEN Aged(permit) ELSE permit
    /\ lost' = IF Begins(br, br') THEN 0 ELSE lost
    /\ UNCHANGED <<now, streak, tripped, saved, restarts>>

\* Crash, New and Restore: a process with no permits out and the saved fields.
Restart ==
    /\ restarts < MaxRestarts
    /\ restarts' = restarts + 1
    /\ br' = saved.br
    /\ permit' = [c \in Callers |-> "none"]
    /\ streak' = saved.streak
    /\ tripped' = saved.tripped
    /\ lost' = Probes - saved.br.probesLeft
    /\ UNCHANGED <<now, saved>>

Tick ==
    /\ now < MaxTime
    /\ now' = now + 1
    /\ UNCHANGED <<br, permit, streak, tripped, lost, saved, restarts>>

Next ==
    \/ \E c \in Callers : Allow(c) \/ Success(c) \/ Failure(c) \/ Forget(c)
    \/ Save
    \/ Poll
    \/ Restart
    \/ Tick

Spec == Init /\ [][Next]_vars

------------------------------------------------------------------------------
(* Properties *)

\* The breaker's fields fit together in every state: see BreakerShape.
ShapeInv == BreakerShape(br)

\* The breaker is closed exactly when fewer than FailThreshold failures have
\* been reported since the last success, whatever the order in which permits
\* of different ages are reported and across restarts (Success and Failure of
\* circuit.go against "consecutive failures" of PROJECT.md 3.6).
ClosedIffShortStreak == br.state = "closed" <=> streak < FailThreshold

\* Every unit of the probe budget is accounted for while half-open: unspent,
\* out with a caller, or lost.  So at most Probes probes are ever out, and a
\* half-open breaker with no budget, no probe out and only lost probes is the
\* state it can leave only through a report of a permit older than the episode.
ProbeLedger ==
    br.state = "half_open" =>
        br.probesLeft + Cardinality({c \in Callers : permit[c] = "probe"}) + lost
            = Probes

\* While FailThreshold failures stand unanswered by a success, a caller is let
\* through only after the full open period that followed the last report to open
\* the breaker.  Neither a poll that begins half-open, nor a failed probe that
\* opens a second period, nor a restart between the two may shorten it
\* (maybeHalfOpenLocked, tripLocked and Restore of circuit.go against "reject
\* new attempts for `openFor`" of PROJECT.md 3.6).
OpenPeriodServed ==
    [][\A c \in Callers :
          /\ permit[c] = "none" /\ permit'[c] # "none"
          /\ streak = FailThreshold
          => now >= tripped + OpenFor]_vars

(* Half-open with no budget and nobody left to report: every caller is refused. *)
Spent(b) == b.state = "half_open" /\ b.probesLeft = 0
Stuck == Spent(br) /\ \A c \in Callers : permit[c] = "none"

\* A breaker gets stuck in one of two ways only: the last permit out is given up
\* without a report, or a restart resumes from a snapshot taken while the whole
\* budget was spent, whether or not its probes were answered later.  And once
\* the stuck breaker is what the snapshot holds as well, nothing the program
\* does frees it: no look, no clock, no restart (Allow and Restore of
\* circuit.go; there is no other way out of half-open than a report).
StuckForGood ==
    [][/\ Stuck /\ Spent(saved.br) => (Stuck /\ Spent(saved.br))'
       /\ ~Stuck /\ Stuck' =>
             \/ restarts' = restarts + 1 /\ Spent(saved.br)
             \/ lost' = Probes /\ br' = br /\ permit' # permit]_vars

\* PROJECT.md 3.6: "Open: reject new attempts for `openFor` (default 30s),
\* then HalfOpen."  An open breaker stays open for the whole period.
OpenHolds ==
    [][br.state = "open" /\ br'.state # "open"
          => now >= br.openedAt + OpenFor]_vars

(* The failure count and the history agree, for the breaker and its snapshot. *)
Agrees(b, n) == IF b.state = "closed" THEN b.failures = n ELSE n = FailThreshold

(* An open breaker counts its period from the last trip; later it is over. *)
Dated(b, t) ==
    /\ b.state = "open" => b.openedAt = t
    /\ b.state = "half_open" => now >= t + OpenFor

(* The inductive invariant behind the proofs. *)
IndInv ==
    /\ TypeOK
    /\ ShapeInv
    /\ Agrees(br, streak)
    /\ BreakerShape(saved.br)
    /\ Agrees(saved.br, saved.streak)
    /\ Dated(br, tripped)
    /\ Dated(saved.br, saved.tripped)
    /\ ProbeLedger
==============================================================================
