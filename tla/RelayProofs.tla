----------------------------- MODULE RelayProofs -----------------------------
(***************************************************************************)
(* The main safety results of the relay core, for any number of workers,   *)
(* handlers, stores and relays and every setting: no relay is lost or      *)
(* duplicated, the in-flight counts are exact and within their limits, and *)
(* attempt numbers count POSTs and stay within the budget.                 *)
(***************************************************************************)
EXTENDS RelayTypeProofs

------------------------------------------------------------------------------
(* Conservation *)

\* Only a handler with work to enqueue has a plan.
PlansAreWork == \A h \in Handlers : handler[h].pc # "enqueue" => handler[h].plan = {}

Conserved == Conservation /\ PlansAreWork

\* Steps that move no job: the queue, the plans, the owners and the fates stay.
LEMMA ConservationFrame ==
  ASSUME Conservation,
         ready' = ready, fate' = fate,
         \A h \in Handlers : handler'[h].plan = handler[h].plan,
         \A w \in Workers : Owns(w)' <=> Owns(w),
         \A w \in Workers : Owns(w) => held'[w].relay = held[w].relay
  PROVE  Conservation'
<1>1. LiveIsSomewhere'
  BY DEF Conservation, LiveIsSomewhere, InReady, InPlan, IsHeld
<1>2. SomewhereIsLive'
  BY DEF Conservation, SomewhereIsLive
<1>3. NowhereTwice'
  <2>1. \A r \in Relays : InReady(r)' <=> InReady(r)
    BY DEF InReady
  <2>2. \A r \in Relays : InPlan(r)' <=> InPlan(r)
    BY DEF InPlan
  <2>3. \A r \in Relays : IsHeld(r)' <=> IsHeld(r)
    BY DEF IsHeld
  <2>4. \A v, w \in Workers :
          Owns(v)' /\ Owns(w)' /\ held'[v].relay = held'[w].relay => v = w
    BY DEF Conservation, NowhereTwice
  <2>5. \A g, h \in Handlers : \A j \in handler'[g].plan, k \in handler'[h].plan :
          j.relay = k.relay => g = h /\ j = k
    BY DEF Conservation, NowhereTwice
  <2> QED BY <2>1, <2>2, <2>3, <2>4, <2>5 DEF Conservation, NowhereTwice
<1> QED BY <1>1, <1>2, <1>3 DEF Conservation

\* Lease moves a job from the queue to one worker.
LEMMA LeaseConserves ==
  ASSUME TypeOK, Conserved, NEW w \in Workers, Lease(w)
  PROVE  Conserved'
<1> USE DEF Conserved
<1>1. PICK j \in ready : ready' = ready \ {j} /\ held' = [held EXCEPT ![w] = j]
  BY DEF Lease, Leasable, Due, Heads
<1>2. /\ pc' = [pc EXCEPT ![w] = "get"] /\ pc[w] = "idle"
      /\ UNCHANGED <<handler, fate>>
  BY DEF Lease, history
<1>3. /\ Owns(w)' /\ ~Owns(w) /\ held'[w] = j
      /\ \A v \in Workers : v # w => (Owns(v)' <=> Owns(v)) /\ held'[v] = held[v]
  BY <1>1, <1>2 DEF Owns, Owning, TypeOK, PCs
<1>4. \A r : InPlan(r)' <=> InPlan(r)
  BY <1>2 DEF InPlan
<1>5. \A k \in ready : k.relay = j.relay => k = j
  BY <1>1 DEF Conservation, NowhereTwice
<1>6. j.relay \in Relays /\ \A k \in ready : k.relay \in Relays
  BY <1>1 DEF TypeOK, Job
<1>7. \A r \in Relays : InReady(r)' <=> InReady(r) /\ r # j.relay
  BY <1>1, <1>5 DEF InReady
<1>8. \A r \in Relays : IsHeld(r)' <=> IsHeld(r) \/ r = j.relay
  BY <1>3 DEF IsHeld
<1>9. InReady(j.relay) /\ ~InPlan(j.relay) /\ ~IsHeld(j.relay)
  BY <1>1, <1>6 DEF InReady, Conservation, NowhereTwice
<1>10. LiveIsSomewhere'
  BY <1>2, <1>4, <1>7, <1>8 DEF Conservation, LiveIsSomewhere
<1>11. SomewhereIsLive'
  BY <1>1, <1>2, <1>3 DEF Conservation, SomewhereIsLive
<1>12. NowhereTwice'
  <2>1. \A v, u \in Workers :
          Owns(v)' /\ Owns(u)' /\ held'[v].relay = held'[u].relay => v = u
    BY <1>3, <1>9 DEF Conservation, NowhereTwice, IsHeld
  <2>2. \A r \in Relays : /\ ~(InReady(r)' /\ InPlan(r)')
                          /\ ~(InReady(r)' /\ IsHeld(r)')
                          /\ ~(InPlan(r)' /\ IsHeld(r)')
    BY <1>4, <1>7, <1>8, <1>9 DEF Conservation, NowhereTwice
  <2> QED BY <1>1, <1>2, <2>1, <2>2 DEF Conservation, NowhereTwice
<1> QED BY <1>2, <1>10, <1>11, <1>12 DEF Conservation, PlansAreWork

\* The worker's steps that keep its job: it owns the same relay before and after.
LEMMA KeepingConserves ==
  ASSUME TypeOK, Conserved, NEW w \in Workers,
         \/ GetStore(w) \/ Allow(w) \/ Take(w) \/ Answer(w) \/ Note(w)
         \/ Report(w) /\ Combine(result[w]) # "success"
         \/ NoteAfter(w) \/ Release(w)
  PROVE  Conserved'
<1> USE DEF Conserved
<1>1. UNCHANGED <<ready, handler>>
  BY DEF GetStore, Allow, Take, Answer, Note, Report, NoteAfter, Release
<1>2. fate' = fate
  BY DEF GetStore, Allow, Take, Answer, Note, Report, NoteAfter, Release, history
<1>3. \A v \in Workers : Owns(v)' <=> Owns(v)
  <2>1. \A v \in Workers : v # w => pc'[v] = pc[v]
    BY DEF GetStore, Allow, Take, Answer, Note, Report, NoteAfter, Release, TypeOK
  <2>2. pc'[w] \in Owning <=> pc[w] \in Owning
    BY DEF GetStore, Allow, Take, Answer, Note, Report, NoteAfter, Release, TypeOK,
           Owning, PCs
  <2> QED BY <2>1, <2>2 DEF Owns
<1>4. \A v \in Workers : Owns(v) => held'[v].relay = held[v].relay
  <2>1. held[w] \in Job
    BY DEF GetStore, Allow, Take, Answer, Note, Report, NoteAfter, Release, TypeOK
  <2>2. \A v \in Workers : v # w => held'[v] = held[v]
    BY DEF GetStore, Allow, Take, Answer, Note, Report, NoteAfter, Release, TypeOK
  <2>3. Owns(w) => held'[w].relay = held[w].relay
    BY <2>1 DEF GetStore, Allow, Take, Answer, Note, Report, NoteAfter, Release,
                TypeOK, Job, Owns, Owning
  <2> QED BY <2>2, <2>3
<1>5. Conservation'
  BY <1>1, <1>2, <1>3, <1>4, ConservationFrame
<1> QED BY <1>1, <1>5 DEF PlansAreWork

\* A worker that settles its relay is its only holder, so nothing is left of it.
LEMMA SettlingConserves ==
  ASSUME TypeOK, Conserved, NEW w \in Workers,
         pc[w] \in Owning, pc' = [pc EXCEPT ![w] = pc'[w]],
         pc'[w] \in PCs \ Owning, held' = held, ready' = ready,
         handler' = handler, NEW f \in {"delivered", "dead"},
         fate' = [fate EXCEPT ![held[w].relay] = f]
  PROVE  Conserved'
<1> USE DEF Conserved
<1> DEFINE r0 == held[w].relay
<1>1. r0 \in Relays /\ Owns(w)
  BY DEF TypeOK, Job, Owns, Owning
<1>2. /\ ~Owns(w)'
      /\ \A v \in Workers : v # w => (Owns(v)' <=> Owns(v))
  BY DEF Owns, TypeOK
<1>3. IsHeld(r0) /\ ~InReady(r0) /\ ~InPlan(r0)
  BY <1>1 DEF IsHeld, Conservation, NowhereTwice
<1>4. \A v \in Workers : Owns(v)' => held[v].relay # r0
  BY <1>1, <1>2 DEF Conservation, NowhereTwice
<1>5. \A r \in Relays : /\ InReady(r)' <=> InReady(r)
                        /\ InPlan(r)' <=> InPlan(r)
                        /\ IsHeld(r)' <=> IsHeld(r) /\ r # r0
  BY <1>1, <1>2, <1>4 DEF InReady, InPlan, IsHeld
<1>6. fate' \in [Relays -> {"unused", "live", "delivered", "dead", "lost"}]
      /\ \A r \in Relays : fate'[r] = IF r = r0 THEN f ELSE fate[r]
  BY <1>1 DEF TypeOK
<1>7. LiveIsSomewhere'
  BY <1>5, <1>6 DEF Conservation, LiveIsSomewhere
<1>8. SomewhereIsLive'
  <2>1. \A j \in ready : j.relay # r0 /\ j.relay \in Relays
    BY <1>3 DEF InReady, TypeOK, Job
  <2>2. \A h \in Handlers : \A j \in handler[h].plan : j.relay # r0 /\ j.relay \in Relays
    BY <1>3 DEF InPlan, TypeOK, Handler, Job
  <2>3. \A v \in Workers : Owns(v)' => Owns(v) /\ held[v].relay \in Relays
    BY <1>2 DEF TypeOK, Job, Owns, Owning
  <2> QED BY <1>4, <1>6, <2>1, <2>2, <2>3 DEF Conservation, SomewhereIsLive
<1>9. NowhereTwice'
  <2>1. \A u, v \in Workers :
          Owns(u)' /\ Owns(v)' /\ held'[u].relay = held'[v].relay => u = v
    BY <1>2 DEF Conservation, NowhereTwice
  <2> QED BY <1>5, <2>1 DEF Conservation, NowhereTwice
<1> QED BY <1>7, <1>8, <1>9 DEF Conservation, PlansAreWork

\* Requeue moves the job from its worker back to the queue.
LEMMA RequeueConserves ==
  ASSUME TypeOK, Conserved, NEW w \in Workers, Requeue(w)
  PROVE  Conserved'
<1> USE DEF Conserved
<1> DEFINE j == held[w]
<1>1. /\ pc[w] = "requeue" /\ ready' = ready \cup {j}
      /\ pc' = [pc EXCEPT ![w] = AfterMove(tag[w])]
      /\ UNCHANGED <<held, handler, fate>>
  BY DEF Requeue, history
<1>2. j \in Job /\ j.relay \in Relays /\ Owns(w)
  BY <1>1 DEF TypeOK, Job, Owns, Owning, PCs
<1>3. /\ ~Owns(w)'
      /\ \A v \in Workers : v # w => (Owns(v)' <=> Owns(v))
  BY <1>1 DEF Owns, TypeOK, AfterMove, Owning
<1>4. IsHeld(j.relay) /\ ~InReady(j.relay) /\ ~InPlan(j.relay)
  BY <1>2 DEF IsHeld, Conservation, NowhereTwice
<1>5. \A v \in Workers : Owns(v)' => held[v].relay # j.relay
  BY <1>2, <1>3 DEF Conservation, NowhereTwice
<1>6. \A r \in Relays : /\ InReady(r)' <=> InReady(r) \/ r = j.relay
                        /\ InPlan(r)' <=> InPlan(r)
                        /\ IsHeld(r)' <=> IsHeld(r) /\ r # j.relay
  BY <1>1, <1>2, <1>3, <1>5 DEF InReady, InPlan, IsHeld
<1>7. LiveIsSomewhere'
  BY <1>1, <1>6 DEF Conservation, LiveIsSomewhere
<1>8. SomewhereIsLive'
  BY <1>1, <1>2, <1>3 DEF Conservation, SomewhereIsLive
<1>9. NowhereTwice'
  <2>1. \A i, k \in ready' : i.relay = k.relay => i = k
    BY <1>1, <1>4 DEF Conservation, NowhereTwice, InReady
  <2>2. \A u, v \in Workers :
          Owns(u)' /\ Owns(v)' /\ held'[u].relay = held'[v].relay => u = v
    BY <1>1, <1>3 DEF Conservation, NowhereTwice
  <2>3. \A r \in Relays : /\ ~(InReady(r)' /\ InPlan(r)')
                          /\ ~(InReady(r)' /\ IsHeld(r)')
                          /\ ~(InPlan(r)' /\ IsHeld(r)')
    BY <1>4, <1>6 DEF Conservation, NowhereTwice
  <2> QED BY <1>1, <2>1, <2>2, <2>3 DEF Conservation, NowhereTwice
<1> QED BY <1>1, <1>7, <1>8, <1>9 DEF Conservation, PlansAreWork

\* A handler plans jobs with fresh ids: they were nowhere before.
LEMMA PlanningConserves ==
  ASSUME TypeOK, TypeOK', Conserved, NEW h \in Handlers, NEW new \in SUBSET Job,
         handler[h].pc # "enqueue",
         handler'[h].pc = "enqueue", handler'[h].plan = new,
         \A g \in Handlers : g # h => handler'[g] = handler[g],
         \A j \in new : fate[j.relay] = "unused",
         \A j, k \in new : j.relay = k.relay => j = k,
         \A r \in Relays : fate'[r] = IF \E j \in new : j.relay = r
                                      THEN "live" ELSE fate[r],
         UNCHANGED <<ready, pc, held>>
  PROVE  Conserved'
<1> USE DEF Conserved
<1>1. handler[h].plan = {}
  BY DEF PlansAreWork
<1>2. \A j \in new : j.relay \in Relays
  BY DEF Job
<1>3. \A v \in Workers : Owns(v)' <=> Owns(v)
  BY DEF Owns
<1>4. \A r \in Relays : InReady(r) \/ InPlan(r) \/ IsHeld(r) => fate[r] = "live"
  BY DEF Conservation, SomewhereIsLive, InReady, InPlan, IsHeld
<1>5. \A r \in Relays : /\ InReady(r)' <=> InReady(r)
                        /\ InPlan(r)' <=> InPlan(r) \/ \E j \in new : j.relay = r
                        /\ IsHeld(r)' <=> IsHeld(r)
  BY <1>1, <1>3 DEF InReady, InPlan, IsHeld
<1>6. LiveIsSomewhere'
  BY <1>5 DEF Conservation, LiveIsSomewhere
<1>7. SomewhereIsLive'
  <2>1. \A j \in ready : j.relay \in Relays /\ fate'[j.relay] = "live"
    BY DEF TypeOK, Job, Conservation, SomewhereIsLive
  <2>2. \A g \in Handlers : \A j \in handler'[g].plan : fate'[j.relay] = "live"
    <3>1. \A g \in Handlers : \A j \in handler[g].plan : j.relay \in Relays
      BY DEF TypeOK, Handler, Job
    <3> QED BY <1>2, <3>1 DEF Conservation, SomewhereIsLive
  <2>3. \A v \in Workers : Owns(v) => fate'[held[v].relay] = "live"
    <3>1. \A v \in Workers : Owns(v) => held[v].relay \in Relays
      BY DEF TypeOK, Job, Owns, Owning
    <3> QED BY <3>1 DEF Conservation, SomewhereIsLive
  <2> QED BY <1>3, <2>1, <2>2, <2>3 DEF SomewhereIsLive
<1>8. NowhereTwice'
  <2>1. \A f, g \in Handlers : \A j \in handler'[f].plan, k \in handler'[g].plan :
          j.relay = k.relay => f = g /\ j = k
    <3>1. ASSUME NEW g \in Handlers, g # h, NEW k \in handler'[g].plan, NEW j \in new
          PROVE  j.relay # k.relay
      <4>1. fate[k.relay] = "live"
        BY <3>1 DEF Conservation, SomewhereIsLive
      <4> QED BY <4>1
    <3>2. \A f, g \in Handlers : f # h /\ g # h =>
            \A j \in handler'[f].plan, k \in handler'[g].plan :
               j.relay = k.relay => f = g /\ j = k
      BY DEF Conservation, NowhereTwice
    <3> QED BY <3>1, <3>2
  <2>2. \A r \in Relays : (\E j \in new : j.relay = r) =>
                             ~InReady(r) /\ ~IsHeld(r)
    BY <1>4
  <2>3. \A r \in Relays : /\ ~(InReady(r)' /\ InPlan(r)')
                          /\ ~(InReady(r)' /\ IsHeld(r)')
                          /\ ~(InPlan(r)' /\ IsHeld(r)')
    BY <1>5, <2>2 DEF Conservation, NowhereTwice
  <2> QED BY <1>3, <2>1, <2>3 DEF Conservation, NowhereTwice
<1> QED BY <1>6, <1>7, <1>8 DEF Conservation, PlansAreWork

\* Enqueue moves a job from a plan to the queue.
LEMMA EnqueueConserves ==
  ASSUME TypeOK, Conserved, NEW h \in Handlers, Enqueue(h)
  PROVE  Conserved'
<1> USE DEF Conserved
<1>1. PICK j \in handler[h].plan :
        LET rest == handler[h].plan \ {j} IN
        /\ ready' = ready \cup {j}
        /\ handler' = [handler EXCEPT ![h] =
              IF rest # {} THEN [@ EXCEPT !.plan = rest]
              ELSE IF @.target # NoRelay
                   THEN [@ EXCEPT !.plan = rest, !.pc = "remove"]
              ELSE IdleHandler]
  BY DEF Enqueue
<1>2. UNCHANGED <<pc, held, fate>> /\ handler[h].pc = "enqueue"
  BY DEF Enqueue, workerVars, history
<1>3. handler[h] \in Handler /\ j \in Job /\ j.relay \in Relays
  BY DEF TypeOK, Handler, Job
<1>4. /\ handler'[h].plan = handler[h].plan \ {j}
      /\ handler'[h].pc # "enqueue" => handler'[h].plan = {}
      /\ \A g \in Handlers : g # h => handler'[g] = handler[g]
  BY <1>1, <1>2, <1>3 DEF TypeOK, Handler, IdleHandler
<1>5. \A v \in Workers : Owns(v)' <=> Owns(v)
  BY <1>2 DEF Owns
<1>6. InPlan(j.relay) /\ ~InReady(j.relay) /\ ~IsHeld(j.relay)
  BY <1>3 DEF InPlan, Conservation, NowhereTwice
<1>7. \A g \in Handlers : \A k \in handler[g].plan :
        k.relay = j.relay => g = h /\ k = j
  BY DEF Conservation, NowhereTwice
<1>8. \A r \in Relays : /\ InReady(r)' <=> InReady(r) \/ r = j.relay
                        /\ InPlan(r)' <=> InPlan(r) /\ r # j.relay
                        /\ IsHeld(r)' <=> IsHeld(r)
  <2>1. \A r \in Relays : InReady(r)' <=> InReady(r) \/ r = j.relay
    BY <1>1 DEF InReady
  <2>2. \A r \in Relays : InPlan(r)' <=> InPlan(r) /\ r # j.relay
    BY <1>4, <1>7 DEF InPlan
  <2>3. \A r \in Relays : IsHeld(r)' <=> IsHeld(r)
    BY <1>2, <1>5 DEF IsHeld
  <2> QED BY <2>1, <2>2, <2>3
<1>9. LiveIsSomewhere'
  BY <1>2, <1>8 DEF Conservation, LiveIsSomewhere
<1>10. SomewhereIsLive'
  BY <1>1, <1>2, <1>4, <1>5 DEF Conservation, SomewhereIsLive
<1>11. NowhereTwice'
  <2>1. \A i, k \in ready' : i.relay = k.relay => i = k
    BY <1>1, <1>6 DEF Conservation, NowhereTwice, InReady
  <2>2. \A f, g \in Handlers : \A i \in handler'[f].plan, k \in handler'[g].plan :
          i.relay = k.relay => f = g /\ i = k
    BY <1>4 DEF Conservation, NowhereTwice
  <2>3. \A r \in Relays : /\ ~(InReady(r)' /\ InPlan(r)')
                          /\ ~(InReady(r)' /\ IsHeld(r)')
                          /\ ~(InPlan(r)' /\ IsHeld(r)')
    BY <1>6, <1>8 DEF Conservation, NowhereTwice
  <2> QED BY <1>2, <1>5, <2>1, <2>2, <2>3 DEF Conservation, NowhereTwice
<1>12. PlansAreWork'
  BY <1>4 DEF PlansAreWork
<1> QED BY <1>9, <1>10, <1>11, <1>12 DEF Conservation

\* Ingest gives every matched store a job of its own, with an id of its own.
LEMMA IngestConserves ==
  ASSUME TypeOK, TypeOK', Conserved, NEW h \in Handlers, Ingest(h)
  PROVE  Conserved'
<1>1. PICK matched \in SUBSET {s \in Stores : enabled[s]} :
        \E id \in [matched -> Unused] :
            /\ \A s, u \in matched : id[s] = id[u] => s = u
            /\ handler' = [handler EXCEPT ![h] =
                  [pc |-> "enqueue", target |-> NoRelay, at |-> 0,
                   plan |-> {NewJob(id[s], s, now) : s \in matched}]]
            /\ fate' = [r \in Relays |->
                  IF \E s \in matched : id[s] = r THEN "live" ELSE fate[r]]
  BY DEF Ingest
<1>2. PICK id \in [matched -> Unused] :
            /\ \A s, u \in matched : id[s] = id[u] => s = u
            /\ handler' = [handler EXCEPT ![h] =
                  [pc |-> "enqueue", target |-> NoRelay, at |-> 0,
                   plan |-> {NewJob(id[s], s, now) : s \in matched}]]
            /\ fate' = [r \in Relays |->
                  IF \E s \in matched : id[s] = r THEN "live" ELSE fate[r]]
  BY <1>1
<1> DEFINE new == {NewJob(id[s], s, now) : s \in matched}
<1>3. \A s \in matched : /\ id[s] \in Relays /\ fate[id[s]] = "unused"
                         /\ NewJob(id[s], s, now).relay = id[s]
  BY DEF Unused, NewJob
<1>4. new \in SUBSET Job
  BY <1>3, NewJobType DEF TypeOK, Time
<1>5. \A j \in new : fate[j.relay] = "unused"
  BY <1>3
<1>6. \A j, k \in new : j.relay = k.relay => j = k
  BY <1>2, <1>3
<1>7. \A r \in Relays : fate'[r] = IF \E j \in new : j.relay = r
                                   THEN "live" ELSE fate[r]
  BY <1>2, <1>3
<1>8. /\ handler[h].pc # "enqueue"
      /\ handler'[h].pc = "enqueue" /\ handler'[h].plan = new
      /\ \A g \in Handlers : g # h => handler'[g] = handler[g]
      /\ UNCHANGED <<ready, pc, held>>
  BY <1>2 DEF Ingest, TypeOK, workerVars
<1> HIDE DEF new
<1> QED BY <1>4, <1>5, <1>6, <1>7, <1>8, PlanningConserves

\* A replay mints one fresh job.
LEMMA ReplayedConserves ==
  ASSUME TypeOK, TypeOK', Conserved, NEW h \in Handlers, NEW item,
         NEW n \in Unused, NEW t \in Nat, NEW target,
         item.store \in Stores, handler[h].pc # "enqueue",
         Replayed(h, item, n, t, target),
         UNCHANGED <<ready, pc, held>>
  PROVE  Conserved'
<1> DEFINE new == {NewJob(n, item.store, t)}
<1>1. n \in Relays /\ fate[n] = "unused" /\ NewJob(n, item.store, t).relay = n
  BY DEF Unused, NewJob
<1>2. new \in SUBSET Job
  BY <1>1, NewJobType
<1>3. /\ \A j \in new : fate[j.relay] = "unused"
      /\ \A j, k \in new : j.relay = k.relay => j = k
  BY <1>1
<1>4. \A r \in Relays : fate'[r] = IF \E j \in new : j.relay = r
                                   THEN "live" ELSE fate[r]
  BY <1>1 DEF Replayed, TypeOK
<1>5. /\ handler'[h].pc = "enqueue" /\ handler'[h].plan = new
      /\ \A g \in Handlers : g # h => handler'[g] = handler[g]
  BY DEF Replayed, TypeOK
<1> HIDE DEF new
<1> QED BY <1>2, <1>3, <1>4, <1>5, PlanningConserves

\* Handler steps that leave plans, queue and fates alone.
LEMMA LookingConserves ==
  ASSUME TypeOK, Conserved, NEW h \in Handlers, NEW x \in Handler,
         x.plan = {}, handler[h].plan = {}, handler' = [handler EXCEPT ![h] = x],
         UNCHANGED <<ready, pc, held, fate>>
  PROVE  Conserved'
<1> USE DEF Conserved
<1>1. \A g \in Handlers : handler'[g].plan = handler[g].plan
  BY DEF TypeOK
<1>2. \A w \in Workers : Owns(w)' <=> Owns(w)
  BY DEF Owns
<1>3. Conservation'
  BY <1>1, <1>2, ConservationFrame
<1>4. PlansAreWork'
  BY DEF PlansAreWork, TypeOK
<1> QED BY <1>3, <1>4

\* Both lookups of a replay, and the removal that ends it.
LEMMA ReplayConserves ==
  ASSUME TypeOK, TypeOK', Conserved, NEW h \in Handlers,
         \/ \E r \in Replayable : Replay(h, r)
         \/ ReplayJournal(h)
         \/ DropDead(h)
  PROVE  Conserved'
<1>1. handler[h].pc # "enqueue" /\ handler[h].plan = {} /\ UNCHANGED <<ready, pc, held>>
  BY DEF Replay, ReplayJournal, DropDead, workerVars, Conserved, PlansAreWork
<1>2. IdleHandler \in Handler /\ IdleHandler.plan = {}
  BY DEF IdleHandler, Handler, Time
<1>3. ASSUME NEW r \in Replayable, Replay(h, r) PROVE Conserved'
  <2>1. r \in Relays /\ now \in Nat
    BY RelayAssumption DEF TypeOK, Time
  <2>2. CASE Mentions(dlq, r)
    <3>1. PICK n \in Unused : Replayed(h, Newest(dlq, r), n, now, r)
      BY <1>3, <2>2 DEF Replay
    <3>2. Newest(dlq, r) \in DeadItem
      BY <2>2, NewestProperties DEF TypeOK
    <3>3. Newest(dlq, r).store \in Stores
      BY <3>2 DEF DeadItem
    <3> QED BY <1>1, <2>1, <3>1, <3>3, ReplayedConserves
  <2>3. CASE ~Mentions(dlq, r)
    <3> DEFINE x == [pc |-> "journal", target |-> r, plan |-> {}, at |-> now]
    <3>1. x \in Handler /\ x.plan = {}
      BY <2>1 DEF Handler, Time
    <3>2. handler' = [handler EXCEPT ![h] = x] /\ fate' = fate
      BY <1>3, <2>3 DEF Replay
    <3> HIDE DEF x
    <3> QED BY <1>1, <3>1, <3>2, LookingConserves
  <2> QED BY <2>2, <2>3
<1>4. CASE ReplayJournal(h)
  <2> DEFINE r == handler[h].target
  <2>1. CASE /\ Mentions(journal, r)
             /\ \E n \in Unused :
                   Replayed(h, Newest(journal, r), n, handler[h].at, NoRelay)
    <3>1. PICK n \in Unused :
                   Replayed(h, Newest(journal, r), n, handler[h].at, NoRelay)
      BY <2>1
    <3>2. Newest(journal, r) \in Entry
      BY <2>1, NewestProperties DEF TypeOK
    <3>3. Newest(journal, r).store \in Stores
      BY <3>2 DEF Entry
    <3>4. handler[h].at \in Nat
      BY DEF TypeOK, Handler, Time
    <3> QED BY <1>1, <3>1, <3>3, <3>4, ReplayedConserves
  <2>2. CASE handler' = [handler EXCEPT ![h] = IdleHandler] /\ fate' = fate
    BY <1>1, <1>2, <2>2, LookingConserves
  <2> QED BY <1>4, <2>1, <2>2 DEF ReplayJournal
<1>5. CASE DropDead(h)
  <2>1. handler' = [handler EXCEPT ![h] = IdleHandler] /\ fate' = fate
    BY <1>5 DEF DropDead, history
  <2> QED BY <1>1, <1>2, <2>1, LookingConserves
<1> QED BY <1>3, <1>4, <1>5

\* Steps outside workers and handlers move no job.
LEMMA EnvironmentConserves ==
  ASSUME TypeOK, Conserved,
         UNCHANGED <<ready, pc, held, handler, fate>>
  PROVE  Conserved'
<1>1. \A w \in Workers : Owns(w)' <=> Owns(w)
  BY DEF Owns
<1>2. Conservation'
  BY <1>1, ConservationFrame DEF Conserved
<1> QED BY <1>2 DEF Conserved, PlansAreWork

\* Every step conserves relays.
LEMMA NextConserves ==
  ASSUME TypeOK, TypeOK', Conserved, [Next]_vars
  PROVE  Conserved'
<1>1. ASSUME NEW w \in Workers, WorkerStep(w) PROVE Conserved'
  <2>1. CASE Lease(w)
    BY <2>1, LeaseConserves
  <2>2. CASE \/ GetStore(w) \/ Allow(w) \/ Take(w) \/ Answer(w) \/ Note(w)
             \/ NoteAfter(w) \/ Release(w)
    BY <2>2, KeepingConserves
  <2>3. CASE Report(w) /\ Combine(result[w]) # "success"
    BY <2>3, KeepingConserves
  <2>4. CASE Report(w) /\ Combine(result[w]) = "success"
    <3>1. /\ pc[w] \in Owning /\ pc' = [pc EXCEPT ![w] = "release"]
          /\ UNCHANGED <<held, ready, handler>>
          /\ fate' = [fate EXCEPT ![held[w].relay] = "delivered"]
      BY <2>4 DEF Report, Owning, PCs
    <3>2. pc'[w] = "release" /\ "release" \in PCs \ Owning
      BY <3>1 DEF TypeOK, Owning, PCs
    <3> QED BY <3>1, <3>2, SettlingConserves
  <2>5. CASE Requeue(w)
    BY <2>5, RequeueConserves
  <2>6. CASE Bury(w)
    <3>1. /\ pc[w] \in Owning /\ pc' = [pc EXCEPT ![w] = AfterMove(tag[w])]
          /\ UNCHANGED <<held, ready, handler>>
          /\ fate' = [fate EXCEPT ![held[w].relay] = "dead"]
      BY <2>6 DEF Bury, Owning, PCs
    <3>2. pc'[w] = AfterMove(tag[w]) /\ AfterMove(tag[w]) \in PCs \ Owning
      BY <3>1 DEF TypeOK, Owning, PCs, AfterMove
    <3> QED BY <3>1, <3>2, SettlingConserves
  <2> QED BY <1>1, <2>1, <2>2, <2>3, <2>4, <2>5, <2>6 DEF WorkerStep
<1>2. ASSUME NEW h \in Handlers,
             \/ Ingest(h) \/ ReplayJournal(h) \/ Enqueue(h) \/ DropDead(h)
             \/ \E r \in Replayable : Replay(h, r)
      PROVE  Conserved'
  BY <1>2, IngestConserves, EnqueueConserves, ReplayConserves
<1>3. CASE \/ \E s \in Switchable : SetEnabled(s)
           \/ \E s \in Stores : Poll(s)
           \/ Tick
           \/ UNCHANGED vars
  <2>1. UNCHANGED <<ready, pc, held, handler, fate>>
    BY <1>3 DEF SetEnabled, Poll, Tick, vars, workerVars, history
  <2> QED BY <2>1, EnvironmentConserves
<1> QED BY <1>1, <1>2, <1>3 DEF Next, Around

\* Initially there is nothing to conserve.
LEMMA InitConserves == Init => Conserved
<1> SUFFICES ASSUME Init PROVE Conserved
  OBVIOUS
<1>1. /\ ready = {} /\ \A r \in Relays : fate[r] = "unused"
      /\ \A w \in Workers : ~Owns(w)
      /\ \A h \in Handlers : handler[h].plan = {}
  BY DEF Init, Owns, Owning, IdleHandler
<1>2. LiveIsSomewhere /\ SomewhereIsLive
  BY <1>1 DEF LiveIsSomewhere, SomewhereIsLive
<1>3. NowhereTwice
  BY <1>1 DEF NowhereTwice, InReady, InPlan, IsHeld
<1> QED BY <1>1, <1>2, <1>3 DEF Conserved, Conservation, PlansAreWork

\* No relay is lost or duplicated, for any number of workers, handlers, stores
\* and relays: each accepted relay is in exactly one place until the one worker
\* that holds it settles it.
THEOREM ConservationCorrect == Spec => []Conservation
<1> DEFINE I == TypeOK /\ BreakersOK /\ Conserved
<1>1. Init => I
  BY InitType, InitConserves, NewBreakerOK DEF Init, BreakersOK
<1>2. I /\ [Next]_vars => I'
  BY NextType, NextBreakers, NextConserves
<1>3. I => Conservation
  BY DEF Conserved
<1> QED BY <1>1, <1>2, <1>3, PTL DEF Spec

------------------------------------------------------------------------------
(* In-flight counts *)

\* The workers on a store are finitely many.
LEMMA BusyFinite ==
  \A s : IsFiniteSet(Busy(s)) /\ Cardinality(Busy(s)) \in Nat
<1> SUFFICES ASSUME NEW s PROVE IsFiniteSet(Busy(s)) /\ Cardinality(Busy(s)) \in Nat
  OBVIOUS
<1>1. Busy(s) \subseteq Workers
  BY DEF Busy
<1> QED BY <1>1, RelayAssumption, FS_Subset, FS_CardinalityType

\* Every store has a slot.
LEMMA MaxFlightType == \A s \in Stores : MaxFlight(s) \in Nat \ {0}
  BY QueueAssumption DEF MaxFlight

\* Steps that start and end no lease.
LEMMA InFlightFrame ==
  ASSUME InFlightExact, inFlight' = inFlight,
         \A w \in Workers : pc'[w] = "idle" <=> pc[w] = "idle",
         \A w \in Workers : pc[w] # "idle" => held'[w].store = held[w].store
  PROVE  InFlightExact'
<1>1. \A s \in Stores : Busy(s)' = Busy(s)
  BY DEF Busy
<1> QED BY <1>1 DEF InFlightExact

\* A lease takes a free slot and adds its worker to the store's busy ones.
LEMMA LeaseCounts ==
  ASSUME TypeOK, InFlightExact, NEW w \in Workers, Lease(w)
  PROVE  InFlightExact'
<1>1. PICK j \in Leasable(ready, inFlight, now) :
        /\ inFlight' = [inFlight EXCEPT ![j.store] = @ + 1]
        /\ held' = [held EXCEPT ![w] = j]
  BY DEF Lease
<1>2. j \in ready /\ inFlight[j.store] < MaxFlight(j.store)
  BY DEF Leasable, Due, Heads
<1>3. j.store \in Stores
  BY <1>2 DEF TypeOK, Job
<1>4. pc[w] = "idle" /\ pc' = [pc EXCEPT ![w] = "get"]
  BY DEF Lease
<1>5. w \notin Busy(j.store) /\ Busy(j.store)' = Busy(j.store) \cup {w}
  BY <1>1, <1>4 DEF Busy, TypeOK
<1>6. \A s \in Stores : s # j.store => Busy(s)' = Busy(s)
  BY <1>1, <1>4 DEF Busy, TypeOK
<1>7. Cardinality(Busy(j.store)') = Cardinality(Busy(j.store)) + 1
  BY <1>5, BusyFinite, FS_AddElement
<1>8. inFlight[j.store] \in Nat /\ MaxFlight(j.store) \in Nat
  BY <1>3, MaxFlightType DEF TypeOK
<1> QED BY <1>1, <1>2, <1>3, <1>6, <1>7, <1>8 DEF InFlightExact, TypeOK

\* Release frees exactly the slot its worker had: the guard against a negative
\* count in broker.Release never takes effect.
LEMMA ReleaseCounts ==
  ASSUME TypeOK, InFlightExact, NEW w \in Workers, Release(w)
  PROVE  InFlightExact'
<1>1. PICK s0 \in Stores : held[w].store = s0
  BY DEF Release, TypeOK, Job
<1>2. /\ pc[w] = "release" /\ pc' = [pc EXCEPT ![w] = "idle"]
      /\ held' = [held EXCEPT ![w] = NoJob]
      /\ inFlight' = [inFlight EXCEPT ![s0] = IF @ > 0 THEN @ - 1 ELSE @]
  BY <1>1 DEF Release
<1>3. w \in Busy(s0) /\ Busy(s0)' = Busy(s0) \ {w}
  BY <1>1, <1>2 DEF Busy, TypeOK
<1>4. \A s \in Stores : s # s0 => Busy(s)' = Busy(s)
  BY <1>1, <1>2 DEF Busy, TypeOK
<1>5. Cardinality(Busy(s0)') = Cardinality(Busy(s0)) - 1
  BY <1>3, BusyFinite, FS_RemoveElement
<1>6. Cardinality(Busy(s0)') \in Nat
  <2>1. Busy(s0)' \subseteq Workers
    BY <1>3 DEF Busy
  <2> QED BY <2>1, RelayAssumption, FS_Subset, FS_CardinalityType
<1>7. /\ inFlight[s0] = Cardinality(Busy(s0)) /\ inFlight[s0] <= MaxFlight(s0)
      /\ inFlight[s0] \in Nat /\ MaxFlight(s0) \in Nat
  BY MaxFlightType DEF InFlightExact, TypeOK
<1>8. inFlight'[s0] = inFlight[s0] - 1
  BY <1>2, <1>5, <1>6, <1>7 DEF TypeOK
<1>9. inFlight'[s0] = Cardinality(Busy(s0)') /\ inFlight'[s0] <= MaxFlight(s0)
  BY <1>5, <1>7, <1>8
<1>10. \A s \in Stores : s # s0 => inFlight'[s] = inFlight[s]
  BY <1>2 DEF TypeOK
<1> QED BY <1>4, <1>9, <1>10 DEF InFlightExact

\* Every step keeps the counts.
LEMMA NextCounts ==
  ASSUME TypeOK, InFlightExact, [Next]_vars
  PROVE  InFlightExact'
<1>1. ASSUME NEW w \in Workers,
             \/ GetStore(w) \/ Allow(w) \/ Take(w) \/ Answer(w) \/ Note(w)
             \/ Report(w) \/ Requeue(w) \/ Bury(w) \/ NoteAfter(w)
      PROVE  InFlightExact'
  <2>1. inFlight' = inFlight
    BY <1>1 DEF GetStore, Allow, Take, Answer, Note, Report, Requeue, Bury,
                NoteAfter, storeVars
  <2>2. held[w] \in Job
    BY <1>1 DEF GetStore, Allow, Take, Answer, Note, Report, Requeue, Bury,
                NoteAfter, TypeOK
  <2>3. \A v \in Workers : v # w => pc'[v] = pc[v] /\ held'[v] = held[v]
    BY <1>1 DEF GetStore, Allow, Take, Answer, Note, Report, Requeue, Bury,
                NoteAfter, TypeOK
  <2>4. pc[w] # "idle" /\ pc'[w] # "idle"
    BY <1>1 DEF GetStore, Allow, Take, Answer, Note, Report, Requeue, Bury,
                NoteAfter, TypeOK, AfterMove
  <2>5. held'[w].store = held[w].store
    BY <1>1, <2>2 DEF GetStore, Allow, Take, Answer, Note, Report, Requeue,
                      Bury, NoteAfter, TypeOK, Job
  <2> QED BY <2>1, <2>3, <2>4, <2>5, InFlightFrame
<1>2. CASE UNCHANGED <<inFlight, pc, held>>
  BY <1>2, InFlightFrame
<1>3. ASSUME NEW w \in Workers, WorkerStep(w) PROVE InFlightExact'
  BY <1>1, <1>3, LeaseCounts, ReleaseCounts DEF WorkerStep
<1>4. ASSUME NEW h \in Handlers,
             \/ Ingest(h) \/ ReplayJournal(h) \/ Enqueue(h) \/ DropDead(h)
             \/ \E r \in Replayable : Replay(h, r)
      PROVE  InFlightExact'
  BY <1>2, <1>4
     DEF Ingest, ReplayJournal, Enqueue, DropDead, Replay, storeVars, workerVars
<1>5. CASE \/ \E s \in Switchable : SetEnabled(s)
           \/ \E s \in Stores : Poll(s)
           \/ Tick
           \/ UNCHANGED vars
  BY <1>2, <1>5 DEF SetEnabled, Poll, Tick, vars, storeVars, workerVars
<1> QED BY <1>3, <1>4, <1>5 DEF Next, Around

\* The in-flight count of every store is the number of workers on it and stays
\* within its limit, whatever the number of workers.
THEOREM InFlightCorrect == Spec => []InFlightExact
<1> DEFINE I == TypeOK /\ BreakersOK /\ InFlightExact
<1>1. Init => I
  <2> SUFFICES ASSUME Init PROVE I
    OBVIOUS
  <2>1. TypeOK /\ BreakersOK
    BY InitType, NewBreakerOK DEF Init, BreakersOK
  <2>2. \A s \in Stores : Busy(s) = {} /\ inFlight[s] = 0
    BY DEF Init, Busy
  <2>3. InFlightExact
    BY <2>2, FS_EmptySet, MaxFlightType DEF InFlightExact
  <2> QED BY <2>1, <2>3
<1>2. I /\ [Next]_vars => I'
  BY NextType, NextBreakers, NextCounts
<1> QED BY <1>1, <1>2, PTL DEF Spec

\* Two workers never have relays of the same ordered store under way
\* (PROJECT.md 3.3: "`ordered=true` serializes relays on that store").
THEOREM OrderedSerialized ==
  Spec => [](\A s \in Ordered : \A v, w \in Workers :
                v \in Busy(s) /\ w \in Busy(s) => v = w)
<1>1. InFlightExact => \A s \in Ordered : \A v, w \in Workers :
                          v \in Busy(s) /\ w \in Busy(s) => v = w
  <2> SUFFICES ASSUME InFlightExact, NEW s \in Ordered,
                      NEW v \in Busy(s), NEW w \in Busy(s), v # w
               PROVE  FALSE
    OBVIOUS
  <2>1. s \in Stores /\ MaxFlight(s) = 1
    BY QueueAssumption DEF MaxFlight
  <2>2. Cardinality(Busy(s)) <= 1
    BY <2>1 DEF InFlightExact
  <2>3. Cardinality(Busy(s) \ {v}) = Cardinality(Busy(s)) - 1
    BY BusyFinite, FS_RemoveElement
  <2>4. IsFiniteSet(Busy(s) \ {v}) /\ w \in Busy(s) \ {v}
    BY BusyFinite, FS_RemoveElement
  <2>5. Cardinality(Busy(s) \ {v}) \in Nat /\ Cardinality(Busy(s) \ {v}) # 0
    BY <2>4, FS_CardinalityType, FS_EmptySet
  <2> QED BY <2>2, <2>3, <2>5, BusyFinite
<1> QED BY <1>1, InFlightCorrect, PTL

------------------------------------------------------------------------------
(* Attempts *)

\* Where a job still has an attempt to spend.
Fresh == {"get", "allow", "take", "requeue"}

\* The strengthening: a job that may be posted again has an attempt left, an
\* unused id has no POSTs, and the dead letter queue lists dead relays.
AttemptsLeft ==
    /\ \A w \in Workers : pc[w] \in Fresh => held[w].attempt < MaxAttempts
    /\ \A r \in Relays : fate[r] = "unused" => posts[r] = 0
    /\ \A i \in DOMAIN dlq : fate[dlq[i].relay] = "dead"

Attempts == AttemptsArePosts /\ AttemptsLeft

\* Where the items of the dead letter queue come from.
LEMMA DeadItemsTyped ==
  ASSUME TypeOK
  PROVE  \A i \in DOMAIN dlq : dlq[i].relay \in Relays
<1>1. dlq \in Seq(DeadItem)
  BY DEF TypeOK
<1>2. \A i \in DOMAIN dlq : dlq[i] \in DeadItem
  BY <1>1, LenProperties, ElementOfSeq
<1> QED BY <1>2 DEF DeadItem

\* Steps that post nothing and bury nothing.
LEMMA AttemptsFrame ==
  ASSUME Attempts, UNCHANGED <<posts, dlq, fate>>,
         \A j \in ready' : j.attempt = posts[j.relay] /\ j.attempt < MaxAttempts,
         \A h \in Handlers : handler'[h].plan \subseteq handler[h].plan,
         \A w \in Workers : Owns(w)' => held'[w].attempt = posts[held'[w].relay],
         \A w \in Workers : pc'[w] \in Fresh => held'[w].attempt < MaxAttempts
  PROVE  Attempts'
  BY DEF Attempts, AttemptsArePosts, AttemptsLeft

\* The worker's steps other than Take and Bury.
LEMMA WorkerAttempts ==
  ASSUME TypeOK, Conserved, Attempts, NEW w \in Workers,
         \/ Lease(w) \/ GetStore(w) \/ Allow(w) \/ Answer(w) \/ Note(w)
         \/ Report(w) /\ Combine(result[w]) # "success"
         \/ Requeue(w) \/ NoteAfter(w) \/ Release(w)
  PROVE  Attempts'
<1> USE DEF Attempts
<1>1. UNCHANGED <<posts, dlq, fate, handler>>
  BY DEF Lease, GetStore, Allow, Answer, Note, Report, Requeue, NoteAfter,
         Release, history, logVars
<1>2. \A v \in Workers : v # w => pc'[v] = pc[v] /\ held'[v] = held[v]
  BY DEF Lease, GetStore, Allow, Answer, Note, Report, Requeue, NoteAfter,
         Release, TypeOK
<1>3. \A v \in Workers : v # w =>
        /\ Owns(v)' => held'[v].attempt = posts[held'[v].relay]
        /\ pc'[v] \in Fresh => held'[v].attempt < MaxAttempts
  BY <1>2 DEF AttemptsArePosts, AttemptsLeft, Owns
<1>4. CASE Lease(w)
  <2>1. PICK j \in ready : ready' = ready \ {j} /\ held' = [held EXCEPT ![w] = j]
    BY <1>4 DEF Lease, Leasable, Due, Heads
  <2>2. held'[w] = j
    BY <2>1 DEF TypeOK
  <2> QED BY <1>1, <1>3, <2>1, <2>2, AttemptsFrame DEF AttemptsArePosts
<1>5. CASE \/ GetStore(w) \/ Allow(w) \/ Answer(w) \/ Note(w)
           \/ Report(w) /\ Combine(result[w]) # "success"
  <2>1. ready' = ready /\ Owns(w) /\ held[w] \in Job
    BY <1>5 DEF GetStore, Allow, Answer, Note, Report, Owns, Owning, PCs, TypeOK
  <2>2. held'[w].attempt = held[w].attempt /\ held'[w].relay = held[w].relay
    BY <1>5, <2>1 DEF GetStore, Allow, Answer, Note, Report, TypeOK, Job
  <2>3. pc'[w] \in Fresh => held[w].attempt < MaxAttempts
    <3>1. CASE pc[w] \in Fresh
      BY <3>1 DEF AttemptsLeft
    <3>2. CASE Answer(w) \/ Note(w)
      BY <3>2 DEF Answer, Note, TypeOK, Fresh
    <3>3. CASE Report(w) /\ Combine(result[w]) # "success"
      <4>1. pc'[w] \in Fresh => ~Exhausted(held[w].attempt)
        BY <3>3 DEF Report, Fresh, TypeOK
      <4>2. held[w].attempt \in Nat
        BY <2>1 DEF Job
      <4> QED BY <4>1, <4>2, BackoffAssumption DEF Exhausted
    <3> QED BY <1>5, <3>1, <3>2, <3>3 DEF GetStore, Allow, Fresh
  <2>4. held'[w].attempt = posts[held'[w].relay]
    BY <2>1, <2>2 DEF AttemptsArePosts
  <2> QED BY <1>1, <1>3, <2>1, <2>2, <2>3, <2>4, AttemptsFrame DEF AttemptsArePosts
<1>6. CASE Requeue(w)
  <2>1. /\ ready' = ready \cup {held[w]} /\ Owns(w) /\ pc[w] \in Fresh
        /\ pc'[w] \notin Owning
    BY <1>6 DEF Requeue, Owns, Owning, PCs, Fresh, AfterMove, TypeOK
  <2>2. held[w].attempt = posts[held[w].relay] /\ held[w].attempt < MaxAttempts
    BY <2>1 DEF AttemptsArePosts, AttemptsLeft
  <2>3. ~Owns(w)' /\ pc'[w] \notin Fresh
    BY <2>1 DEF Owns, Owning, Fresh, PCs
  <2> QED BY <1>1, <1>3, <2>1, <2>2, <2>3, AttemptsFrame DEF AttemptsArePosts
<1>7. CASE NoteAfter(w) \/ Release(w)
  <2>1. ready' = ready /\ ~Owns(w)' /\ pc'[w] \notin Fresh
    BY <1>7 DEF NoteAfter, Release, Owns, Owning, Fresh, TypeOK
  <2> QED BY <1>1, <1>3, <2>1, AttemptsFrame DEF AttemptsArePosts
<1> QED BY <1>4, <1>5, <1>6, <1>7

\* A delivered relay takes no further part.
LEMMA DeliveredAttempts ==
  ASSUME TypeOK, Conserved, Attempts, NEW w \in Workers,
         Report(w), Combine(result[w]) = "success"
  PROVE  Attempts'
<1> USE DEF Attempts
<1>1. /\ UNCHANGED <<posts, dlq, handler, ready, held>>
      /\ fate' = [fate EXCEPT ![held[w].relay] = "delivered"]
      /\ pc' = [pc EXCEPT ![w] = "release"]
  BY DEF Report, logVars
<1>2. held[w].relay \in Relays /\ Owns(w)
  BY DEF Report, TypeOK, Job, Owns, Owning, PCs
<1>3. fate[held[w].relay] = "live"
  BY <1>2 DEF Conserved, Conservation, SomewhereIsLive
<1>4. \A i \in DOMAIN dlq : dlq[i].relay \in Relays
  BY DeadItemsTyped
<1>5. \A v \in Workers : (Owns(v)' => Owns(v)) /\ (pc'[v] \in Fresh => pc[v] \in Fresh)
  BY <1>1 DEF Owns, Owning, Fresh, TypeOK
<1>6. AttemptsArePosts'
  BY <1>1, <1>5 DEF AttemptsArePosts
<1>7. AttemptsLeft'
  BY <1>1, <1>2, <1>3, <1>4, <1>5 DEF AttemptsLeft, TypeOK
<1> QED BY <1>6, <1>7

\* Take counts the attempt it starts; nobody else has the relay.
LEMMA TakeAttempts ==
  ASSUME TypeOK, Conserved, Attempts, NEW w \in Workers, Take(w)
  PROVE  Attempts'
<1> USE DEF Attempts
<1>1. PICK r0 \in Relays : held[w].relay = r0
  BY DEF Take, TypeOK, Job
<1>2. /\ UNCHANGED <<dlq, fate, handler, ready>> /\ Owns(w)
      /\ held[w] \in Job /\ pc[w] \in Fresh
  BY DEF Take, logVars, Owns, Owning, PCs, TypeOK, Fresh
<1>3. /\ held[w].attempt = posts[r0] /\ held[w].attempt < MaxAttempts
      /\ held[w].attempt \in Nat
  BY <1>1, <1>2 DEF AttemptsArePosts, AttemptsLeft, Job
<1>4. \A v \in Workers : v # w => pc'[v] = pc[v] /\ held'[v] = held[v]
  BY DEF Take, TypeOK
<1>5. CASE posts' = posts
  <2>1. /\ held'[w].attempt = held[w].attempt /\ held'[w].relay = r0
    BY <1>1, <1>2, <1>3, <1>5 DEF Take, TypeOK, Job
  <2>2. \A v \in Workers : /\ Owns(v)' => held'[v].attempt = posts[held'[v].relay]
                           /\ pc'[v] \in Fresh => held'[v].attempt < MaxAttempts
    BY <1>3, <1>4, <2>1 DEF AttemptsArePosts, AttemptsLeft, Owns
  <2> QED BY <1>2, <1>5, <2>2, AttemptsFrame DEF AttemptsArePosts
<1>6. CASE posts' # posts
  <2>1. /\ posts' = [posts EXCEPT ![r0] = @ + 1]
        /\ pc' = [pc EXCEPT ![w] = "post"]
        /\ held' = [held EXCEPT ![w].attempt = @ + 1]
    BY <1>1, <1>6 DEF Take
  <2>2. held'[w].attempt = held[w].attempt + 1 /\ held'[w].relay = r0
    BY <1>1, <1>2, <2>1 DEF TypeOK, Job
  <2>3. posts'[r0] = posts[r0] + 1 /\ \A r \in Relays : r # r0 => posts'[r] = posts[r]
    BY <2>1 DEF TypeOK
  <2>4. /\ \A j \in ready : j.relay # r0 /\ j.relay \in Relays
        /\ \A h \in Handlers : \A j \in handler[h].plan :
              j.relay # r0 /\ j.relay \in Relays
        /\ \A v \in Workers : v # w /\ Owns(v) =>
              held[v].relay # r0 /\ held[v].relay \in Relays
    <3>1. IsHeld(r0) /\ ~InReady(r0) /\ ~InPlan(r0)
      BY <1>1, <1>2 DEF IsHeld, Conserved, Conservation, NowhereTwice
    <3>2. \A j \in ready : j.relay # r0 /\ j.relay \in Relays
      BY <3>1 DEF InReady, TypeOK, Job
    <3>3. \A h \in Handlers : \A j \in handler[h].plan :
              j.relay # r0 /\ j.relay \in Relays
      BY <3>1 DEF InPlan, TypeOK, Handler, Job
    <3>4. \A v \in Workers : v # w /\ Owns(v) =>
              held[v].relay # r0 /\ held[v].relay \in Relays
      BY <1>1, <1>2 DEF Conserved, Conservation, NowhereTwice, TypeOK, Job,
                        Owns, Owning
    <3> QED BY <3>2, <3>3, <3>4
  <2>5. fate[r0] = "live"
    BY <1>1, <1>2 DEF Conserved, Conservation, SomewhereIsLive
  <2>6. \A i \in DOMAIN dlq : dlq[i].relay \in Relays /\ dlq[i].relay # r0
    BY <2>5, DeadItemsTyped DEF AttemptsLeft
  <2>7. AttemptsArePosts'
    <3>1. \A r \in Relays : posts'[r] <= MaxAttempts
      BY <1>3, <2>3, BackoffAssumption DEF AttemptsArePosts
    <3>2. \A j \in ready' : j.attempt = posts'[j.relay] /\ j.attempt < MaxAttempts
      BY <1>2, <2>3, <2>4 DEF AttemptsArePosts
    <3>3. \A h \in Handlers : \A j \in handler'[h].plan :
            j.attempt = 0 /\ posts'[j.relay] = 0
      BY <1>2, <2>3, <2>4 DEF AttemptsArePosts
    <3>4. \A v \in Workers : Owns(v)' => held'[v].attempt = posts'[held'[v].relay]
      BY <1>3, <1>4, <2>2, <2>3, <2>4 DEF AttemptsArePosts, Owns
    <3>5. \A i \in DOMAIN dlq' : dlq'[i].attempt = posts'[dlq'[i].relay]
      BY <1>2, <2>3, <2>6 DEF AttemptsArePosts
    <3> QED BY <3>1, <3>2, <3>3, <3>4, <3>5 DEF AttemptsArePosts
  <2>8. AttemptsLeft'
    <3>1. \A v \in Workers : pc'[v] \in Fresh => held'[v].attempt < MaxAttempts
      BY <1>4, <2>1 DEF AttemptsLeft, TypeOK, Fresh
    <3> QED BY <1>2, <2>3, <2>5, <3>1 DEF AttemptsLeft
  <2> QED BY <2>7, <2>8
<1> QED BY <1>5, <1>6

\* A dead letter carries the number of POSTs made.
LEMMA BuryAttempts ==
  ASSUME TypeOK, Conserved, Attempts, NEW w \in Workers, Bury(w)
  PROVE  Attempts'
<1> USE DEF Attempts
<1> DEFINE j == held[w]
           x == [relay |-> j.relay, store |-> j.store, attempt |-> j.attempt]
<1>1. /\ UNCHANGED <<posts, handler, ready, held>>
      /\ fate' = [fate EXCEPT ![j.relay] = "dead"]
      /\ pc' = [pc EXCEPT ![w] = AfterMove(tag[w])]
      /\ dlq' = Push(dlq, x, DLQMax)
  BY DEF Bury
<1>2. j \in Job /\ j.relay \in Relays /\ Owns(w)
  BY DEF Bury, TypeOK, Job, Owns, Owning, PCs
<1>3. x \in DeadItem /\ x.relay = j.relay /\ x.attempt = posts[j.relay]
  BY <1>2 DEF DeadItem, Job, AttemptsArePosts
<1>4. fate[j.relay] = "live"
  BY <1>2 DEF Conserved, Conservation, SomewhereIsLive
<1> HIDE DEF x
<1>5. \A i \in DOMAIN dlq' : dlq'[i] = x \/ \E k \in DOMAIN dlq : dlq'[i] = dlq[k]
  BY <1>1, <1>3, PushProperties, RelayAssumption DEF TypeOK
<1>6. \A k \in DOMAIN dlq : /\ dlq[k].relay \in Relays
                            /\ fate[dlq[k].relay] = "dead"
                            /\ dlq[k].attempt = posts[dlq[k].relay]
  BY DeadItemsTyped DEF AttemptsLeft, AttemptsArePosts
<1>7. \A r \in Relays : fate'[r] = IF r = j.relay THEN "dead" ELSE fate[r]
  BY <1>1, <1>2 DEF TypeOK
<1>8. \A v \in Workers : (Owns(v)' => Owns(v)) /\ (pc'[v] \in Fresh => pc[v] \in Fresh)
  BY <1>1 DEF Owns, Owning, Fresh, TypeOK, AfterMove
<1>9. \A i \in DOMAIN dlq' : /\ fate'[dlq'[i].relay] = "dead"
                             /\ dlq'[i].attempt = posts[dlq'[i].relay]
  BY <1>2, <1>3, <1>5, <1>6, <1>7
<1>10. AttemptsArePosts'
  BY <1>1, <1>8, <1>9 DEF AttemptsArePosts
<1>11. AttemptsLeft'
  BY <1>1, <1>7, <1>8, <1>9 DEF AttemptsLeft
<1> QED BY <1>10, <1>11

\* Planned jobs start at zero attempts with ids that were never posted.
LEMMA PlanningAttempts ==
  ASSUME TypeOK, Attempts, NEW h \in Handlers, NEW new \in SUBSET Job,
         handler'[h].plan = new,
         \A g \in Handlers : g # h => handler'[g] = handler[g],
         \A j \in new : fate[j.relay] = "unused" /\ j.attempt = 0,
         \A r \in Relays : fate'[r] = IF \E j \in new : j.relay = r
                                      THEN "live" ELSE fate[r],
         UNCHANGED <<ready, pc, held, posts, dlq>>
  PROVE  Attempts'
<1> USE DEF Attempts
<1>1. \A j \in new : j.relay \in Relays /\ posts[j.relay] = 0
  BY DEF Job, AttemptsLeft
<1>2. \A i \in DOMAIN dlq : dlq[i].relay \in Relays /\ fate[dlq[i].relay] = "dead"
  BY DeadItemsTyped DEF AttemptsLeft
<1>3. \A g \in Handlers : \A j \in handler'[g].plan :
        j.attempt = 0 /\ posts[j.relay] = 0
  BY <1>1 DEF AttemptsArePosts
<1>4. AttemptsArePosts'
  BY <1>3 DEF AttemptsArePosts, Owns
<1>5. AttemptsLeft'
  BY <1>2 DEF AttemptsLeft
<1> QED BY <1>4, <1>5

\* Ingest plans only fresh jobs.
LEMMA IngestAttempts ==
  ASSUME TypeOK, Attempts, NEW h \in Handlers, Ingest(h)
  PROVE  Attempts'
<1>1. PICK matched \in SUBSET {s \in Stores : enabled[s]} :
        \E id \in [matched -> Unused] :
            /\ handler' = [handler EXCEPT ![h] =
                  [pc |-> "enqueue", target |-> NoRelay, at |-> 0,
                   plan |-> {NewJob(id[s], s, now) : s \in matched}]]
            /\ fate' = [r \in Relays |->
                  IF \E s \in matched : id[s] = r THEN "live" ELSE fate[r]]
  BY DEF Ingest
<1>2. PICK id \in [matched -> Unused] :
            /\ handler' = [handler EXCEPT ![h] =
                  [pc |-> "enqueue", target |-> NoRelay, at |-> 0,
                   plan |-> {NewJob(id[s], s, now) : s \in matched}]]
            /\ fate' = [r \in Relays |->
                  IF \E s \in matched : id[s] = r THEN "live" ELSE fate[r]]
  BY <1>1
<1> DEFINE new == {NewJob(id[s], s, now) : s \in matched}
<1>3. \A s \in matched : /\ id[s] \in Relays /\ fate[id[s]] = "unused"
                         /\ NewJob(id[s], s, now).relay = id[s]
                         /\ NewJob(id[s], s, now).attempt = 0
  BY DEF Unused, NewJob
<1>4. new \in SUBSET Job
  BY <1>3, NewJobType DEF TypeOK, Time
<1>5. \A j \in new : fate[j.relay] = "unused" /\ j.attempt = 0
  BY <1>3
<1>6. \A r \in Relays : fate'[r] = IF \E j \in new : j.relay = r
                                   THEN "live" ELSE fate[r]
  BY <1>2, <1>3
<1>7. /\ handler'[h].plan = new
      /\ \A g \in Handlers : g # h => handler'[g] = handler[g]
      /\ UNCHANGED <<ready, pc, held, posts, dlq>>
  BY <1>2 DEF Ingest, TypeOK, workerVars, logVars
<1> HIDE DEF new
<1> QED BY <1>4, <1>5, <1>6, <1>7, PlanningAttempts

\* A replay starts over at zero attempts under a fresh id.
LEMMA ReplayedAttempts ==
  ASSUME TypeOK, Attempts, NEW h \in Handlers, NEW item,
         NEW n \in Unused, NEW t \in Nat, NEW target,
         item.store \in Stores, Replayed(h, item, n, t, target),
         UNCHANGED <<ready, pc, held, posts, dlq>>
  PROVE  Attempts'
<1> DEFINE new == {NewJob(n, item.store, t)}
<1>1. /\ n \in Relays /\ fate[n] = "unused"
      /\ NewJob(n, item.store, t).relay = n /\ NewJob(n, item.store, t).attempt = 0
  BY DEF Unused, NewJob
<1>2. new \in SUBSET Job
  BY <1>1, NewJobType
<1>3. \A j \in new : fate[j.relay] = "unused" /\ j.attempt = 0
  BY <1>1
<1>4. \A r \in Relays : fate'[r] = IF \E j \in new : j.relay = r
                                   THEN "live" ELSE fate[r]
  BY <1>1 DEF Replayed, TypeOK
<1>5. /\ handler'[h].plan = new
      /\ \A g \in Handlers : g # h => handler'[g] = handler[g]
  BY DEF Replayed, TypeOK
<1> HIDE DEF new
<1> QED BY <1>2, <1>3, <1>4, <1>5, PlanningAttempts

\* Steps that touch neither workers, queue nor history, and plan nothing new.
LEMMA IdleAttempts ==
  ASSUME TypeOK, Attempts,
         \A h \in Handlers : handler'[h].plan \subseteq handler[h].plan,
         \A i \in DOMAIN dlq' : \E k \in DOMAIN dlq : dlq'[i] = dlq[k],
         UNCHANGED <<ready, pc, held, posts, fate>>
  PROVE  Attempts'
<1> USE DEF Attempts
<1>1. AttemptsArePosts'
  BY DEF AttemptsArePosts, Owns
<1>2. AttemptsLeft'
  BY DEF AttemptsLeft
<1> QED BY <1>1, <1>2

\* Both lookups of a replay, and the removal that ends it.
LEMMA ReplayAttempts ==
  ASSUME TypeOK, Attempts, NEW h \in Handlers,
         \/ \E r \in Replayable : Replay(h, r)
         \/ ReplayJournal(h)
         \/ DropDead(h)
  PROVE  Attempts'
<1>1. UNCHANGED <<ready, pc, held, posts>>
  BY DEF Replay, ReplayJournal, DropDead, workerVars, history
<1>2. ASSUME NEW x \in Handler, x.plan = {},
             handler' = [handler EXCEPT ![h] = x]
      PROVE  \A g \in Handlers : handler'[g].plan \subseteq handler[g].plan
  BY <1>2 DEF TypeOK
<1>3. IdleHandler \in Handler /\ IdleHandler.plan = {}
  BY DEF IdleHandler, Handler, Time
<1>4. ASSUME NEW r \in Replayable, Replay(h, r) PROVE Attempts'
  <2>1. r \in Relays /\ now \in Nat /\ dlq' = dlq
    BY <1>4, RelayAssumption DEF TypeOK, Time, Replay, logVars
  <2>2. CASE Mentions(dlq, r)
    <3>1. PICK n \in Unused : Replayed(h, Newest(dlq, r), n, now, r)
      BY <1>4, <2>2 DEF Replay
    <3>2. Newest(dlq, r) \in DeadItem
      BY <2>2, NewestProperties DEF TypeOK
    <3>3. Newest(dlq, r).store \in Stores
      BY <3>2 DEF DeadItem
    <3> QED BY <1>1, <2>1, <3>1, <3>3, ReplayedAttempts
  <2>3. CASE ~Mentions(dlq, r)
    <3> DEFINE x == [pc |-> "journal", target |-> r, plan |-> {}, at |-> now]
    <3>1. x \in Handler /\ x.plan = {}
      BY <2>1 DEF Handler, Time
    <3>2. handler' = [handler EXCEPT ![h] = x] /\ fate' = fate
      BY <1>4, <2>3 DEF Replay
    <3> HIDE DEF x
    <3>3. \A g \in Handlers : handler'[g].plan \subseteq handler[g].plan
      BY <1>2, <3>1, <3>2
    <3> QED BY <1>1, <2>1, <3>2, <3>3, IdleAttempts
  <2> QED BY <2>2, <2>3
<1>5. CASE ReplayJournal(h)
  <2> DEFINE r == handler[h].target
  <2>1. dlq' = dlq
    BY <1>5 DEF ReplayJournal, logVars
  <2>2. CASE /\ Mentions(journal, r)
             /\ \E n \in Unused :
                   Replayed(h, Newest(journal, r), n, handler[h].at, NoRelay)
    <3>1. PICK n \in Unused :
                   Replayed(h, Newest(journal, r), n, handler[h].at, NoRelay)
      BY <2>2
    <3>2. Newest(journal, r) \in Entry
      BY <2>2, NewestProperties DEF TypeOK
    <3>3. Newest(journal, r).store \in Stores
      BY <3>2 DEF Entry
    <3>4. handler[h].at \in Nat
      BY DEF TypeOK, Handler, Time
    <3> QED BY <1>1, <2>1, <3>1, <3>3, <3>4, ReplayedAttempts
  <2>3. CASE handler' = [handler EXCEPT ![h] = IdleHandler] /\ fate' = fate
    <3>1. \A g \in Handlers : handler'[g].plan \subseteq handler[g].plan
      BY <1>2, <1>3, <2>3
    <3> QED BY <1>1, <2>1, <2>3, <3>1, IdleAttempts
  <2> QED BY <1>5, <2>2, <2>3 DEF ReplayJournal
<1>6. CASE DropDead(h)
  <2>1. /\ handler' = [handler EXCEPT ![h] = IdleHandler] /\ fate' = fate
        /\ dlq' = RemoveDead(dlq, handler[h].target)
    BY <1>6 DEF DropDead, history
  <2>2. \A i \in DOMAIN dlq' : \E k \in DOMAIN dlq : dlq'[i] = dlq[k]
    BY <2>1, RemoveDeadProperties DEF TypeOK
  <2>3. \A g \in Handlers : handler'[g].plan \subseteq handler[g].plan
    BY <1>2, <1>3, <2>1
  <2> QED BY <1>1, <2>1, <2>2, <2>3, IdleAttempts
<1> QED BY <1>4, <1>5, <1>6

\* An enqueued job keeps its count of zero and has every attempt left.
LEMMA EnqueueAttempts ==
  ASSUME TypeOK, Attempts, NEW h \in Handlers, Enqueue(h)
  PROVE  Attempts'
<1> USE DEF Attempts
<1>1. PICK j \in handler[h].plan : ready' = ready \cup {j}
  BY DEF Enqueue
<1>2. UNCHANGED <<posts, dlq, fate, pc, held>>
  BY DEF Enqueue, history, logVars, workerVars
<1>3. \A g \in Handlers : handler'[g].plan \subseteq handler[g].plan
  BY DEF Enqueue, TypeOK, Handler, IdleHandler
<1>4. \A k \in ready' : k.attempt = posts[k.relay] /\ k.attempt < MaxAttempts
  BY <1>1, BackoffAssumption DEF AttemptsArePosts
<1> QED BY <1>2, <1>3, <1>4, AttemptsFrame DEF AttemptsArePosts, AttemptsLeft, Owns

\* Every step keeps the counts.
LEMMA NextAttempts ==
  ASSUME TypeOK, Conserved, Attempts, [Next]_vars
  PROVE  Attempts'
<1>1. ASSUME NEW w \in Workers, WorkerStep(w) PROVE Attempts'
  <2>1. CASE Take(w)
    BY <2>1, TakeAttempts
  <2>2. CASE Bury(w)
    BY <2>2, BuryAttempts
  <2>3. CASE Report(w) /\ Combine(result[w]) = "success"
    BY <2>3, DeliveredAttempts
  <2> QED BY <1>1, <2>1, <2>2, <2>3, WorkerAttempts DEF WorkerStep
<1>2. ASSUME NEW h \in Handlers,
             \/ Ingest(h) \/ ReplayJournal(h) \/ Enqueue(h) \/ DropDead(h)
             \/ \E r \in Replayable : Replay(h, r)
      PROVE  Attempts'
  BY <1>2, IngestAttempts, EnqueueAttempts, ReplayAttempts
<1>3. CASE \/ \E s \in Switchable : SetEnabled(s)
           \/ \E s \in Stores : Poll(s)
           \/ Tick
           \/ UNCHANGED vars
  <2>1. UNCHANGED <<ready, pc, held, posts, fate, dlq, handler>>
    BY <1>3 DEF SetEnabled, Poll, Tick, vars, workerVars, history, logVars
  <2> QED BY <2>1, IdleAttempts
<1> QED BY <1>1, <1>2, <1>3 DEF Next, Around

\* Initially nothing has been posted.
LEMMA InitAttempts == Init => Attempts
  BY BackoffAssumption
     DEF Init, Attempts, AttemptsArePosts, AttemptsLeft, Owns, Owning, Fresh,
         IdleHandler

\* A job's attempt number is the number of POSTs made for it, no relay is posted
\* more often than MaxAttempts, and breaker skips and rate delays cost nothing,
\* for every setting of the breaker, the limiter and the retry policy.
THEOREM AttemptsCorrect == Spec => []AttemptsArePosts
<1> DEFINE I == TypeOK /\ BreakersOK /\ Conserved /\ Attempts
<1>1. Init => I
  BY InitType, InitConserves, InitAttempts, NewBreakerOK DEF Init, BreakersOK
<1>2. I /\ [Next]_vars => I'
  BY NextType, NextBreakers, NextConserves, NextAttempts
<1>3. I => AttemptsArePosts
  BY DEF Attempts
<1> QED BY <1>1, <1>2, <1>3, PTL DEF Spec

------------------------------------------------------------------------------
(* Tokens in reserve: why a half-open store's limiter delays nobody          *)

\* A store whose open period earns a token for every worker that may still be on
\* its way to the limiter and for every probe, and whose bucket can hold them.
Reserve ==
    /\ Rate * OpenFor >= Unit * (Cardinality(Workers) - 1 + Probes)
    /\ Burst >= Cardinality(Workers) - 1 + Probes

\* Workers the breaker of s admitted that have yet to ask the limiter.
Takers(s) == {w \in Workers : pc[w] = "take" /\ held[w].store = s}

\* When a breaker that refuses at t may next admit somebody.
TriedFrom(b, t) ==
    IF b.state = "open" /\ t < b.openedAt + OpenFor THEN b.openedAt + OpenFor ELSE t

\* How many it then may admit.
Budget(b) == IF b.state = "half_open" THEN b.probesLeft ELSE Probes

\* By then the bucket has a token for each of them and for those on their way.
Enough(s) ==
    Refill(bucket[s], TriedFrom(breaker[s], now)).tokens >=
        Unit * (Cardinality(Takers(s)) + Budget(breaker[s]))

Reserved(s) ==
    /\ bucket[s].lastTime <= now
    /\ breaker[s].state # "closed" => Enough(s)

\* What a bucket holds at a later time, in numbers.
LEMMA RefillLater ==
  ASSUME NEW b \in BucketType, NEW t \in Nat, NEW u \in Nat, b.lastTime <= t, t <= u
  PROVE  /\ Refill(b, t).tokens \in Nat /\ Refill(b, u).tokens \in Nat
         /\ Refill(b, u).tokens >= Refill(b, t).tokens
         /\ Refill(AfterTake(b, t), u).tokens >= Refill(b, u).tokens - Unit
         /\ AfterTake(b, t).lastTime = t
         /\ \A k \in Nat : k <= Unit * Burst /\ k <= Rate * (u - t)
               => Refill(b, u).tokens >= k
<1> DEFINE full == Unit * Burst
           T == b.tokens
           G == (t - b.lastTime) * Rate
           H == (u - t) * Rate
           c == Refill(b, t)
           d == AfterTake(b, t)
<1>1. /\ full \in Nat /\ Rate \in Nat /\ Unit \in Nat /\ T \in 0..full
      /\ b.lastTime \in Nat /\ t - b.lastTime \in Nat /\ u - t \in Nat
  BY BucketAssumption DEF BucketType
<1>2. G \in Nat /\ H \in Nat
  BY <1>1
<1>3. (u - b.lastTime) * Rate = G + H
  <2>1. u - b.lastTime = (t - b.lastTime) + (u - t)
    BY <1>1
  <2>2. \A x, y \in Nat : (x + y) * Rate = x * Rate + y * Rate
    BY <1>1
  <2> QED BY <1>1, <2>1, <2>2
<1>4. Rate * (u - t) = H
  BY <1>1
<1>5. c = [tokens |-> IF T + G > full THEN full ELSE T + G, lastTime |-> t]
  BY <1>1 DEF Refill
<1>6. Refill(b, u).tokens = IF T + (G + H) > full THEN full ELSE T + (G + H)
  <2>1. ~(u < b.lastTime)
    BY <1>1
  <2>2. Refill(b, u).tokens = IF T + (u - b.lastTime) * Rate > full THEN full
                              ELSE T + (u - b.lastTime) * Rate
    BY <2>1 DEF Refill
  <2> QED BY <1>3, <2>2
<1>7. d = IF c.tokens >= Unit THEN [c EXCEPT !.tokens = c.tokens - Unit] ELSE c
  BY DEF AfterTake
<1>8. d.lastTime = t /\ d.tokens = IF c.tokens >= Unit THEN c.tokens - Unit ELSE c.tokens
  <2> HIDE DEF full, T, G, d
  <2> QED BY <1>5, <1>7
<1>9. Refill(d, u).tokens = IF d.tokens + H > full THEN full ELSE d.tokens + H
  <2> HIDE DEF d
  <2> QED BY <1>1, <1>8 DEF Refill
<1> HIDE DEF full, T, G, H, c, d
<1>10. c.tokens = IF T + G > full THEN full ELSE T + G
  BY <1>5
<1>11. /\ c.tokens \in Nat /\ Refill(b, u).tokens \in Nat
       /\ Refill(b, u).tokens >= c.tokens
       /\ Refill(d, u).tokens >= Refill(b, u).tokens - Unit
  BY <1>1, <1>2, <1>6, <1>8, <1>9, <1>10
<1>12. ASSUME NEW k \in Nat, k <= full, k <= H PROVE Refill(b, u).tokens >= k
  BY <1>1, <1>2, <1>6, <1>12
<1> QED BY <1>4, <1>8, <1>11, <1>12 DEF full, c, d

\* A breaker that is found to be half-open keeps its claim.
LEMMA HalfOpenClaims ==
  ASSUME NEW b \in BreakerType, NEW t \in Nat
  PROVE  LET c == MaybeHalfOpen(b, t) IN
         /\ c.state = "closed" <=> b.state = "closed"
         /\ b.state # "closed" =>
               TriedFrom(c, t) = TriedFrom(b, t) /\ Budget(c) = Budget(b)
<1>1. b.openedAt \in Nat /\ OpenFor \in Nat
  BY CircuitAssumption DEF BreakerType
<1>2. CASE b.state = "open" /\ t - b.openedAt >= OpenFor
  <2> DEFINE c == MaybeHalfOpen(b, t)
  <2>1. c.state = "half_open" /\ c.probesLeft = Probes
    BY <1>2 DEF MaybeHalfOpen, BreakerType
  <2>2. ~(t < b.openedAt + OpenFor)
    BY <1>1, <1>2
  <2> QED BY <1>2, <2>1, <2>2 DEF TriedFrom, Budget
<1>3. CASE ~(b.state = "open" /\ t - b.openedAt >= OpenFor)
  BY <1>3 DEF MaybeHalfOpen
<1> QED BY <1>2, <1>3

\* A failure leaves a refusing breaker as it is, or a closed one, or trips it now.
LEMMA FailureTrips ==
  ASSUME NEW b \in BreakerType, NEW t \in Nat
  PROVE  LET c == AfterFailure(b, t) IN
         \/ c = b /\ b.state = "open"
         \/ c.state = "closed"
         \/ c.state = "open" /\ c.openedAt = t
<1>1. \A x \in BreakerType : Trip(x, t).state = "open" /\ Trip(x, t).openedAt = t
  BY DEF Trip, BreakerType
<1>2. CASE b.state = "half_open"
  BY <1>1, <1>2 DEF AfterFailure
<1>3. CASE b.state = "closed"
  <2> DEFINE c == [b EXCEPT !.failures = @ + 1]
  <2>1. c \in BreakerType /\ c.state = "closed"
    BY <1>3 DEF BreakerType
  <2>2. AfterFailure(b, t) = IF c.failures >= FailThreshold THEN Trip(c, t) ELSE c
    BY <1>3 DEF AfterFailure
  <2> HIDE DEF c
  <2> QED BY <1>1, <2>1, <2>2
<1>4. CASE b.state = "open"
  BY <1>4 DEF AfterFailure
<1> QED BY <1>2, <1>3, <1>4 DEF BreakerType, States

\* The workers on their way are counted.
LEMMA TakersFinite ==
  ASSUME NEW s
  PROVE  /\ IsFiniteSet(Takers(s)) /\ Cardinality(Takers(s)) \in Nat
         /\ Cardinality(Workers) \in Nat
         /\ \A w \in Workers : w \notin Takers(s) =>
               Cardinality(Takers(s)) <= Cardinality(Workers) - 1
<1>1. Takers(s) \in SUBSET Workers /\ IsFiniteSet(Workers)
  BY RelayAssumption DEF Takers
<1>2. /\ IsFiniteSet(Takers(s)) /\ Cardinality(Takers(s)) <= Cardinality(Workers)
      /\ Cardinality(Workers) = Cardinality(Takers(s)) => Workers = Takers(s)
  BY <1>1, FS_Subset
<1>3. Cardinality(Takers(s)) \in Nat /\ Cardinality(Workers) \in Nat
  BY <1>1, <1>2, FS_CardinalityType
<1>4. ASSUME NEW w \in Workers, w \notin Takers(s)
      PROVE  Cardinality(Takers(s)) <= Cardinality(Workers) - 1
  BY <1>2, <1>3, <1>4
<1> QED BY <1>2, <1>3, <1>4

\* Steps that touch neither the breaker nor the bucket of s nor the workers on
\* their way to it.
LEMMA ReservedFrame ==
  ASSUME NEW s, Reserved(s), breaker'[s] = breaker[s], bucket'[s] = bucket[s],
         now' = now, Takers(s)' = Takers(s)
  PROVE  Reserved(s)'
  BY DEF Reserved, Enough

\* A breaker that is looked at claims what it claimed.
LEMMA LookedAt ==
  ASSUME TypeOK, NEW s \in Stores, Reserved(s),
         breaker'[s] = MaybeHalfOpen(breaker[s], now), bucket'[s] = bucket[s],
         now' = now, Takers(s)' = Takers(s)
  PROVE  Reserved(s)'
<1>1. breaker[s] \in BreakerType /\ now \in Nat
  BY DEF TypeOK, Time
<1> QED BY <1>1, HalfOpenClaims DEF Reserved, Enough

\* A worker the breaker admits takes over the claim of a probe.
LEMMA AllowReserved ==
  ASSUME TypeOK, BreakersOK, NEW s \in Stores, Reserved(s), NEW w \in Workers, Allow(w)
  PROVE  Reserved(s)'
<1> DEFINE u == held[w].store
           b == breaker[s]
           c == MaybeHalfOpen(b, now)
<1>1. /\ u \in Stores /\ now \in Nat /\ b \in BreakerType /\ pc[w] = "allow"
      /\ breaker' = [breaker EXCEPT ![u] = AfterAllow(breaker[u], now)]
      /\ bucket' = bucket /\ now' = now
      /\ pc' = [pc EXCEPT ![w] = IF Admits(breaker[u], now) THEN "take" ELSE "requeue"]
      /\ held'[w].store = u /\ \A v \in Workers : v # w => held'[v] = held[v]
  BY DEF Allow, TypeOK, Time, Job
<1>2. /\ w \notin Takers(s)
      /\ Takers(s)' = IF u = s /\ Admits(b, now) THEN Takers(s) \cup {w} ELSE Takers(s)
  BY <1>1 DEF Takers, TypeOK
<1>3. CASE u # s
  BY <1>1, <1>2, <1>3, ReservedFrame
<1>4. CASE u = s /\ ~(c.state = "half_open" /\ c.probesLeft > 0)
  <2>1. breaker'[s] = c
    BY <1>1, <1>4 DEF AfterAllow, TypeOK
  <2>2. CASE c.state = "closed"
    BY <1>1, <2>1, <2>2 DEF Reserved
  <2>3. CASE c.state # "closed"
    <3>1. ~Admits(b, now)
      BY <1>4, <2>3 DEF Admits
    <3> QED BY <1>1, <1>2, <2>1, <3>1, LookedAt
  <2> QED BY <2>2, <2>3
<1>5. CASE u = s /\ c.state = "half_open" /\ c.probesLeft > 0
  <2>1. c \in BreakerType
    BY <1>1, MaybeHalfOpenOK DEF BreakersOK
  <2>2. breaker'[s] = [c EXCEPT !.probesLeft = c.probesLeft - 1] /\ Admits(b, now)
    BY <1>1, <1>5 DEF AfterAllow, Admits, TypeOK
  <2> DEFINE n == Cardinality(Takers(s))
             p == c.probesLeft
  <2>3. n \in Nat /\ p \in Nat /\ p > 0 /\ Cardinality(Takers(s))' = n + 1
    <3>1. n \in Nat /\ IsFiniteSet(Takers(s))
      BY TakersFinite
    <3>2. Takers(s)' = Takers(s) \cup {w}
      BY <1>2, <1>5, <2>2
    <3> QED BY <1>2, <1>5, <2>1, <3>1, <3>2, FS_AddElement DEF BreakerType
  <2>4. breaker'[s].state = "half_open" /\ breaker'[s].probesLeft = p - 1
    <3> HIDE DEF c
    <3> QED BY <1>5, <2>1, <2>2 DEF BreakerType
  <2>5. /\ bucket[s].lastTime <= now
        /\ Refill(bucket[s], now).tokens >= Unit * (n + p)
    <3>1. b.state # "closed"
      BY <1>1, <1>5, HalfOpenClaims
    <3>2. TriedFrom(b, now) = now /\ Budget(b) = p
      <4>1. TriedFrom(c, now) = now /\ Budget(c) = p
        BY <1>5 DEF TriedFrom, Budget
      <4> QED BY <1>1, <3>1, <4>1, HalfOpenClaims
    <3> QED BY <3>1, <3>2 DEF Reserved, Enough
  <2>6. TriedFrom(breaker'[s], now) = now /\ Budget(breaker'[s]) = p - 1
    BY <2>4 DEF TriedFrom, Budget
  <2>7. n + p = (n + 1) + (p - 1)
    BY <2>3
  <2> HIDE DEF n, p
  <2>8. Enough(s)'
    BY <1>1, <2>3, <2>5, <2>6, <2>7 DEF Enough
  <2> QED BY <1>1, <2>5, <2>8 DEF Reserved
<1> QED BY <1>3, <1>4, <1>5

\* A worker that asks the limiter uses up its own claim at most.
LEMMA TakeReserved ==
  ASSUME TypeOK, NEW s \in Stores, Reserved(s), NEW w \in Workers, Take(w)
  PROVE  Reserved(s)'
<1> DEFINE u == held[w].store
           b == breaker[s]
           t == TriedFrom(b, now)
<1>1. /\ u \in Stores /\ now \in Nat /\ b \in BreakerType /\ bucket[s] \in BucketType
      /\ pc[w] = "take" /\ breaker' = breaker /\ now' = now
      /\ bucket' = [bucket EXCEPT ![u] = AfterTake(bucket[u], now)]
      /\ pc'[w] # "take" /\ \A v \in Workers : v # w => pc'[v] = pc[v]
      /\ \A v \in Workers : v # w => held'[v] = held[v]
  <2>1. /\ u \in Stores /\ now \in Nat /\ b \in BreakerType /\ bucket[s] \in BucketType
        /\ breaker' = breaker /\ now' = now
    BY DEF Take, TypeOK, Time, Job
  <2>2. pc[w] = "take" /\ pc'[w] # "take" /\ \A v \in Workers : v # w => pc'[v] = pc[v]
    BY DEF Take, TypeOK
  <2>3. bucket' = [bucket EXCEPT ![u] = AfterTake(bucket[u], now)]
    BY DEF Take
  <2>4. \A v \in Workers : v # w => held'[v] = held[v]
    BY DEF Take, TypeOK
  <2> QED BY <2>1, <2>2, <2>3, <2>4
<1>2. Takers(s)' = Takers(s) \ {w} /\ (w \in Takers(s) <=> u = s)
  <2>1. \A v \in Workers : v # w => pc'[v] = pc[v] /\ held'[v] = held[v]
    BY <1>1
  <2>2. pc[w] = "take" /\ pc'[w] # "take"
    BY <1>1
  <2>3. \A v : v \in Takers(s)' <=> v \in Takers(s) /\ v # w
    BY <2>1, <2>2 DEF Takers
  <2>4. w \in Takers(s) <=> u = s
    BY <2>2 DEF Takers
  <2> QED BY <2>3, <2>4
<1>3. CASE u # s
  <2>1. bucket'[s] = bucket[s] /\ breaker'[s] = b /\ now' = now
    BY <1>1, <1>3
  <2>2. Takers(s)' = Takers(s)
    BY <1>2, <1>3
  <2> QED BY <2>1, <2>2, ReservedFrame
<1>4. CASE u = s
  <2>1. /\ bucket'[s] = AfterTake(bucket[s], now) /\ breaker'[s] = b
        /\ bucket[s].lastTime <= now
    BY <1>1, <1>4 DEF TypeOK, Reserved
  <2>2. t \in Nat /\ now <= t
    BY <1>1, CircuitAssumption DEF TriedFrom, BreakerType
  <2>3. /\ Refill(bucket[s], t).tokens \in Nat
        /\ Refill(bucket'[s], t).tokens >= Refill(bucket[s], t).tokens - Unit
        /\ bucket'[s].lastTime = now
    BY <1>1, <2>1, <2>2, RefillLater
  <2>4. ASSUME b.state # "closed" PROVE Enough(s)'
    <3> DEFINE n == Cardinality(Takers(s))
               m == Cardinality(Takers(s)')
               p == Budget(b)
               x == Refill(bucket[s], t).tokens
               y == Refill(bucket'[s], t).tokens
    <3>1. n \in Nat /\ m \in Nat /\ n = m + 1 /\ p \in Nat
      <4>1. IsFiniteSet(Takers(s)) /\ n \in Nat
        BY TakersFinite
      <4>2. m = n - 1
        <5>1. w \in Takers(s) /\ Takers(s)' = Takers(s) \ {w}
          BY <1>2, <1>4
        <5>2. Cardinality(Takers(s) \ {w}) = Cardinality(Takers(s)) - 1
          BY <4>1, <5>1, FS_RemoveElement
        <5> QED BY <5>1, <5>2
      <4>3. n # 0
        BY <1>2, <1>4, <4>1, FS_EmptySet
      <4>4. p \in Nat
        BY <1>1, CircuitAssumption DEF Budget, BreakerType
      <4> QED BY <4>1, <4>2, <4>3, <4>4
    <3>2. x >= Unit * (n + p)
      BY <2>4 DEF Reserved, Enough
    <3>3. t' = t
      BY <1>1, <2>1 DEF TriedFrom
    <3> HIDE DEF n, m, p, x, y, t
    <3>4. Unit * (n + p) = Unit * (m + p) + Unit /\ Unit * (m + p) \in Nat
      <4>1. Unit \in Nat /\ m + p \in Nat /\ n + p = (m + p) + 1
        BY <3>1, BucketAssumption
      <4>2. Unit * ((m + p) + 1) = Unit * (m + p) + Unit
        BY <4>1
      <4> QED BY <4>1, <4>2
    <3>5. x \in Nat /\ y >= x - Unit /\ Unit \in Nat
      BY <2>3, BucketAssumption DEF x, y
    <3>6. y \in Nat
      <4>1. AfterTake(bucket[s], now) \in BucketType
        BY <1>1, TakeType
      <4>2. Refill(bucket'[s], t) \in BucketType
        BY <2>1, <2>2, <4>1, RefillProperties
      <4>3. Unit * Burst \in Nat
        BY BucketAssumption
      <4> QED BY <4>2, <4>3 DEF BucketType, y
    <3>7. y >= Unit * (m + p)
      <4> DEFINE z == Unit * (m + p)
      <4>1. z \in Nat /\ x >= z + Unit
        BY <3>2, <3>4
      <4> HIDE DEF z
      <4>2. y >= z
        BY <3>5, <3>6, <4>1
      <4> QED BY <4>2 DEF z
    <3> QED BY <1>1, <2>1, <3>3, <3>7 DEF Enough, m, p, y, t
  <2>5. now <= now
    BY <1>1
  <2> QED BY <1>1, <2>1, <2>3, <2>4, <2>5 DEF Reserved
<1> QED BY <1>3, <1>4

\* A failure that trips the breaker leaves a whole open period to earn in.
LEMMA ReportReserved ==
  ASSUME Reserve, TypeOK, NEW s \in Stores, Reserved(s), NEW w \in Workers, Report(w)
  PROVE  Reserved(s)'
<1> DEFINE u == held[w].store
           b == breaker[s]
<1>1. /\ u \in Stores /\ now \in Nat /\ b \in BreakerType /\ bucket[s] \in BucketType
      /\ pc[w] = "report" /\ pc'[w] # "take" /\ bucket' = bucket /\ now' = now
      /\ breaker' = [breaker EXCEPT ![u] = Told(breaker[u], Combine(result[w]), now)]
      /\ \A v \in Workers : v # w => pc'[v] = pc[v] /\ held'[v] = held[v]
  BY DEF Report, TypeOK, Time, Job
<1>2. Takers(s)' = Takers(s) /\ w \notin Takers(s)
  BY <1>1 DEF Takers
<1>3. CASE u # s
  BY <1>1, <1>2, <1>3, ReservedFrame
<1>4. CASE breaker'[s] = b
  BY <1>1, <1>2, <1>4, ReservedFrame
<1>5. CASE breaker'[s].state = "closed"
  BY <1>1, <1>5 DEF Reserved
<1>6. CASE breaker'[s].state = "open" /\ breaker'[s].openedAt = now
  <2> DEFINE t == now + OpenFor
             k == Unit * (Cardinality(Takers(s)) + Probes)
             most == Unit * (Cardinality(Workers) - 1 + Probes)
  <2>1. OpenFor \in Nat \ {0} /\ t \in Nat /\ now <= t /\ now < t /\ t - now = OpenFor
    BY <1>1, CircuitAssumption
  <2>2. TriedFrom(breaker'[s], now) = t /\ Budget(breaker'[s]) = Probes
    BY <1>6, <2>1 DEF TriedFrom, Budget
  <2>3. k \in Nat /\ k <= Unit * Burst /\ k <= Rate * (t - now)
    <3> DEFINE n == Cardinality(Takers(s)) + Probes
               N == Cardinality(Workers) - 1 + Probes
    <3>1. /\ n \in Nat /\ N \in Nat /\ n <= N /\ N <= Burst
          /\ Unit \in Nat /\ Rate \in Nat /\ Burst \in Nat
      BY <1>2, TakersFinite, CircuitAssumption, BucketAssumption DEF Reserve
    <3> HIDE DEF n, N
    <3>2. \A i, j \in Nat : i <= j => Unit * i <= Unit * j
      <4> SUFFICES ASSUME NEW i \in Nat, NEW j \in Nat, i <= j PROVE Unit * i <= Unit * j
        OBVIOUS
      <4>1. PICK d \in Nat : j = i + d
        <5>1. j - i \in Nat /\ j = i + (j - i)
          OBVIOUS
        <5> QED BY <5>1
      <4>2. Unit * (i + d) = Unit * i + Unit * d /\ Unit * d \in Nat /\ Unit * i \in Nat
        BY <3>1
      <4> QED BY <4>1, <4>2
    <3>3. Unit * n <= Unit * N /\ Unit * N <= Unit * Burst
      BY <3>1, <3>2
    <3>4. Unit * N <= Rate * OpenFor
      BY DEF Reserve, N
    <3>5. Unit * n \in Nat /\ Unit * N \in Nat /\ Unit * Burst \in Nat /\ Rate * OpenFor \in Nat
      BY <2>1, <3>1
    <3>6. Unit * n <= Unit * Burst /\ Unit * n <= Rate * OpenFor
      BY <3>3, <3>4, <3>5
    <3> QED BY <2>1, <3>5, <3>6 DEF n
  <2>4. bucket[s].lastTime <= now
    BY DEF Reserved
  <2>5. Refill(bucket[s], t).tokens >= k
    <3> HIDE DEF k, t
    <3> QED BY <1>1, <2>1, <2>3, <2>4, RefillLater
  <2>6. Enough(s)'
    BY <1>1, <1>2, <2>2, <2>5 DEF Enough
  <2> QED BY <1>1, <2>4, <2>6 DEF Reserved
<1>7. CASE u = s
  <2>1. breaker'[s] = AfterSuccess(b) \/ breaker'[s] = AfterFailure(b, now)
    BY <1>1, <1>7 DEF Told, TypeOK
  <2>2. AfterSuccess(b).state = "closed"
    BY <1>1 DEF AfterSuccess, BreakerType
  <2> QED BY <1>1, <1>4, <1>5, <1>6, <2>1, <2>2, FailureTrips
<1> QED BY <1>3, <1>7

\* Time only adds to what is there.
LEMMA TickReserved ==
  ASSUME TypeOK, NEW s \in Stores, Reserved(s), Tick
  PROVE  Reserved(s)'
<1> DEFINE b == breaker[s]
           t == TriedFrom(b, now)
           u == TriedFrom(b, now + 1)
<1>1. /\ now \in Nat /\ b \in BreakerType /\ bucket[s] \in BucketType
      /\ now' = now + 1 /\ UNCHANGED <<breaker, bucket, pc, held>>
  BY DEF Tick, TypeOK, Time, storeVars, workerVars
<1>2. bucket[s].lastTime \in Nat /\ bucket[s].lastTime <= now
  BY <1>1 DEF Reserved, BucketType
<1>3. t \in Nat /\ u \in Nat /\ now <= t /\ t <= u
  BY <1>1, CircuitAssumption DEF TriedFrom, BreakerType
<1>4. /\ Refill(bucket[s], t).tokens \in Nat /\ Refill(bucket[s], u).tokens \in Nat
      /\ Refill(bucket[s], u).tokens >= Refill(bucket[s], t).tokens
  <2>1. bucket[s].lastTime <= t
    BY <1>1, <1>2, <1>3
  <2> HIDE DEF t, u
  <2> QED BY <1>1, <1>3, <2>1, RefillLater
<1>5. ASSUME b.state # "closed" PROVE Enough(s)'
  <2> DEFINE k == Unit * (Cardinality(Takers(s)) + Budget(b))
  <2>1. Refill(bucket[s], t).tokens >= k
    BY <1>5 DEF Reserved, Enough
  <2>2. k \in Nat
    <3>1. Cardinality(Takers(s)) \in Nat /\ Budget(b) \in Nat
      BY <1>1, TakersFinite, CircuitAssumption DEF Budget, BreakerType
    <3> QED BY <3>1, BucketAssumption
  <2>3. Takers(s)' = Takers(s)
    BY <1>1 DEF Takers
  <2>4. Refill(bucket[s], u).tokens >= k
    <3> HIDE DEF k, t, u
    <3> QED BY <1>4, <2>1, <2>2
  <2> QED BY <1>1, <2>3, <2>4 DEF Enough
<1>6. bucket[s].lastTime <= now + 1
  BY <1>1, <1>2
<1> QED BY <1>1, <1>5, <1>6 DEF Reserved

\* Every step keeps what is reserved.
LEMMA NextReserved ==
  ASSUME Reserve, TypeOK, BreakersOK, NEW s \in Stores, Reserved(s), [Next]_vars
  PROVE  Reserved(s)'
<1>1. ASSUME NEW w \in Workers,
             \/ Lease(w) \/ GetStore(w) \/ Answer(w) \/ Note(w)
             \/ Requeue(w) \/ Bury(w) \/ NoteAfter(w) \/ Release(w)
      PROVE  Reserved(s)'
  <2>1. /\ UNCHANGED <<breaker, bucket, now>>
        /\ pc[w] # "take" /\ pc'[w] # "take"
        /\ \A v \in Workers : v # w => pc'[v] = pc[v] /\ held'[v] = held[v]
    BY <1>1 DEF Lease, GetStore, Answer, Note, Requeue, Bury, NoteAfter, Release,
                AfterMove, storeVars, TypeOK
  <2>2. Takers(s)' = Takers(s)
    BY <2>1 DEF Takers
  <2> QED BY <2>1, <2>2, ReservedFrame
<1>2. ASSUME NEW x \in Stores, Poll(x) PROVE Reserved(s)'
  <2>1. /\ UNCHANGED <<bucket, now, pc, held>>
        /\ breaker'[s] = breaker[s] \/ breaker'[s] = MaybeHalfOpen(breaker[s], now)
    BY <1>2 DEF Poll, TypeOK, workerVars
  <2>2. Takers(s)' = Takers(s)
    BY <2>1 DEF Takers
  <2> QED BY <2>1, <2>2, ReservedFrame, LookedAt
<1>3. ASSUME NEW w \in Workers, WorkerStep(w) PROVE Reserved(s)'
  BY <1>1, <1>3, AllowReserved, TakeReserved, ReportReserved DEF WorkerStep
<1>4. CASE UNCHANGED <<breaker, bucket, now, pc, held>>
  <2>1. Takers(s)' = Takers(s)
    BY <1>4 DEF Takers
  <2> QED BY <1>4, <2>1, ReservedFrame
<1> QED
  BY <1>2, <1>3, <1>4, TickReserved
     DEF Next, Around, Ingest, ReplayJournal, Enqueue, DropDead, Replay, SetEnabled,
     vars, workerVars, storeVars

\* With tokens in reserve a half-open store delays nobody.
LEMMA HalfOpenIsPrompt ==
  ASSUME TypeOK, NEW s \in Stores, Reserved(s), [Next]_vars, DelayedOn(s)
  PROVE  breaker'[s] = breaker[s] /\ breaker[s].state # "half_open"
<1>1. PICK w \in Workers : pc[w] = "take" /\ pc'[w] = "requeue" /\ held[w].store = s
  BY DEF DelayedOn, Admitted
<1>2. Take(w)
  <2>1. pc'[w] # pc[w]
    BY <1>1
  <2>2. ASSUME NEW v \in Workers, WorkerStep(v), v # w PROVE pc'[w] = pc[w]
    BY <2>2 DEF WorkerStep, Lease, GetStore, Allow, Take, Answer, Note, Report,
       Requeue, Bury, NoteAfter, Release, TypeOK
  <2>3. Around \/ UNCHANGED vars => pc' = pc
    BY DEF Around, Ingest, ReplayJournal, Replay, Enqueue, DropDead, SetEnabled,
       Poll, Tick, vars, workerVars
  <2>4. WorkerStep(w)
    BY <2>1, <2>2, <2>3 DEF Next
  <2> QED BY <1>1, <2>4 DEF WorkerStep, Lease, GetStore, Allow, Answer, Note, Report,
     Requeue, Bury, NoteAfter, Release
<1>3. /\ breaker' = breaker /\ now \in Nat /\ bucket[s] \in BucketType
      /\ TakeWait(bucket[s], now) > 0
  BY <1>1, <1>2 DEF Take, TypeOK, Time
<1>4. ASSUME breaker[s].state = "half_open" PROVE FALSE
  <2> DEFINE n == Cardinality(Takers(s))
             p == Budget(breaker[s])
             x == Refill(bucket[s], now).tokens
  <2>1. n \in Nat /\ n # 0 /\ p \in Nat
    <3>1. w \in Takers(s)
      BY <1>1 DEF Takers
    <3>2. p \in Nat
      BY CircuitAssumption DEF Budget, TypeOK, BreakerType
    <3> QED BY <3>1, <3>2, TakersFinite, FS_EmptySet
  <2>2. x >= Unit * (n + p)
    BY <1>4 DEF Reserved, Enough, TriedFrom
  <2>3. x \in Nat
    <3>1. Unit * Burst \in Nat
      BY BucketAssumption
    <3> QED BY <1>3, <3>1, RefillProperties DEF BucketType
  <2> HIDE DEF n, p, x
  <2>4. x >= Unit
    <3>1. Unit \in Nat /\ n + p - 1 \in Nat /\ n + p = (n + p - 1) + 1
      BY <2>1, BucketAssumption
    <3>2. \A i \in Nat : Unit * (i + 1) = Unit * i + Unit /\ Unit * i \in Nat
      BY <3>1
    <3>3. Unit * (n + p) = Unit * (n + p - 1) + Unit /\ Unit * (n + p - 1) \in Nat
      BY <3>1, <3>2
    <3> DEFINE z == Unit * (n + p - 1)
    <3>4. z \in Nat /\ x >= z + Unit
      BY <2>2, <3>3
    <3> HIDE DEF z
    <3> QED BY <2>3, <3>1, <3>4
  <2>5. TakeWait(bucket[s], now) = 0
    BY <1>3, <2>4, TakeAccount DEF x
  <2> QED BY <1>3, <2>5
<1> QED BY <1>3, <1>4

\* Where the open period earns, and the bucket holds, a token for each probe and for
\* each other worker, a spent probe is always going to be reported, whatever else
\* the limiter delays: the probes find their tokens.
THEOREM ProbeOutstandingCorrect ==
  ASSUME Reserve
  PROVE  Spec => []ProbeOutstanding
<1> DEFINE I == /\ TypeOK /\ BreakersOK
                /\ \A s \in Stores : Reserved(s) /\ ~Wedged(s)
<1>1. Init => I
  <2> SUFFICES ASSUME Init PROVE I
    OBVIOUS
  <2>1. \A s \in Stores : breaker[s].state = "closed" /\ bucket[s].lastTime = 0 /\ now = 0
    BY DEF Init, NewBreaker, NewBucket
  <2> QED BY <2>1, InitType, NewBreakerOK DEF Init, BreakersOK, Reserved, Wedged,
             ProbesSpent
<1>2. I /\ [Next]_vars => I'
  <2> SUFFICES ASSUME I, [Next]_vars PROVE I'
    OBVIOUS
  <2>1. TypeOK' /\ BreakersOK'
    BY NextType, NextBreakers
  <2>2. ASSUME NEW s \in Stores PROVE Reserved(s)' /\ ~Wedged(s)'
    <3>1. Reserved(s)'
      BY <2>2, NextReserved
    <3>2. ASSUME Wedged(s)' PROVE FALSE
      <4>1. DelayedOn(s)
        BY <2>2, <3>2, NextWedges
      <4>2. breaker'[s] = breaker[s] /\ breaker[s].state # "half_open"
        BY <2>2, <4>1, HalfOpenIsPrompt
      <4> QED BY <3>2, <4>2 DEF Wedged, ProbesSpent
    <3> QED BY <3>1, <3>2
  <2> QED BY <2>1, <2>2
<1>3. I => ProbeOutstanding
  BY DEF Wedged, ProbeOutstanding
<1> QED BY <1>1, <1>2, <1>3, PTL DEF Spec
==============================================================================
