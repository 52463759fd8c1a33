----------------------------- MODULE IngestProofs -----------------------------
(***************************************************************************)
(* Ingestion accepts a key once per TTL, a request once for ever and a     *)
(* nonce once a window, for any number of handlers and deliveries.         *)
(***************************************************************************)
EXTENDS IngestRecovery, TLAPS

------------------------------------------------------------------------------
(* Types *)

\* The handler states that Verify, Refuse and Answer build.
LEMMA HandlerStates ==
  /\ IdleHandler \in Handler
  /\ \A c \in {200, 202, 400, 401, 409, 413, 422} :
        [pc |-> "idle", req |-> NoRequest, since |-> 0, frame |-> 0,
         todo |-> {}, code |-> c] \in Handler
  /\ \A c \in {200, 202}, f \in Nat, q \in Requests :
        [pc |-> "idle", req |-> q, since |-> 0, frame |-> f,
         todo |-> {}, code |-> c] \in Handler
  /\ \A q \in Requests, t \in Nat :
        [pc |-> "nonce", req |-> q, since |-> t, frame |-> 0,
         todo |-> {}, code |-> 0] \in Handler
  BY DEF IdleHandler, Handler

\* The handler states that Remember and Match move on to.
LEMMA Moved ==
  ASSUME NEW r \in Handler
  PROVE  /\ \A f \in Nat : LET x == [r EXCEPT !.pc = "match", !.frame = f]
                          IN  x \in Handler /\ x.req = r.req /\ x.since = r.since
         /\ \A T \in SUBSET Stores : LET x == [r EXCEPT !.pc = "enqueue", !.todo = T]
                                     IN  x \in Handler /\ x.req = r.req /\ x.since = r.since
<1>1. ASSUME NEW f \in Nat
      PROVE  /\ [r EXCEPT !.pc = "match", !.frame = f] \in Handler
             /\ [r EXCEPT !.pc = "match", !.frame = f].req = r.req
             /\ [r EXCEPT !.pc = "match", !.frame = f].since = r.since
  <2>1. /\ [r EXCEPT !.pc = "match", !.frame = f].req = r.req
        /\ [r EXCEPT !.pc = "match", !.frame = f].since = r.since
    BY DEF Handler
  <2>2. [r EXCEPT !.pc = "match"] \in Handler
    BY DEF Handler
  <2>3. \A y \in Handler : [y EXCEPT !.frame = f] \in Handler
    BY DEF Handler
  <2>4. [r EXCEPT !.pc = "match", !.frame = f] \in Handler
    BY <2>2, <2>3
  <2> QED BY <2>1, <2>4
<1>2. ASSUME NEW T \in SUBSET Stores
      PROVE  /\ [r EXCEPT !.pc = "enqueue", !.todo = T] \in Handler
             /\ [r EXCEPT !.pc = "enqueue", !.todo = T].req = r.req
             /\ [r EXCEPT !.pc = "enqueue", !.todo = T].since = r.since
  <2>1. /\ [r EXCEPT !.pc = "enqueue", !.todo = T].req = r.req
        /\ [r EXCEPT !.pc = "enqueue", !.todo = T].since = r.since
    BY DEF Handler
  <2>2. [r EXCEPT !.pc = "enqueue"] \in Handler
    BY DEF Handler
  <2>3. \A y \in Handler : [y EXCEPT !.todo = T] \in Handler
    BY DEF Handler
  <2>4. [r EXCEPT !.pc = "enqueue", !.todo = T] \in Handler
    BY <2>2, <2>3
  <2> QED BY <2>1, <2>4
<1> QED BY <1>1, <1>2

\* Verify refuses with one of the statuses of its two tables.
LEMMA VerdictType ==
  ASSUME NEW q \in Requests, NEW t \in Nat
  PROVE  /\ Verdict(q, t) \in {0, 400, 401, 413, 422}
         /\ Verdict(q, t) = 0 => ~Skewed(q, t)
<1>1. q.form \in Forms
  BY IngestAssumption DEF Request
<1> QED BY <1>1 DEF Verdict, EarlyStatus, LateStatus, Forms

\* What gcLocked leaves is typed.
LEMMA LiveType ==
  ASSUME TypeOK
  PROVE  /\ LiveNonces(now) \in [Nonces -> Nat]
         /\ LiveRecords(now) \in [Keys -> Record \cup {NoRecord}]
  BY DEF TypeOK, LiveNonces, LiveRecords

\* Initially everything is typed.
LEMMA InitType == Init => TypeOK
<1> SUFFICES ASSUME Init PROVE TypeOK
  OBVIOUS
<1>1. handler \in [Handlers -> Handler]
  BY HandlerStates DEF Init
<1>2. \A h \in Handlers : handler[h].pc = "idle"
  BY DEF Init, IdleHandler
<1> QED BY <1>1, <1>2 DEF Init, TypeOK

\* Taking a request.
LEMMA VerifyType ==
  ASSUME TypeOK, NEW h \in Handlers, NEW q \in Requests, Verify(h, q)
  PROVE  TypeOK'
<1>1. handler' \in [Handlers -> Handler]
  <2>1. Verdict(q, now) \in {0, 400, 401, 413, 422} /\ now \in Nat
    BY VerdictType DEF TypeOK
  <2>2. CASE Verdict(q, now) = 0
    BY <2>1, <2>2, HandlerStates DEF Verify, TypeOK
  <2>3. CASE Verdict(q, now) # 0
    <3> DEFINE x == [pc |-> "idle", req |-> NoRequest, since |-> 0, frame |-> 0,
                     todo |-> {}, code |-> Verdict(q, now)]
    <3>1. x \in Handler
      BY <2>1, <2>3, HandlerStates
    <3>2. handler' = [handler EXCEPT ![h] = x]
      BY <2>3 DEF Verify, Refuse
    <3> QED BY <3>1, <3>2 DEF TypeOK
  <2> QED BY <2>2, <2>3
<1>2. \A g \in Handlers : handler'[g].pc # "idle" => handler'[g].req \in Requests
  BY DEF Verify, Refuse, TypeOK
<1> QED BY <1>1, <1>2 DEF Verify, TypeOK

\* Steps of a handler that has a request.
LEMMA HandlerType ==
  ASSUME TypeOK, NEW h \in Handlers, HandlerStep(h)
  PROVE  TypeOK'
<1> DEFINE q == handler[h].req
<1>1. /\ handler[h] \in Handler /\ q \in Requests /\ q.nonce \in Nonces
      /\ q.key \in Keys /\ q.body \in Bodies /\ handler[h].frame \in Nat
  <2>1. handler[h].pc # "idle"
    BY DEF HandlerStep, CheckNonce, Remember, Match, Enqueue
  <2>2. handler[h] \in Handler /\ q \in Requests
    BY <2>1 DEF TypeOK
  <2>3. q \in Request
    BY <2>2, IngestAssumption
  <2> QED BY <2>2, <2>3 DEF Handler, Request
<1>2. ASSUME NEW f \in Nat, NEW c \in {200, 202},
             Refuse(h, 409) \/ Answer(h, c, f)
      PROVE  /\ handler' \in [Handlers -> Handler]
             /\ \A g \in Handlers : handler'[g].pc # "idle" => handler'[g].req \in Requests
  <2>1. CASE Refuse(h, 409)
    <3> DEFINE x == [pc |-> "idle", req |-> NoRequest, since |-> 0, frame |-> 0,
                     todo |-> {}, code |-> 409]
    <3>1. x \in Handler /\ x.pc = "idle"
      BY HandlerStates
    <3>2. handler' = [handler EXCEPT ![h] = x]
      BY <2>1 DEF Refuse
    <3> HIDE DEF x
    <3> QED BY <3>1, <3>2 DEF TypeOK
  <2>2. CASE Answer(h, c, f)
    <3> DEFINE x == [pc |-> "idle", req |-> q, since |-> 0, frame |-> f,
                     todo |-> {}, code |-> c]
    <3>1. x \in Handler /\ x.pc = "idle"
      BY <1>1, HandlerStates
    <3>2. handler' = [handler EXCEPT ![h] = x]
      BY <2>2 DEF Answer
    <3> HIDE DEF x
    <3> QED BY <3>1, <3>2 DEF TypeOK
  <2> QED BY <1>2, <2>1, <2>2
<1>3. ASSUME NEW x \in Handler, x.req = q, handler' = [handler EXCEPT ![h] = x]
      PROVE  /\ handler' \in [Handlers -> Handler]
             /\ \A g \in Handlers : handler'[g].pc # "idle" => handler'[g].req \in Requests
  BY <1>1, <1>3 DEF TypeOK
<1>4. CASE CheckNonce(h)
  <2>1. book' \in [Nonces -> Nat]
    BY <1>1, <1>4, LiveType, IngestAssumption DEF CheckNonce, TypeOK
  <2>2. CASE Refuse(h, 409)
    BY <1>2, <1>4, <2>1, <2>2 DEF CheckNonce, TypeOK
  <2>3. CASE handler' = [handler EXCEPT ![h].pc = "idem"]
    <3> DEFINE x == [handler[h] EXCEPT !.pc = "idem"]
    <3>1. x \in Handler /\ x.req = q /\ handler' = [handler EXCEPT ![h] = x]
      BY <1>1, <2>3 DEF Handler, TypeOK
    <3> HIDE DEF x
    <3> QED BY <1>3, <1>4, <2>1, <3>1 DEF CheckNonce, TypeOK
  <2> QED BY <1>4, <2>2, <2>3 DEF CheckNonce
<1>5. CASE Remember(h)
  <2>1. CASE ~Expired(q.key, now)
    <3>1. idem[q.key].frame \in Nat
      BY <1>1, <2>1 DEF Expired, TypeOK, Record
    <3>2. /\ idem' = LiveRecords(now)
          /\ Answer(h, 200, idem[q.key].frame) \/ Refuse(h, 409)
          /\ UNCHANGED <<now, enabled, book, queued, planned, frames, accepted>>
      BY <1>5, <2>1 DEF Remember
    <3> QED BY <1>2, <3>1, <3>2, LiveType DEF TypeOK
  <2>2. CASE Expired(q.key, now)
    <3> DEFINE x == [handler[h] EXCEPT !.pc = "match", !.frame = frames + 1]
               rec == [body |-> q.body, frame |-> frames + 1, expires |-> now + TTL]
    <3>1. /\ idem' = [LiveRecords(now) EXCEPT ![q.key] = rec]
          /\ accepted' = accepted \cup {[req |-> q, frame |-> frames + 1, at |-> now]}
          /\ handler' = [handler EXCEPT ![h] = x]
          /\ frames' = frames + 1
          /\ UNCHANGED <<now, enabled, book, queued, planned>>
      BY <1>5, <2>2 DEF Remember
    <3>2. x \in Handler /\ x.req = q
      <4>1. frames + 1 \in Nat
        BY DEF TypeOK
      <4> QED BY <1>1, <4>1, Moved
    <3>3. rec \in Record
      BY <1>1, IngestAssumption DEF Record, TypeOK
    <3>4. idem' \in [Keys -> Record \cup {NoRecord}]
      BY <1>1, <3>1, <3>3, LiveType
    <3>5. accepted' \subseteq Accepted /\ frames' \in Nat
      BY <1>1, <3>1 DEF Accepted, TypeOK
    <3> HIDE DEF x
    <3> QED BY <1>3, <3>1, <3>2, <3>4, <3>5 DEF TypeOK
  <2> QED BY <2>1, <2>2
<1>6. CASE Match(h)
  <2> DEFINE plan == {s \in Matching[q.body] : enabled[s]}
  <2>1. plan \subseteq Stores
    BY <1>1, IngestAssumption
  <2>2. planned' \subseteq Nat \X Stores
    BY <1>1, <1>6, <2>1 DEF Match, TypeOK
  <2>3. CASE plan = {}
    BY <1>1, <1>2, <1>6, <2>2, <2>3 DEF Match, TypeOK
  <2>4. CASE plan # {}
    <3> DEFINE x == [handler[h] EXCEPT !.pc = "enqueue", !.todo = plan]
    <3>1. x \in Handler /\ x.req = q
      BY <1>1, <2>1, Moved
    <3>2. handler' = [handler EXCEPT ![h] = x]
      BY <1>6, <2>4 DEF Match
    <3> HIDE DEF x
    <3> QED BY <1>3, <1>6, <2>2, <3>1, <3>2 DEF Match, TypeOK
  <2> QED BY <2>3, <2>4
<1>7. CASE Enqueue(h)
  <2>1. PICK s \in handler[h].todo :
          /\ queued' = queued \cup {<<handler[h].frame, s>>}
          /\ IF handler[h].todo = {s} THEN Answer(h, 202, handler[h].frame)
             ELSE handler' = [handler EXCEPT ![h].todo = @ \ {s}]
    BY <1>7 DEF Enqueue
  <2>2. queued' \subseteq Nat \X Stores
    BY <1>1, <2>1 DEF Handler, TypeOK
  <2>3. CASE handler[h].todo = {s}
    BY <1>1, <1>2, <1>7, <2>1, <2>2, <2>3 DEF Enqueue, TypeOK
  <2>4. CASE handler[h].todo # {s}
    <3> DEFINE x == [handler[h] EXCEPT !.todo = handler[h].todo \ {s}]
    <3>1. x \in Handler /\ x.req = q /\ handler' = [handler EXCEPT ![h] = x]
      BY <1>1, <2>1, <2>4 DEF Handler, TypeOK
    <3> HIDE DEF x
    <3> QED BY <1>3, <1>7, <2>2, <3>1 DEF Enqueue, TypeOK
  <2> QED BY <2>3, <2>4
<1> QED BY <1>4, <1>5, <1>6, <1>7 DEF HandlerStep

\* Every step keeps the types.
LEMMA NextType ==
  ASSUME TypeOK, [Next]_vars
  PROVE  TypeOK'
<1>1. CASE SweepNonces \/ SweepRecords
  BY <1>1, LiveType DEF SweepNonces, SweepRecords, TypeOK
<1>2. ASSUME NEW s \in Switchable, SetEnabled(s) PROVE TypeOK'
  BY <1>2 DEF SetEnabled, TypeOK
<1>3. CASE Tick
  BY <1>3 DEF Tick, TypeOK
<1>4. CASE UNCHANGED vars
  BY <1>4 DEF vars, TypeOK
<1> QED BY <1>1, <1>2, <1>3, <1>4, VerifyType, HandlerType DEF Next

\* The ingestion state is typed in every reachable state.
THEOREM IngestTypeCorrect == Spec => []TypeOK
  BY InitType, NextType, PTL DEF Spec

------------------------------------------------------------------------------
(* One frame per key *)

\* The strengthening: until its TTL has passed, an accepted frame is the one
\* its key's record names.
Recorded ==
    \A a \in accepted :
        /\ a.at <= now
        /\ \/ a.at + TTL <= now
           \/ LET r == idem[a.req.key] IN
              /\ r # NoRecord /\ r.frame = a.frame /\ r.body = a.req.body
              /\ r.expires = a.at + TTL

OneFrame == OneFramePerKey /\ Recorded

\* Accepted frames have typed fields.
LEMMA AcceptedTyped ==
  ASSUME TypeOK, NEW a \in accepted
  PROVE  /\ a.req \in Requests /\ a.req.key \in Keys /\ a.at \in Nat
         /\ a.req.stamp \in Nat
<1>1. a.req \in Requests /\ a.at \in Nat
  BY DEF TypeOK, Accepted
<1> QED BY <1>1, IngestAssumption DEF Request

\* Dropping expired records loses nothing that is remembered.
LEMMA SweepRecorded ==
  ASSUME TypeOK, OneFrame, idem' = LiveRecords(now), UNCHANGED <<now, accepted>>
  PROVE  OneFrame'
<1>1. Recorded'
  <2> SUFFICES ASSUME NEW a \in accepted, ~(a.at + TTL <= now)
               PROVE  idem'[a.req.key] = idem[a.req.key]
    BY DEF OneFrame, Recorded
  <2>1. a.req.key \in Keys /\ a.at \in Nat
    BY AcceptedTyped
  <2>2. ~Expired(a.req.key, now)
    BY <2>1 DEF OneFrame, Recorded, Expired
  <2> QED BY <2>1, <2>2 DEF LiveRecords
<1> QED BY <1>1 DEF OneFrame, OneFramePerKey

\* Remember accepts only when every frame of the key is older than the TTL.
LEMMA RememberOnce ==
  ASSUME TypeOK, OneFrame, NEW h \in Handlers, Remember(h)
  PROVE  OneFrame'
<1>1. PICK q \in Requests : handler[h].req = q
  BY DEF TypeOK, Remember
<1>2. q.key \in Keys /\ q.body \in Bodies /\ now \in Nat /\ frames \in Nat
  BY IngestAssumption DEF Request, TypeOK
<1>3. CASE ~Expired(q.key, now)
  BY <1>1, <1>3, SweepRecorded DEF Remember
<1>4. CASE Expired(q.key, now)
  <2>1. PICK rec : /\ rec = [body |-> q.body, frame |-> frames + 1, expires |-> now + TTL]
                   /\ idem' = [LiveRecords(now) EXCEPT ![q.key] = rec]
    BY <1>1, <1>4 DEF Remember
  <2>2. PICK new : /\ new = [req |-> q, frame |-> frames + 1, at |-> now]
                   /\ accepted' = accepted \cup {new}
    BY <1>1, <1>4 DEF Remember
  <2>3. now' = now
    BY DEF Remember
  <2>4. \A a \in accepted : a.req.key = q.key => a.at + TTL <= now
    BY <1>4, AcceptedTyped DEF OneFrame, Recorded, Expired
  <2>5. rec # NoRecord
    BY <1>2, <2>1, IngestAssumption
  <2>6. /\ \A k \in Keys : k # q.key => idem'[k] = LiveRecords(now)[k]
        /\ idem'[q.key] = rec
    BY <1>2, <2>1 DEF LiveRecords
  <2>7. OneFramePerKey'
    <3>1. new.at = now /\ new.req.key = q.key
      BY <2>2
    <3> QED BY <2>2, <2>4, <3>1 DEF OneFrame, OneFramePerKey
  <2>8. Recorded'
    <3>1. ASSUME NEW a \in accepted, ~(a.at + TTL <= now)
          PROVE  idem'[a.req.key] = idem[a.req.key]
      <4>1. a.req.key \in Keys /\ a.at \in Nat /\ a.req.key # q.key
        BY <2>4, <3>1, AcceptedTyped
      <4>2. ~Expired(a.req.key, now)
        BY <3>1, <4>1 DEF OneFrame, Recorded, Expired
      <4> QED BY <2>6, <4>1, <4>2 DEF LiveRecords
    <3>2. /\ new.at = now /\ new.req = q /\ new.frame = frames + 1
          /\ rec.frame = frames + 1 /\ rec.body = q.body /\ rec.expires = now + TTL
      BY <2>1, <2>2
    <3>3. ASSUME NEW a \in accepted
          PROVE  /\ a.at <= now
                 /\ \/ a.at + TTL <= now
                    \/ LET r == idem'[a.req.key] IN
                       /\ r # NoRecord /\ r.frame = a.frame /\ r.body = a.req.body
                       /\ r.expires = a.at + TTL
      BY <3>1 DEF OneFrame, Recorded
    <3> QED BY <1>2, <2>2, <2>3, <2>5, <2>6, <3>2, <3>3 DEF Recorded
  <2> QED BY <2>7, <2>8 DEF OneFrame
<1> QED BY <1>3, <1>4

\* Every step keeps it.
LEMMA NextOneFrame ==
  ASSUME TypeOK, OneFrame, [Next]_vars
  PROVE  OneFrame'
<1>1. CASE UNCHANGED <<now, idem, accepted>>
  BY <1>1 DEF OneFrame, OneFramePerKey, Recorded
<1>2. CASE SweepRecords
  BY <1>2, SweepRecorded DEF SweepRecords
<1>3. CASE Tick
  <2>1. now \in Nat /\ now' = now + 1 /\ UNCHANGED <<idem, accepted>> /\ TTL \in Nat
    BY <1>3, IngestAssumption DEF Tick, TypeOK
  <2>2. \A a \in accepted : a.at \in Nat
    BY AcceptedTyped
  <2> QED BY <2>1, <2>2 DEF OneFrame, OneFramePerKey, Recorded
<1>4. ASSUME NEW h \in Handlers,
             (\E q \in Requests : Verify(h, q)) \/ HandlerStep(h)
      PROVE  OneFrame'
  <2>1. CASE Remember(h)
    BY <2>1, RememberOnce
  <2> QED BY <1>1, <1>4, <2>1 DEF Verify, HandlerStep, CheckNonce, Match, Enqueue
<1>5. CASE SweepNonces \/ (\E s \in Switchable : SetEnabled(s)) \/ UNCHANGED vars
  BY <1>1, <1>5 DEF SweepNonces, SetEnabled, vars
<1> QED BY <1>2, <1>3, <1>4, <1>5 DEF Next

\* An idempotency key admits one frame per TTL, whatever the number of handlers
\* that race on it and however long each is descheduled.
THEOREM OneFramePerKeyCorrect == Spec => []OneFramePerKey
<1>1. Init => TypeOK /\ OneFrame
  BY InitType DEF Init, OneFrame, OneFramePerKey, Recorded
<1>2. TypeOK /\ OneFrame /\ [Next]_vars => (TypeOK /\ OneFrame)'
  BY NextType, NextOneFrame
<1> QED BY <1>1, <1>2, PTL DEF Spec, OneFrame

------------------------------------------------------------------------------
(* One acceptance per signed request *)

\* Unix rounds down to the second.
LEMMA UnixBounds ==
  ASSUME NEW t \in Nat
  PROVE  /\ Unix(t) \in Nat
         /\ Unix(t) * Second <= t
         /\ t < (Unix(t) + 1) * Second
  BY IngestAssumption DEF Unix

\* Multiplication by Second is monotonic.
LEMMA SecondMonotonic ==
  ASSUME NEW m \in Nat, NEW n \in Nat, m <= n
  PROVE  m * Second <= n * Second
  BY IngestAssumption

\* The interval of ticks in which a stamp is inside the window.
LEMMA FreshInterval ==
  ASSUME NEW q \in Requests, NEW t \in Nat, ~Skewed(q, t)
  PROVE  /\ q.stamp * Second <= t + Window * Second
         /\ t < (q.stamp + Window + 1) * Second
<1>1. q.stamp \in Nat /\ Window \in Nat /\ Second \in Nat
  BY IngestAssumption DEF Request
<1>2. Unix(t) \in Nat /\ Unix(t) * Second <= t /\ t < (Unix(t) + 1) * Second
  BY UnixBounds
<1>3. Unix(t) <= q.stamp + Window /\ q.stamp <= Unix(t) + Window
  BY <1>1, <1>2 DEF Skewed
<1>4. q.stamp * Second <= (Unix(t) + Window) * Second
  BY <1>1, <1>2, <1>3, SecondMonotonic
<1>5. (Unix(t) + Window) * Second = Unix(t) * Second + Window * Second
  BY <1>1, <1>2
<1>6. (Unix(t) + 1) * Second <= (q.stamp + Window + 1) * Second
  <2>1. Unix(t) + 1 \in Nat /\ q.stamp + Window + 1 \in Nat
    BY <1>1, <1>2
  <2>2. Unix(t) + 1 <= q.stamp + Window + 1
    BY <1>1, <1>2, <1>3
  <2> QED BY <2>1, <2>2, SecondMonotonic
<1>7. /\ q.stamp * Second \in Nat /\ Unix(t) * Second \in Nat /\ Window * Second \in Nat
      /\ (Unix(t) + 1) * Second \in Nat /\ (q.stamp + Window + 1) * Second \in Nat
  BY <1>1, <1>2
<1>8. q.stamp * Second <= t + Window * Second
  BY <1>2, <1>4, <1>5, <1>7
<1>9. t < (q.stamp + Window + 1) * Second
  BY <1>2, <1>6, <1>7
<1> QED BY <1>8, <1>9

\* The strengthening: a busy handler verified its request at most MaxLag ago,
\* so what it accepts is accepted within that of the request's window.
Prompt ==
    /\ \A h \in Handlers : handler[h].pc # "idle" =>
          /\ ~Skewed(handler[h].req, handler[h].since)
          /\ handler[h].since <= now /\ now <= handler[h].since + MaxLag
    /\ \A a \in accepted :
          /\ a.req.stamp * Second <= a.at + Window * Second
          /\ a.at < (a.req.stamp + Window + 1) * Second + MaxLag

\* Handler steps other than Verify and Remember.
LEMMA PromptFrame ==
  ASSUME TypeOK, Prompt, NEW h \in Handlers, UNCHANGED <<now, accepted>>,
         \A g \in Handlers : g # h => handler'[g] = handler[g],
         \/ handler'[h].pc = "idle"
         \/ /\ handler'[h].req = handler[h].req /\ handler'[h].since = handler[h].since
            /\ handler[h].pc # "idle"
  PROVE  Prompt'
  BY DEF Prompt, Skewed

\* Verify starts the handler's clock at a time inside the window.
LEMMA VerifyPrompt ==
  ASSUME TypeOK, Prompt, NEW h \in Handlers, NEW q \in Requests, Verify(h, q)
  PROVE  Prompt'
<1>1. UNCHANGED <<now, accepted>> /\ now \in Nat /\ MaxLag \in Nat
  BY IngestAssumption DEF Verify, TypeOK
<1>2. \A g \in Handlers : g # h => handler'[g] = handler[g]
  BY DEF Verify, Refuse, TypeOK
<1>3. CASE Verdict(q, now) = 0
  <2>1. handler'[h].req = q /\ handler'[h].since = now
    BY <1>3 DEF Verify, TypeOK
  <2>2. ~Skewed(q, now)
    BY <1>1, <1>3, VerdictType
  <2>3. \A g \in Handlers : handler'[g].pc # "idle" =>
          /\ ~Skewed(handler'[g].req, handler'[g].since)
          /\ handler'[g].since <= now /\ now <= handler'[g].since + MaxLag
    BY <1>1, <1>2, <2>1, <2>2 DEF Prompt
  <2> QED BY <1>1, <2>3 DEF Prompt, Skewed
<1>4. CASE Verdict(q, now) # 0
  <2>1. handler'[h].pc = "idle"
    BY <1>4 DEF Verify, Refuse, TypeOK
  <2> QED BY <1>1, <1>2, <2>1, PromptFrame
<1> QED BY <1>3, <1>4

\* Remember accepts within MaxLag of the window.
LEMMA RememberPrompt ==
  ASSUME TypeOK, Prompt, NEW h \in Handlers, Remember(h)
  PROVE  Prompt'
<1>1. PICK q \in Requests : handler[h].req = q
  BY DEF TypeOK, Remember
<1>2. /\ now' = now /\ now \in Nat /\ MaxLag \in Nat /\ handler[h].since \in Nat
      /\ handler[h] \in Handler
  BY IngestAssumption DEF Remember, TypeOK, Handler
<1>3. \A g \in Handlers : g # h => handler'[g] = handler[g]
  BY DEF Remember, Answer, Refuse, TypeOK
<1>4. CASE ~Expired(q.key, now)
  <2>1. handler'[h].pc = "idle" /\ accepted' = accepted
    BY <1>1, <1>4 DEF Remember, Answer, Refuse, TypeOK
  <2> QED BY <1>2, <1>3, <2>1, PromptFrame
<1>5. CASE Expired(q.key, now)
  <2>1. PICK new : /\ new = [req |-> q, frame |-> frames + 1, at |-> now]
                   /\ accepted' = accepted \cup {new}
    BY <1>1, <1>5 DEF Remember
  <2>2. /\ handler'[h].req = q /\ handler'[h].since = handler[h].since
        /\ handler[h].pc = "idem"
    <3> DEFINE x == [handler[h] EXCEPT !.pc = "match", !.frame = frames + 1]
    <3>1. frames + 1 \in Nat /\ handler[h].pc = "idem"
      BY DEF TypeOK, Remember
    <3>2. x.req = q /\ x.since = handler[h].since
      BY <1>1, <1>2, <3>1, Moved
    <3>3. handler' = [handler EXCEPT ![h] = x]
      BY <1>1, <1>5 DEF Remember
    <3> HIDE DEF x
    <3> QED BY <3>1, <3>2, <3>3 DEF TypeOK
  <2>3. /\ ~Skewed(q, handler[h].since)
        /\ handler[h].since <= now /\ now <= handler[h].since + MaxLag
    BY <1>1, <2>2 DEF Prompt
  <2>4. /\ q.stamp * Second <= handler[h].since + Window * Second
        /\ handler[h].since < (q.stamp + Window + 1) * Second
    BY <1>2, <2>3, FreshInterval
  <2>5. /\ q.stamp * Second \in Nat /\ Window * Second \in Nat
        /\ (q.stamp + Window + 1) * Second \in Nat
    BY IngestAssumption DEF Request
  <2>6. /\ q.stamp * Second <= now + Window * Second
        /\ now < (q.stamp + Window + 1) * Second + MaxLag
    BY <1>2, <2>3, <2>4, <2>5
  <2>7. new.req = q /\ new.at = now
    BY <2>1
  <2>8. \A a \in accepted' :
          /\ a.req.stamp * Second <= a.at + Window * Second
          /\ a.at < (a.req.stamp + Window + 1) * Second + MaxLag
    BY <2>1, <2>6, <2>7 DEF Prompt
  <2>9. \A g \in Handlers : handler'[g].pc # "idle" =>
          /\ ~Skewed(handler'[g].req, handler'[g].since)
          /\ handler'[g].since <= now /\ now <= handler'[g].since + MaxLag
    BY <1>1, <1>3, <2>2, <2>3 DEF Prompt
  <2> QED BY <1>2, <2>8, <2>9 DEF Prompt, Skewed
<1> QED BY <1>4, <1>5

\* Every step keeps it; Tick by its guard.
LEMMA NextPrompt ==
  ASSUME TypeOK, Prompt, [Next]_vars
  PROVE  Prompt'
<1>1. CASE UNCHANGED <<now, handler, accepted>>
  BY <1>1 DEF Prompt, Skewed
<1>2. CASE Tick
  <2>1. /\ now \in Nat /\ now' = now + 1 /\ UNCHANGED <<handler, accepted>>
        /\ MaxLag \in Nat /\ \A h \in Handlers : handler[h].since \in Nat
    BY <1>2, IngestAssumption DEF Tick, TypeOK, Handler
  <2>2. \A h \in Handlers : handler[h].pc # "idle" =>
          handler[h].since <= now + 1 /\ now + 1 <= handler[h].since + MaxLag
    BY <1>2, <2>1 DEF Tick, Prompt
  <2> QED BY <2>1, <2>2 DEF Prompt, Skewed
<1>3. ASSUME NEW h \in Handlers, HandlerStep(h) PROVE Prompt'
  <2>1. CASE Remember(h)
    BY <2>1, RememberPrompt
  <2>2. CASE CheckNonce(h) \/ Match(h) \/ Enqueue(h)
    <3>1. handler[h] \in Handler /\ handler[h].pc # "idle" /\ UNCHANGED <<now, accepted>>
      BY <2>2 DEF CheckNonce, Match, Enqueue, TypeOK
    <3>2. \A g \in Handlers : g # h => handler'[g] = handler[g]
      BY <2>2 DEF CheckNonce, Match, Enqueue, Answer, Refuse, TypeOK
    <3>3. \/ handler'[h].pc = "idle"
          \/ /\ handler'[h].req = handler[h].req
             /\ handler'[h].since = handler[h].since
      <4>1. CASE CheckNonce(h) \/ Enqueue(h)
        BY <3>1, <4>1 DEF CheckNonce, Enqueue, Answer, Refuse, TypeOK, Handler
      <4>2. CASE Match(h)
        <5> DEFINE plan == {s \in Matching[handler[h].req.body] : enabled[s]}
                   x == [handler[h] EXCEPT !.pc = "enqueue", !.todo = plan]
        <5>1. plan \in SUBSET Stores
          BY <3>1, IngestAssumption DEF TypeOK, Request
        <5>2. x.req = handler[h].req /\ x.since = handler[h].since
          BY <3>1, <5>1, Moved
        <5>3. CASE plan = {}
          BY <4>2, <5>3 DEF Match, Answer, TypeOK
        <5>4. CASE plan # {}
          <6>1. handler' = [handler EXCEPT ![h] = x]
            BY <4>2, <5>4 DEF Match
          <6> HIDE DEF x
          <6> QED BY <5>2, <6>1 DEF TypeOK
        <5> QED BY <5>3, <5>4
      <4> QED BY <2>2, <4>1, <4>2
    <3> QED BY <3>1, <3>2, <3>3, PromptFrame
  <2> QED BY <1>3, <2>1, <2>2 DEF HandlerStep
<1>4. CASE \/ SweepNonces \/ SweepRecords \/ (\E s \in Switchable : SetEnabled(s))
           \/ UNCHANGED vars
  BY <1>1, <1>4 DEF SweepNonces, SweepRecords, SetEnabled, vars
<1> QED BY <1>2, <1>3, <1>4, VerifyPrompt DEF Next

\* Two acceptances of one request would be closer together than the TTL.
LEMMA ResentOnceFromPrompt ==
  ASSUME LongTTL, TypeOK, OneFramePerKey, Prompt
  PROVE  ResentOnce
<1> SUFFICES ASSUME NEW a \in accepted, NEW b \in accepted, a.req = b.req, a # b
             PROVE  FALSE
  BY DEF ResentOnce
<1>1. PICK m \in Nat : m = a.req.stamp
  BY AcceptedTyped
<1>2. /\ a.at \in Nat /\ b.at \in Nat /\ TTL \in Nat /\ MaxLag \in Nat
      /\ Second \in Nat /\ Window \in Nat
  BY AcceptedTyped, IngestAssumption
<1>3. a.at + TTL <= b.at \/ b.at + TTL <= a.at
  BY DEF OneFramePerKey
<1>4. /\ m * Second <= a.at + Window * Second /\ a.at < (m + Window + 1) * Second + MaxLag
      /\ m * Second <= b.at + Window * Second /\ b.at < (m + Window + 1) * Second + MaxLag
  BY <1>1 DEF Prompt
<1>5. /\ (m + Window + 1) * Second = m * Second + Window * Second + Second
      /\ (2 * Window + 1) * Second = Window * Second + Window * Second + Second
  BY <1>1, <1>2
<1>6. m * Second \in Nat /\ Window * Second \in Nat
  BY <1>1, <1>2
<1> QED BY <1>2, <1>3, <1>4, <1>5, <1>6 DEF LongTTL

\* If records outlive signatures, a request is accepted at most once under its own
\* key, however often it is delivered and however handlers interleave.
THEOREM ResentOnceCorrect ==
  ASSUME LongTTL
  PROVE  Spec => []ResentOnce
<1> DEFINE I == TypeOK /\ OneFrame /\ Prompt
<1>1. Init => I
  BY InitType DEF Init, OneFrame, OneFramePerKey, Recorded, Prompt, IdleHandler
<1>2. I /\ [Next]_vars => I'
  BY NextType, NextOneFrame, NextPrompt
<1>3. I => ResentOnce
  BY LongTTL, ResentOnceFromPrompt DEF OneFrame
<1> QED BY <1>1, <1>2, <1>3, PTL DEF Spec

------------------------------------------------------------------------------
(* One nonce, several keys *)

Span == Window * Second

\* What a frame accepted a span ago or more leaves no trace of.
Past(t) == t + Span <= now

\* A nonce stays in the book a span from the moment it passed, and whoever passed
\* with it verified before that and accepts within MaxLag of it.
Booked ==
    /\ \A a \in accepted :
          /\ a.at <= now
          /\ \/ a.at + Span <= now + MaxLag
             \/ a.at + Span <= book[a.req.nonce] + MaxLag
    /\ \A h \in Handlers : handler[h].pc = "idem" =>
          \/ Past(handler[h].since)
          \/ handler[h].since + Span <= book[handler[h].req.nonce]

\* Of those that passed with one nonce, all but the last passed a span ago.
Apart ==
    /\ \A g, h \in Handlers :
          /\ g # h /\ handler[g].pc = "idem" /\ handler[h].pc = "idem"
          /\ handler[g].req.nonce = handler[h].req.nonce
          => Past(handler[g].since) \/ Past(handler[h].since)
    /\ \A h \in Handlers, a \in accepted :
          handler[h].pc = "idem" /\ handler[h].req.nonce = a.req.nonce
          => \/ a.at + Span <= now + MaxLag
             \/ handler[h].since + Span <= a.at
    /\ NonceSpaced

\* Where each handler stands, for steps that leave the nonces alone.
LEMMA SpacedFrame ==
  ASSUME TypeOK, Booked, Apart, NEW h \in Handlers,
         UNCHANGED <<now, book, accepted>>, handler'[h].pc # "idem",
         \A g \in Handlers : g # h => handler'[g] = handler[g]
  PROVE  Booked' /\ Apart'
<1>1. \A g \in Handlers : handler'[g].pc = "idem" =>
         handler[g].pc = "idem" /\ handler'[g] = handler[g]
  OBVIOUS
<1> QED BY <1>1 DEF Booked, Apart, Past, NonceSpaced

\* Numbers of the accepted frames and of the handlers.
LEMMA SpacedTypes ==
  ASSUME TypeOK
  PROVE  /\ now \in Nat /\ MaxLag \in Nat /\ Span \in Nat
         /\ \A n \in Nonces : book[n] \in Nat
         /\ \A a \in accepted : a.at \in Nat /\ a.req.nonce \in Nonces
         /\ \A h \in Handlers : handler[h].since \in Nat
         /\ \A h \in Handlers : handler[h].pc # "idle" =>
               handler[h].req.nonce \in Nonces
  BY IngestAssumption DEF TypeOK, Handler, Accepted, Request, Span

\* Dropping expired nonces forgets only what is past.
LEMMA SweepSpaced ==
  ASSUME TypeOK, Booked, Apart, book' = LiveNonces(now),
         UNCHANGED <<now, handler, accepted>>
  PROVE  Booked' /\ Apart'
<1>1. \A n \in Nonces : book'[n] = book[n] \/ book[n] <= now
  BY SpacedTypes DEF LiveNonces
<1>2. ASSUME NEW a \in accepted
      PROVE  \/ a.at + Span <= now + MaxLag
             \/ a.at + Span <= book'[a.req.nonce] + MaxLag
  <2>1. a.at \in Nat /\ a.req.nonce \in Nonces
    BY SpacedTypes
  <2>2. \/ a.at + Span <= now + MaxLag
        \/ a.at + Span <= book[a.req.nonce] + MaxLag
    BY DEF Booked
  <2> QED BY <1>1, <2>1, <2>2, SpacedTypes
<1>3. ASSUME NEW h \in Handlers, handler[h].pc = "idem"
      PROVE  \/ Past(handler[h].since)
             \/ handler[h].since + Span <= book'[handler[h].req.nonce]
  <2>1. handler[h].since \in Nat /\ handler[h].req.nonce \in Nonces
    BY <1>3, SpacedTypes
  <2>2. \/ Past(handler[h].since)
        \/ handler[h].since + Span <= book[handler[h].req.nonce]
    BY <1>3 DEF Booked
  <2> QED BY <1>1, <2>1, <2>2, SpacedTypes DEF Past
<1> QED BY <1>2, <1>3 DEF Booked, Apart, Past, NonceSpaced

\* A nonce passes once whoever passed with it before is a span past.
LEMMA CheckNonceSpaced ==
  ASSUME TypeOK, Prompt, Booked, Apart, NEW h \in Handlers, CheckNonce(h)
  PROVE  Booked' /\ Apart'
<1> DEFINE n == handler[h].req.nonce
<1>1. /\ handler[h].pc = "nonce" /\ n \in Nonces /\ handler[h] \in Handler
      /\ UNCHANGED <<now, accepted>>
      /\ \A g \in Handlers : g # h => handler'[g] = handler[g]
  BY SpacedTypes DEF CheckNonce, Refuse, TypeOK
<1>2. CASE Refuse(h, 409) /\ book' = LiveNonces(now)
  <2>1. handler'[h].pc = "idle"
    BY <1>2 DEF Refuse, TypeOK
  <2>2. \A k \in Nonces : book'[k] = book[k] \/ book[k] <= now
    BY <1>2, SpacedTypes DEF LiveNonces
  <2>3. \A g \in Handlers : handler'[g].pc = "idem" =>
          handler[g].pc = "idem" /\ handler'[g] = handler[g]
    BY <1>1, <2>1
  <2>4. ASSUME NEW a \in accepted
        PROVE  \/ a.at + Span <= now + MaxLag
               \/ a.at + Span <= book'[a.req.nonce] + MaxLag
    <3>1. a.at \in Nat /\ a.req.nonce \in Nonces
      BY SpacedTypes
    <3>2. \/ a.at + Span <= now + MaxLag
          \/ a.at + Span <= book[a.req.nonce] + MaxLag
      BY DEF Booked
    <3> QED BY <2>2, <3>1, <3>2, SpacedTypes
  <2>5. ASSUME NEW g \in Handlers, handler[g].pc = "idem"
        PROVE  \/ Past(handler[g].since)
               \/ handler[g].since + Span <= book'[handler[g].req.nonce]
    <3>1. handler[g].since \in Nat /\ handler[g].req.nonce \in Nonces
      BY <2>5, SpacedTypes
    <3>2. \/ Past(handler[g].since)
          \/ handler[g].since + Span <= book[handler[g].req.nonce]
      BY <2>5 DEF Booked
    <3> QED BY <2>2, <3>1, <3>2, SpacedTypes DEF Past
  <2> QED BY <1>1, <2>3, <2>4, <2>5 DEF Booked, Apart, Past, NonceSpaced
<1>3. CASE /\ book[n] <= now
           /\ book' = [LiveNonces(now) EXCEPT ![n] = now + Span]
           /\ handler' = [handler EXCEPT ![h].pc = "idem"]
  <2> DEFINE x == [handler[h] EXCEPT !.pc = "idem"]
  <2>1. /\ handler'[h].pc = "idem"
        /\ handler'[h].req = handler[h].req /\ handler'[h].since = handler[h].since
    BY <1>1, <1>3 DEF TypeOK, Handler
  <2>2. /\ book'[n] = now + Span
        /\ \A k \in Nonces \ {n} : book'[k] = book[k] \/ book[k] <= now
    BY <1>1, <1>3, SpacedTypes DEF LiveNonces, TypeOK
  <2>3. handler[h].since \in Nat /\ handler[h].since <= now
    BY <1>1, SpacedTypes DEF Prompt
  <2>4. ASSUME NEW a \in accepted
        PROVE  /\ \/ a.at + Span <= now + MaxLag
                  \/ a.at + Span <= book'[a.req.nonce] + MaxLag
               /\ a.req.nonce = n => a.at + Span <= now + MaxLag
    <3>1. a.at \in Nat /\ a.req.nonce \in Nonces /\ a.at <= now
      BY SpacedTypes DEF Booked
    <3>2. \/ a.at + Span <= now + MaxLag
          \/ a.at + Span <= book[a.req.nonce] + MaxLag
      BY DEF Booked
    <3>3. book[a.req.nonce] \in Nat
      BY <3>1, SpacedTypes
    <3> QED BY <1>3, <2>2, <3>1, <3>2, <3>3, SpacedTypes
  <2>5. ASSUME NEW g \in Handlers, g # h, handler[g].pc = "idem"
        PROVE  /\ \/ Past(handler[g].since)
                  \/ handler[g].since + Span <= book'[handler[g].req.nonce]
               /\ handler[g].req.nonce = n => Past(handler[g].since)
    <3>1. /\ handler[g].since \in Nat /\ handler[g].req.nonce \in Nonces
          /\ handler[g].since <= now
      BY <2>5, SpacedTypes DEF Prompt
    <3>2. \/ Past(handler[g].since)
          \/ handler[g].since + Span <= book[handler[g].req.nonce]
      BY <2>5 DEF Booked
    <3>3. book[handler[g].req.nonce] \in Nat
      BY <3>1, SpacedTypes
    <3> QED BY <1>3, <2>2, <3>1, <3>2, <3>3, SpacedTypes DEF Past
  <2>6. handler'[h].since + Span <= book'[n]
    BY <2>1, <2>2, <2>3, SpacedTypes
  <2>7. \A g \in Handlers : g # h => handler'[g] = handler[g]
    BY <1>1
  <2> HIDE DEF x
  <2>8. Booked'
    BY <1>1, <2>1, <2>4, <2>5, <2>6, <2>7 DEF Booked, Past
  <2>9. ASSUME NEW g \in Handlers, NEW k \in Handlers, g # k,
               handler'[g].pc = "idem", handler'[k].pc = "idem",
               handler'[g].req.nonce = handler'[k].req.nonce
        PROVE  (Past(handler[g].since) \/ Past(handler[k].since))'
    BY <1>1, <2>1, <2>5, <2>7, <2>9 DEF Apart, Past
  <2>10. ASSUME NEW g \in Handlers, NEW a \in accepted,
                handler'[g].pc = "idem", handler'[g].req.nonce = a.req.nonce
         PROVE  \/ a.at + Span <= now + MaxLag
                \/ handler'[g].since + Span <= a.at
    BY <2>1, <2>4, <2>7, <2>10 DEF Apart
  <2> QED BY <1>1, <2>8, <2>9, <2>10 DEF Apart, NonceSpaced
<1> QED BY <1>2, <1>3 DEF CheckNonce, Span

\* What is accepted now was verified at most MaxLag ago: it lies a span after
\* the frames whose nonce expired, and a span before those that come.
LEMMA RememberSpaced ==
  ASSUME TypeOK, Prompt, Booked, Apart, NEW h \in Handlers, Remember(h)
  PROVE  Booked' /\ Apart'
<1>1. PICK q \in Requests : handler[h].req = q
  BY DEF TypeOK, Remember
<1>2. /\ handler[h].pc = "idem" /\ handler[h] \in Handler /\ frames \in Nat
      /\ UNCHANGED <<now, book>>
      /\ \A g \in Handlers : g # h => handler'[g] = handler[g]
  BY DEF Remember, Answer, Refuse, TypeOK
<1>3. CASE ~Expired(q.key, now)
  <2>1. handler'[h].pc = "idle" /\ accepted' = accepted
    BY <1>1, <1>3 DEF Remember, Answer, Refuse, TypeOK
  <2> QED BY <1>2, <2>1, SpacedFrame
<1>4. CASE Expired(q.key, now)
  <2> DEFINE t == handler[h].since
  <2>1. PICK new : /\ new = [req |-> q, frame |-> frames + 1, at |-> now]
                   /\ accepted' = accepted \cup {new}
    BY <1>1, <1>4 DEF Remember
  <2>2. new.req = q /\ new.at = now
    BY <2>1
  <2>3. handler'[h].pc = "match"
    <3>1. handler' = [handler EXCEPT ![h] =
                         [@ EXCEPT !.pc = "match", !.frame = frames + 1]]
      BY <1>1, <1>4 DEF Remember
    <3> QED BY <1>2, <3>1 DEF TypeOK, Handler
  <2>4. t \in Nat /\ t <= now /\ now <= t + MaxLag /\ q.nonce \in Nonces
    BY <1>1, <1>2, SpacedTypes DEF Prompt
  <2>5. \A g \in Handlers : handler'[g].pc = "idem" =>
          g # h /\ handler[g].pc = "idem" /\ handler'[g] = handler[g]
    BY <1>2, <2>3
  <2>6. Past(t) \/ t + Span <= book[q.nonce]
    BY <1>1, <1>2 DEF Booked
  <2>7. Past(t) => now + Span <= now + MaxLag
    BY <2>4, SpacedTypes DEF Past
  <2>8. now + Span <= now + MaxLag \/ now + Span <= book[q.nonce] + MaxLag
    BY <2>4, <2>6, <2>7, SpacedTypes
  <2> HIDE DEF t
  <2>9. Booked'
    BY <1>2, <2>1, <2>2, <2>5, <2>8, SpacedTypes DEF Booked, Past
  <2>10. ASSUME NEW g \in Handlers, g # h, handler[g].pc = "idem",
                handler[g].req.nonce = q.nonce
         PROVE  now + Span <= now + MaxLag \/ handler[g].since + Span <= now
    BY <1>1, <1>2, <2>7, <2>10 DEF Apart, Past, t
  <2>11. ASSUME NEW a \in accepted, a.req.nonce = q.nonce
         PROVE  a.at + Span <= now + MaxLag \/ now + Span <= a.at + MaxLag
    <3>1. a.at + Span <= now + MaxLag \/ t + Span <= a.at
      BY <1>1, <1>2, <2>11 DEF Apart, t
    <3>2. a.at \in Nat
      BY SpacedTypes
    <3> QED BY <2>4, <3>1, <3>2, SpacedTypes
  <2>12. NonceSpaced'
    <3> SUFFICES ASSUME NEW a \in accepted', NEW b \in accepted',
                        a.req.nonce = b.req.nonce, a # b
                 PROVE  \/ a.at + Span <= b.at + MaxLag
                        \/ b.at + Span <= a.at + MaxLag
      BY DEF NonceSpaced, Span
    <3>1. CASE a \in accepted /\ b \in accepted
      BY <3>1 DEF Apart, NonceSpaced, Span
    <3>2. CASE a = new /\ b \in accepted
      BY <2>2, <2>11, <3>2
    <3>3. CASE b = new /\ a \in accepted
      BY <2>2, <2>11, <3>3
    <3> QED BY <2>1, <3>1, <3>2, <3>3
  <2>13. ASSUME NEW g \in Handlers, NEW a \in accepted',
                handler'[g].pc = "idem", handler'[g].req.nonce = a.req.nonce
         PROVE  \/ a.at + Span <= now + MaxLag
                \/ handler'[g].since + Span <= a.at
    <3>1. CASE a \in accepted
      BY <2>5, <2>13, <3>1 DEF Apart
    <3>2. CASE a = new
      BY <2>2, <2>5, <2>10, <2>13, <3>2
    <3> QED BY <2>1, <3>1, <3>2
  <2>14. ASSUME NEW g \in Handlers, NEW k \in Handlers, g # k,
                handler'[g].pc = "idem", handler'[k].pc = "idem",
                handler'[g].req.nonce = handler'[k].req.nonce
         PROVE  (Past(handler[g].since) \/ Past(handler[k].since))'
    BY <1>2, <2>5, <2>14 DEF Apart, Past
  <2> QED BY <1>2, <2>9, <2>12, <2>13, <2>14 DEF Apart
<1> QED BY <1>3, <1>4

\* Every step keeps frames of one nonce apart.
LEMMA NextSpaced ==
  ASSUME TypeOK, Prompt, Booked, Apart, [Next]_vars
  PROVE  Booked' /\ Apart'
<1>1. CASE UNCHANGED <<now, book, handler, accepted>>
  BY <1>1 DEF Booked, Apart, Past, NonceSpaced
<1>2. CASE Tick
  <2>1. now' = now + 1 /\ UNCHANGED <<book, handler, accepted>>
    BY <1>2 DEF Tick
  <2>2. \A t \in Nat : Past(t) => Past(t)'
    BY <2>1, SpacedTypes DEF Past
  <2>3. \A a \in accepted : a.at + Span <= now + MaxLag =>
          a.at + Span <= now' + MaxLag
    BY <2>1, SpacedTypes
  <2>4. \A a \in accepted : a.at <= now => a.at <= now'
    BY <2>1, SpacedTypes
  <2>5. Booked'
    BY <2>1, <2>2, <2>3, <2>4, SpacedTypes DEF Booked
  <2>6. Apart'
    BY <2>1, <2>2, <2>3, SpacedTypes DEF Apart, NonceSpaced
  <2> QED BY <2>5, <2>6
<1>3. CASE SweepNonces
  BY <1>3, SweepSpaced DEF SweepNonces
<1>4. ASSUME NEW h \in Handlers, NEW q \in Requests, Verify(h, q)
      PROVE  Booked' /\ Apart'
  <2>1. /\ UNCHANGED <<now, book, accepted>> /\ handler'[h].pc # "idem"
        /\ \A g \in Handlers : g # h => handler'[g] = handler[g]
    BY <1>4 DEF Verify, Refuse, TypeOK
  <2> QED BY <2>1, SpacedFrame
<1>5. ASSUME NEW h \in Handlers, Match(h) \/ Enqueue(h)
      PROVE  Booked' /\ Apart'
  <2>1. /\ UNCHANGED <<now, book, accepted>> /\ handler[h] \in Handler
        /\ \A g \in Handlers : g # h => handler'[g] = handler[g]
    BY <1>5 DEF Match, Enqueue, Answer, TypeOK
  <2>2. ASSUME Enqueue(h) PROVE handler'[h].pc # "idem"
    BY <2>1, <2>2 DEF Enqueue, Answer, TypeOK, Handler
  <2>3. ASSUME Match(h) PROVE handler'[h].pc # "idem"
    <3>1. ASSUME NEW T, handler' = [handler EXCEPT ![h] =
                           [@ EXCEPT !.pc = "enqueue", !.todo = T]]
          PROVE  handler'[h].pc # "idem"
      BY <2>1, <3>1 DEF TypeOK, Handler
    <3>2. ASSUME Answer(h, 202, handler[h].frame)
          PROVE  handler'[h].pc # "idem"
      BY <3>2 DEF Answer, TypeOK
    <3> QED BY <2>3, <3>1, <3>2 DEF Match
  <2> QED BY <1>5, <2>1, <2>2, <2>3, SpacedFrame
<1> QED
  BY <1>1, <1>2, <1>3, <1>4, <1>5, CheckNonceSpaced, RememberSpaced
     DEF Next, HandlerStep, SweepRecords, SetEnabled, vars

\* Frames accepted with one nonce, under one key or several, lie a window apart
\* up to the time a handler takes, however the handlers are interleaved: what
\* CheckAndRemember does for a signature whose key the rig may vary.
THEOREM NonceSpacedCorrect == Spec => []NonceSpaced
<1> DEFINE I == TypeOK /\ Prompt /\ Booked /\ Apart
<1>1. Init => I
  BY InitType DEF Init, Prompt, Booked, Apart, NonceSpaced, IdleHandler
<1>2. I /\ [Next]_vars => I'
  BY NextType, NextPrompt, NextSpaced
<1>3. I => NonceSpaced
  BY DEF Apart
<1> QED BY <1>1, <1>2, <1>3, PTL DEF Spec

------------------------------------------------------------------------------
(* Answers and fan-out *)

Working == {"match", "enqueue"}

\* Frame f was accepted for the key and the body of request q.
Known(f, q) ==
    \E a \in accepted : a.frame = f /\ a.req.key = q.key /\ a.req.body = q.body

\* A handler whose last answer was c.
Answered(h, c) == handler[h].pc = "idle" /\ handler[h].code = c

\* The strengthening.  Frame ids are fresh, so a frame is fanned out by the one
\* handler that accepted it, which plans it once and answers 202 after that; an
\* idempotency record names the frame accepted for its key and body.
RecordsKnown ==
    \A k \in Keys : idem[k] # NoRecord =>
        \E a \in accepted : /\ a.frame = idem[k].frame
                            /\ a.req.key = k
                            /\ a.req.body = idem[k].body
                            /\ a.at + TTL = idem[k].expires

OneWorker ==
    \A g, h \in Handlers :
        handler[g].pc \in Working /\ handler[g].frame = handler[h].frame =>
            /\ handler[h].pc \in Working => g = h
            /\ ~Answered(h, 202)

PlannedOnce ==
    \A h \in Handlers : handler[h].pc = "match" =>
        \A e \in planned : e[1] # handler[h].frame

TodoPlanned ==
    \A h \in Handlers : handler[h].pc = "enqueue" =>
        \A s \in handler[h].todo : <<handler[h].frame, s>> \in planned

FramesMinted ==
    /\ \A a \in accepted : a.frame <= frames
    /\ \A h \in Handlers : handler[h].frame <= frames
    /\ \A e \in planned : e[1] <= frames

Traced ==
    /\ RecordsKnown /\ OneWorker /\ PlannedOnce /\ TodoPlanned /\ FramesMinted
    /\ \A h \in Handlers : handler[h].pc \in Working =>
          Known(handler[h].frame, handler[h].req)

FanOut == Traced /\ AnswersTruthful /\ FanOutAccounted

\* Steps that move one handler to a state outside the fan-out, and at most
\* forget idempotency records.
LEMMA OutsideFanOut ==
  ASSUME TypeOK, FanOut, NEW h \in Handlers, NEW x,
         handler' = [handler EXCEPT ![h] = x],
         handler[h].pc \notin Working, x.pc \notin Working, x.frame <= frames,
         x.pc = "idle" => x.code # 202,
         x.pc = "idle" /\ x.code = 200 => Known(x.frame, x.req),
         \A k \in Keys : idem'[k] = idem[k] \/ idem'[k] = NoRecord,
         UNCHANGED <<queued, frames, accepted, planned>>
  PROVE  FanOut'
<1> USE DEF FanOut, Traced
<1>1. handler'[h] = x /\ \A g \in Handlers : g # h => handler'[g] = handler[g]
  BY DEF TypeOK
<1>2. RecordsKnown'
  BY DEF RecordsKnown
<1>3. OneWorker'
  BY <1>1 DEF OneWorker, Answered
<1>4. PlannedOnce' /\ TodoPlanned'
  BY <1>1 DEF PlannedOnce, TodoPlanned, Working
<1>5. FramesMinted'
  BY <1>1 DEF FramesMinted
<1>6. \A g \in Handlers : handler'[g].pc \in Working =>
         Known(handler[g].frame, handler[g].req)'
  BY <1>1 DEF Known
<1>7. AnswersTruthful'
  BY <1>1 DEF AnswersTruthful, Known
<1>8. FanOutAccounted'
  BY <1>1 DEF FanOutAccounted, Working
<1> QED BY <1>2, <1>3, <1>4, <1>5, <1>6, <1>7, <1>8

\* Steps that leave the handlers alone.
LEMMA NoHandlerFanOut ==
  ASSUME FanOut, UNCHANGED <<handler, queued, frames, accepted, planned>>,
         \A k \in Keys : idem'[k] = idem[k] \/ idem'[k] = NoRecord
  PROVE  FanOut'
<1> USE DEF FanOut, Traced
<1>1. RecordsKnown'
  BY DEF RecordsKnown
<1>2. OneWorker' /\ PlannedOnce' /\ TodoPlanned' /\ FramesMinted'
  BY DEF OneWorker, Answered, PlannedOnce, TodoPlanned, FramesMinted
<1>3. \A g \in Handlers : handler'[g].pc \in Working =>
         Known(handler[g].frame, handler[g].req)'
  BY DEF Known
<1>4. AnswersTruthful' /\ FanOutAccounted'
  BY DEF AnswersTruthful, FanOutAccounted
<1> QED BY <1>1, <1>2, <1>3, <1>4

\* Verify and CheckNonce end in a refusal or go on towards the records.
LEMMA EarlyFanOut ==
  ASSUME TypeOK, FanOut, NEW h \in Handlers,
         CheckNonce(h) \/ \E q \in Requests : Verify(h, q)
  PROVE  FanOut'
<1>1. /\ handler[h] \in Handler /\ frames \in Nat /\ handler[h].frame <= frames
      /\ handler[h].pc \notin Working
      /\ UNCHANGED <<idem, queued, frames, accepted, planned>>
  BY DEF TypeOK, FanOut, Traced, FramesMinted, CheckNonce, Verify, Working
<1>2. ASSUME NEW c, c # 200, c # 202, Refuse(h, c) PROVE FanOut'
  <2> DEFINE x == [pc |-> "idle", req |-> NoRequest, since |-> 0, frame |-> 0,
                   todo |-> {}, code |-> c]
  <2>1. /\ x.pc = "idle" /\ x.code # 200 /\ x.code # 202 /\ x.frame <= frames
        /\ x.pc \notin Working
    BY <1>1, <1>2 DEF Working
  <2>2. handler' = [handler EXCEPT ![h] = x]
    BY <1>2 DEF Refuse
  <2> HIDE DEF x
  <2> QED BY <1>1, <2>1, <2>2, OutsideFanOut
<1>3. CASE CheckNonce(h)
  <2>1. CASE handler' = [handler EXCEPT ![h].pc = "idem"]
    <3> DEFINE x == [handler[h] EXCEPT !.pc = "idem"]
    <3>1. x.pc = "idem" /\ x.frame <= frames /\ x.pc \notin Working
      BY <1>1 DEF Handler, Working
    <3>2. handler' = [handler EXCEPT ![h] = x]
      BY <2>1 DEF TypeOK
    <3> HIDE DEF x
    <3> QED BY <1>1, <3>1, <3>2, OutsideFanOut
  <2> QED BY <1>2, <1>3, <2>1 DEF CheckNonce
<1>4. ASSUME NEW q \in Requests, Verify(h, q) PROVE FanOut'
  <2>1. Verdict(q, now) \in {0, 400, 401, 413, 422}
    BY VerdictType DEF TypeOK
  <2>2. CASE Verdict(q, now) = 0
    <3> DEFINE x == [pc |-> "nonce", req |-> q, since |-> now, frame |-> 0,
                     todo |-> {}, code |-> 0]
    <3>1. x.pc = "nonce" /\ x.frame <= frames /\ x.pc \notin Working
      BY <1>1 DEF Working
    <3>2. handler' = [handler EXCEPT ![h] = x]
      BY <1>4, <2>2 DEF Verify
    <3> HIDE DEF x
    <3> QED BY <1>1, <3>1, <3>2, OutsideFanOut
  <2>3. CASE Verdict(q, now) # 0
    BY <1>2, <1>4, <2>1, <2>3 DEF Verify
  <2> QED BY <2>2, <2>3
<1> QED BY <1>3, <1>4

\* Remember names the recorded frame or mints one nobody has seen.
LEMMA RememberFanOut ==
  ASSUME TypeOK, FanOut, NEW h \in Handlers, Remember(h)
  PROVE  FanOut'
<1> USE DEF FanOut, Traced
<1>1. PICK q \in Requests : handler[h].req = q
  BY DEF TypeOK, Remember
<1>2. /\ q.key \in Keys /\ frames \in Nat /\ handler[h] \in Handler
      /\ handler[h].pc = "idem" /\ UNCHANGED <<queued, planned>>
  BY IngestAssumption DEF Request, TypeOK, Remember
<1>3. \A k \in Keys : LiveRecords(now)[k] \in {idem[k], NoRecord}
  BY DEF LiveRecords
<1>4. CASE ~Expired(q.key, now)
  <2> DEFINE f == idem[q.key].frame
  <2>1. /\ idem' = LiveRecords(now) /\ UNCHANGED <<frames, accepted>>
        /\ IF idem[q.key].body = q.body THEN Answer(h, 200, f) ELSE Refuse(h, 409)
    BY <1>1, <1>4 DEF Remember
  <2>2. idem[q.key] # NoRecord
    BY <1>4 DEF Expired
  <2>3. CASE idem[q.key].body = q.body
    <3> DEFINE x == [pc |-> "idle", req |-> q, since |-> 0, frame |-> f,
                     todo |-> {}, code |-> 200]
    <3>1. PICK a \in accepted :
            a.frame = f /\ a.req.key = q.key /\ a.req.body = q.body
      BY <1>2, <2>2, <2>3 DEF RecordsKnown
    <3>2. Known(f, q) /\ f <= frames
      BY <3>1 DEF Known, FramesMinted
    <3>3. /\ x.pc = "idle" /\ x.code # 202 /\ x.frame <= frames
          /\ Known(x.frame, x.req) /\ x.pc \notin Working
      BY <3>2 DEF Working
    <3>4. handler' = [handler EXCEPT ![h] = x]
      BY <1>1, <2>1, <2>3 DEF Answer
    <3>5. handler[h].pc \notin Working
      BY <1>2 DEF Working
    <3> HIDE DEF x
    <3> QED BY <1>2, <1>3, <2>1, <3>3, <3>4, <3>5, OutsideFanOut
  <2>4. CASE idem[q.key].body # q.body
    <3> DEFINE x == [pc |-> "idle", req |-> NoRequest, since |-> 0, frame |-> 0,
                     todo |-> {}, code |-> 409]
    <3>1. /\ x.pc = "idle" /\ x.code # 200 /\ x.code # 202 /\ x.frame <= frames
          /\ x.pc \notin Working
      BY <1>2 DEF Working
    <3>2. handler' = [handler EXCEPT ![h] = x]
      BY <2>1, <2>4 DEF Refuse
    <3>3. handler[h].pc \notin Working
      BY <1>2 DEF Working
    <3> HIDE DEF x
    <3> QED BY <1>2, <1>3, <2>1, <3>1, <3>2, <3>3, OutsideFanOut
  <2> QED BY <2>3, <2>4
<1>5. CASE Expired(q.key, now)
  <2> DEFINE f == frames + 1
             x == [handler[h] EXCEPT !.pc = "match", !.frame = f]
             a == [req |-> q, frame |-> f, at |-> now]
             rec == [body |-> q.body, frame |-> f, expires |-> now + TTL]
  <2>1. /\ idem' = [LiveRecords(now) EXCEPT ![q.key] = rec]
        /\ accepted' = accepted \cup {a}
        /\ handler' = [handler EXCEPT ![h] = x]
        /\ frames' = f
    BY <1>1, <1>5 DEF Remember
  <2>2. /\ x.pc = "match" /\ x.frame = f /\ x.req = q
        /\ a.req = q /\ a.frame = f /\ rec.body = q.body /\ rec.frame = f
        /\ a.at + TTL = rec.expires
    BY <1>1, <1>2 DEF Handler
  <2>3. /\ handler'[h] = x
        /\ \A g \in Handlers : g # h => handler'[g] = handler[g]
    BY <2>1 DEF TypeOK
  <2>4. /\ idem'[q.key] = rec
        /\ \A k \in Keys : k # q.key => idem'[k] \in {idem[k], NoRecord}
    BY <1>2, <1>3, <2>1, LiveType
  <2>5. /\ \A b \in accepted : b.frame <= frames /\ b.frame \in Nat
        /\ \A g \in Handlers : handler[g].frame <= frames /\ handler[g].frame \in Nat
        /\ \A e \in planned : e[1] <= frames /\ e[1] \in Nat
    BY DEF FramesMinted, TypeOK, Handler, Accepted
  <2> HIDE DEF x, a, rec
  <2>6. f \in Nat /\ f > frames
    BY <1>2
  <2>7. /\ \A b \in accepted : b.frame # f
        /\ \A g \in Handlers : handler[g].frame # f
        /\ \A e \in planned : e[1] # f
    BY <1>2, <2>5, <2>6
  <2>8. FramesMinted'
    <3>1. \A n \in Nat : n <= frames => n <= f
      BY <1>2
    <3> HIDE DEF f
    <3> QED BY <1>2, <2>1, <2>2, <2>3, <2>5, <2>6, <3>1 DEF FramesMinted
  <2> HIDE DEF f
  <2>9. RecordsKnown'
    BY <2>1, <2>2, <2>4 DEF RecordsKnown
  <2>10. OneWorker'
    BY <2>2, <2>3, <2>7 DEF OneWorker, Answered, Working
  <2>11. PlannedOnce' /\ TodoPlanned'
    BY <1>2, <2>2, <2>3, <2>7 DEF PlannedOnce, TodoPlanned
  <2>12. \A g \in Handlers : handler'[g].pc \in Working =>
            Known(handler[g].frame, handler[g].req)'
    BY <2>1, <2>2, <2>3 DEF Known
  <2>13. AnswersTruthful'
    BY <1>2, <2>1, <2>2, <2>3 DEF AnswersTruthful
  <2>14. FanOutAccounted'
    BY <1>2, <2>1, <2>2, <2>3 DEF FanOutAccounted
  <2> QED BY <2>8, <2>9, <2>10, <2>11, <2>12, <2>13, <2>14
<1> QED BY <1>4, <1>5

\* Match plans a frame for the first time.
LEMMA MatchFanOut ==
  ASSUME TypeOK, FanOut, NEW h \in Handlers, Match(h)
  PROVE  FanOut'
<1> USE DEF FanOut, Traced
<1> DEFINE f == handler[h].frame
           plan == {s \in Matching[handler[h].req.body] : enabled[s]}
<1>1. /\ handler[h].pc = "match" /\ handler[h] \in Handler /\ f \in Nat
      /\ planned' = planned \cup ({f} \X plan)
      /\ UNCHANGED <<idem, queued, frames, accepted>>
  BY DEF Match, TypeOK, Handler
<1>2. PICK a \in accepted : /\ a.frame = f /\ a.req.key = handler[h].req.key
                            /\ a.req.body = handler[h].req.body
  BY <1>1 DEF Known, Working
<1>3. PICK x : /\ handler' = [handler EXCEPT ![h] = x]
               /\ x.frame = f /\ x.req = handler[h].req
               /\ \/ x.pc = "idle" /\ x.code = 202 /\ plan = {}
                  \/ x.pc = "enqueue" /\ x.todo = plan
  <2>1. CASE plan = {}
    <3> DEFINE y == [pc |-> "idle", req |-> handler[h].req, since |-> 0, frame |-> f,
                     todo |-> {}, code |-> 202]
    <3>1. handler' = [handler EXCEPT ![h] = y]
      BY <2>1 DEF Match, Answer
    <3>2. y.frame = f /\ y.req = handler[h].req /\ y.pc = "idle" /\ y.code = 202
      OBVIOUS
    <3> HIDE DEF y
    <3> QED BY <2>1, <3>1, <3>2
  <2>2. CASE plan # {}
    <3> DEFINE y == [handler[h] EXCEPT !.pc = "enqueue", !.todo = plan]
    <3>1. handler' = [handler EXCEPT ![h] = y]
      BY <2>2 DEF Match
    <3>2. y.frame = f /\ y.req = handler[h].req /\ y.pc = "enqueue" /\ y.todo = plan
      BY <1>1 DEF Handler
    <3> HIDE DEF y
    <3> QED BY <3>1, <3>2
  <2> QED BY <2>1, <2>2
<1>4. /\ handler'[h] = x
      /\ \A g \in Handlers : g # h => handler'[g] = handler[g]
  BY <1>3 DEF TypeOK
<1>5. \A e \in planned' : e \in planned \/ (e[1] = f /\ e[2] \in plan)
  BY <1>1
<1>6. \A g \in Handlers : g # h /\ handler[g].pc \in Working => handler[g].frame # f
  BY <1>1 DEF OneWorker, Working
<1>7. \A g \in Handlers : g # h /\ Answered(g, 202) => handler[g].frame # f
  BY <1>1 DEF OneWorker, Working
<1> HIDE DEF f, plan
<1>8. RecordsKnown'
  BY <1>1 DEF RecordsKnown
<1>9. OneWorker'
  BY <1>3, <1>4, <1>6, <1>7 DEF OneWorker, Answered, Working
<1>10. PlannedOnce' /\ TodoPlanned'
  <2>1. PlannedOnce'
    BY <1>3, <1>4, <1>5, <1>6 DEF PlannedOnce, Working
  <2>2. \A s \in plan : <<f, s>> \in planned'
    BY <1>1
  <2>3. TodoPlanned'
    BY <1>1, <1>3, <1>4, <2>2 DEF TodoPlanned
  <2> QED BY <2>1, <2>3
<1>11. FramesMinted'
  BY <1>1, <1>3, <1>4, <1>5 DEF FramesMinted, f
<1>12. \A g \in Handlers : handler'[g].pc \in Working =>
          Known(handler[g].frame, handler[g].req)'
  BY <1>1, <1>2, <1>3, <1>4 DEF Known
<1>13. AnswersTruthful'
  <2> SUFFICES ASSUME NEW g \in Handlers, handler'[g].pc = "idle",
                      handler'[g].code \in {200, 202}
               PROVE  /\ \E b \in accepted : /\ b.frame = handler'[g].frame
                                             /\ b.req.key = handler'[g].req.key
                                             /\ b.req.body = handler'[g].req.body
                      /\ handler'[g].code = 202 =>
                            \A e \in planned' : e[1] = handler'[g].frame => e \in queued
    BY <1>1 DEF AnswersTruthful
  <2>1. CASE g = h
    <3>1. \A e \in planned : e[1] # f
      BY <1>1 DEF PlannedOnce, f
    <3> QED BY <1>2, <1>3, <1>4, <1>5, <2>1, <3>1
  <2>2. CASE g # h
    <3>1. handler'[g] = handler[g]
      BY <1>4, <2>2
    <3>2. handler[g].code = 202 => handler[g].frame # f
      BY <1>7, <2>2, <3>1 DEF Answered
    <3> QED BY <1>5, <3>1, <3>2 DEF AnswersTruthful
  <2> QED BY <2>1, <2>2
<1>14. FanOutAccounted'
  <2>1. \A e \in planned' :
          e \in queued \/ \E g \in Handlers : /\ handler'[g].pc = "enqueue"
                                              /\ handler'[g].frame = e[1]
                                              /\ e[2] \in handler'[g].todo
    <3> SUFFICES ASSUME NEW e \in planned'
                 PROVE  e \in queued \/ \E g \in Handlers :
                                           /\ handler'[g].pc = "enqueue"
                                           /\ handler'[g].frame = e[1]
                                           /\ e[2] \in handler'[g].todo
      OBVIOUS
    <3>1. CASE e \in planned
      BY <1>1, <1>4, <3>1 DEF FanOutAccounted
    <3>2. CASE e[1] = f /\ e[2] \in plan
      BY <1>3, <1>4, <3>2
    <3> QED BY <1>5, <3>1, <3>2
  <2>2. \A e \in planned' : \E b \in accepted :
          b.frame = e[1] /\ e[2] \in Matching[b.req.body]
    BY <1>2, <1>5 DEF FanOutAccounted, plan
  <2> QED BY <1>1, <2>1, <2>2 DEF FanOutAccounted
<1> QED BY <1>8, <1>9, <1>10, <1>11, <1>12, <1>13, <1>14

\* Enqueue takes one item off the plan, and the last one ends the request.
LEMMA EnqueueFanOut ==
  ASSUME TypeOK, FanOut, NEW h \in Handlers, Enqueue(h)
  PROVE  FanOut'
<1> USE DEF FanOut, Traced
<1> DEFINE f == handler[h].frame
<1>1. /\ handler[h].pc = "enqueue" /\ handler[h] \in Handler /\ f \in Nat
      /\ UNCHANGED <<idem, frames, accepted, planned>>
  BY DEF Enqueue, TypeOK, Handler
<1>2. PICK s \in handler[h].todo :
        /\ queued' = queued \cup {<<f, s>>}
        /\ IF handler[h].todo = {s} THEN Answer(h, 202, f)
           ELSE handler' = [handler EXCEPT ![h].todo = @ \ {s}]
  BY DEF Enqueue
<1>3. PICK x : /\ handler' = [handler EXCEPT ![h] = x]
               /\ x.frame = f /\ x.req = handler[h].req
               /\ \/ x.pc = "idle" /\ x.code = 202 /\ handler[h].todo = {s}
                  \/ x.pc = "enqueue" /\ x.todo = handler[h].todo \ {s}
  <2>1. CASE handler[h].todo = {s}
    <3> DEFINE y == [pc |-> "idle", req |-> handler[h].req, since |-> 0, frame |-> f,
                     todo |-> {}, code |-> 202]
    <3>1. handler' = [handler EXCEPT ![h] = y]
      BY <1>2, <2>1 DEF Answer
    <3>2. y.frame = f /\ y.req = handler[h].req /\ y.pc = "idle" /\ y.code = 202
      OBVIOUS
    <3> HIDE DEF y
    <3> QED BY <2>1, <3>1, <3>2
  <2>2. CASE handler[h].todo # {s}
    <3> DEFINE y == [handler[h] EXCEPT !.todo = @ \ {s}]
    <3>1. handler' = [handler EXCEPT ![h] = y]
      BY <1>2, <2>2 DEF TypeOK
    <3>2. /\ y.frame = f /\ y.req = handler[h].req /\ y.pc = "enqueue"
          /\ y.todo = handler[h].todo \ {s}
      BY <1>1 DEF Handler
    <3> HIDE DEF y
    <3> QED BY <3>1, <3>2
  <2> QED BY <2>1, <2>2
<1>4. /\ handler'[h] = x
      /\ \A g \in Handlers : g # h => handler'[g] = handler[g]
  BY <1>3 DEF TypeOK
<1>5. \A g \in Handlers : g # h /\ handler[g].pc \in Working => handler[g].frame # f
  BY <1>1 DEF OneWorker, Working
<1>6. PICK a \in accepted : /\ a.frame = f /\ a.req.key = handler[h].req.key
                            /\ a.req.body = handler[h].req.body
  BY <1>1 DEF Known, Working
<1>7. planned \subseteq Nat \X Stores
  BY DEF TypeOK
<1>8. \A e \in planned : e[1] = f /\ e \notin queued => e[2] \in handler[h].todo
  BY <1>1, <1>5 DEF FanOutAccounted, Working
<1>9. \A e \in planned : e[1] = f /\ e \notin queued' => e[2] \in handler[h].todo \ {s}
  <2> SUFFICES ASSUME NEW e \in planned, e[1] = f, e \notin queued'
               PROVE  e[2] \in handler[h].todo /\ e[2] # s
    OBVIOUS
  <2>1. e = <<e[1], e[2]>>
    BY <1>7
  <2> QED BY <1>2, <1>8, <2>1
<1>10. <<f, s>> \in planned
  BY <1>1 DEF TodoPlanned
<1> HIDE DEF f
<1>11. RecordsKnown'
  BY <1>1 DEF RecordsKnown
<1>12. OneWorker'
  <2>1. \A g \in Handlers : Answered(g, 202) => handler[g].frame # f
    BY <1>1 DEF OneWorker, Working, f
  <2> QED BY <1>1, <1>3, <1>4, <1>5, <2>1 DEF OneWorker, Answered, Working
<1>13. PlannedOnce' /\ TodoPlanned'
  BY <1>1, <1>3, <1>4 DEF PlannedOnce, TodoPlanned, f
<1>14. FramesMinted'
  BY <1>1, <1>3, <1>4 DEF FramesMinted, f
<1>15. \A g \in Handlers : handler'[g].pc \in Working =>
          Known(handler[g].frame, handler[g].req)'
  BY <1>1, <1>3, <1>4, <1>6 DEF Known
<1>16. AnswersTruthful'
  <2> SUFFICES ASSUME NEW g \in Handlers, handler'[g].pc = "idle",
                      handler'[g].code \in {200, 202}
               PROVE  /\ \E b \in accepted : /\ b.frame = handler'[g].frame
                                             /\ b.req.key = handler'[g].req.key
                                             /\ b.req.body = handler'[g].req.body
                      /\ handler'[g].code = 202 =>
                            \A e \in planned : e[1] = handler'[g].frame => e \in queued'
    BY <1>1 DEF AnswersTruthful
  <2>1. CASE g = h
    <3>1. handler[h].todo \ {s} = {}
      BY <1>3, <1>4, <2>1
    <3> QED BY <1>3, <1>4, <1>6, <1>9, <2>1, <3>1
  <2>2. CASE g # h
    <3>1. handler'[g] = handler[g]
      BY <1>4, <2>2
    <3> QED BY <1>2, <3>1 DEF AnswersTruthful
  <2> QED BY <2>1, <2>2
<1>17. FanOutAccounted'
  <2>1. ASSUME NEW e \in planned, e \notin queued'
        PROVE  \E g \in Handlers : /\ handler'[g].pc = "enqueue"
                                   /\ handler'[g].frame = e[1]
                                   /\ e[2] \in handler'[g].todo
    <3>1. CASE e[1] = f
      <4>1. e[2] \in handler[h].todo \ {s}
        BY <1>9, <2>1, <3>1
      <4> QED BY <1>3, <1>4, <3>1, <4>1
    <3>2. CASE e[1] # f
      <4>1. PICK g \in Handlers : /\ handler[g].pc = "enqueue"
                                  /\ handler[g].frame = e[1]
                                  /\ e[2] \in handler[g].todo
        BY <1>2, <2>1 DEF FanOutAccounted
      <4>2. g # h
        BY <3>2, <4>1 DEF f
      <4> QED BY <1>4, <4>1, <4>2
    <3> QED BY <3>1, <3>2
  <2>2. queued' \subseteq planned
    BY <1>2, <1>10 DEF FanOutAccounted
  <2> QED BY <1>1, <2>1, <2>2 DEF FanOutAccounted
<1> QED BY <1>11, <1>12, <1>13, <1>14, <1>15, <1>16, <1>17

\* Every step keeps the fan-out accounted for.
LEMMA NextFanOut ==
  ASSUME TypeOK, FanOut, [Next]_vars
  PROVE  FanOut'
<1>1. ASSUME NEW h \in Handlers, (\E q \in Requests : Verify(h, q)) \/ HandlerStep(h)
      PROVE  FanOut'
  BY <1>1, EarlyFanOut, RememberFanOut, MatchFanOut, EnqueueFanOut DEF HandlerStep
<1>2. CASE SweepRecords
  <2>1. \A k \in Keys : idem'[k] = idem[k] \/ idem'[k] = NoRecord
    BY <1>2 DEF SweepRecords, LiveRecords
  <2> QED BY <1>2, <2>1, NoHandlerFanOut DEF SweepRecords
<1>3. CASE UNCHANGED <<idem, handler, queued, frames, accepted, planned>>
  BY <1>3, NoHandlerFanOut
<1> QED BY <1>1, <1>2, <1>3 DEF Next, SweepNonces, SetEnabled, Tick, vars

\* FanOut holds from the start.
LEMMA InitFanOut == Init => FanOut
<1> SUFFICES ASSUME Init PROVE FanOut
  OBVIOUS
<1>1. \A h \in Handlers : /\ handler[h].pc = "idle" /\ handler[h].code = 0
                          /\ handler[h].frame = 0
  BY DEF Init, IdleHandler
<1>2. /\ frames = 0 /\ accepted = {} /\ planned = {} /\ queued = {}
      /\ \A k \in Keys : idem[k] = NoRecord
  BY DEF Init
<1> QED BY <1>1, <1>2
        DEF FanOut, Traced, RecordsKnown, OneWorker, Answered, PlannedOnce,
            TodoPlanned, FramesMinted, Working, AnswersTruthful, FanOutAccounted

\* A 200 or a 202 names a frame accepted for the caller's own key and body, and
\* a 202 is sent after every relay of its plan is queued, for any number of
\* concurrent requests with the same keys, nonces and bodies.
THEOREM AnswersCorrect == Spec => []AnswersTruthful
<1>1. Init => TypeOK /\ FanOut
  BY InitType, InitFanOut
<1>2. TypeOK /\ FanOut /\ [Next]_vars => (TypeOK /\ FanOut)'
  BY NextType, NextFanOut
<1> QED BY <1>1, <1>2, PTL DEF Spec, FanOut

\* Every planned relay of a frame is queued or still with the handler that
\* accepted the frame, and nothing else is ever queued.
THEOREM FanOutCorrect == Spec => []FanOutAccounted
<1>1. Init => TypeOK /\ FanOut
  BY InitType, InitFanOut
<1>2. TypeOK /\ FanOut /\ [Next]_vars => (TypeOK /\ FanOut)'
  BY NextType, NextFanOut
<1> QED BY <1>1, <1>2, PTL DEF Spec, FanOut
------------------------------------------------------------------------------
(* The refinement of module Acceptance *)

\* What a handler has left to hand on it has not handed on, nor has another.
TodoPending ==
    \A h \in Handlers : handler[h].pc = "enqueue" =>
        \A s \in handler[h].todo : <<handler[h].frame, s>> \notin queued

\* TodoPending is inductive: a frame is planned once, by the one that minted it.
LEMMA NextTodoPending ==
  ASSUME TypeOK, FanOut, TodoPending, [Next]_vars
  PROVE  TodoPending'
<1> USE DEF TodoPending
<1>1. ASSUME NEW h \in Handlers, Enqueue(h) PROVE TodoPending'
  <2>1. PICK s \in handler[h].todo :
          /\ queued' = queued \cup {<<handler[h].frame, s>>}
          /\ \/ handler'[h].pc = "idle"
             \/ /\ handler'[h].frame = handler[h].frame
                /\ handler'[h].todo = handler[h].todo \ {s}
          /\ \A g \in Handlers : g # h => handler'[g] = handler[g]
    BY <1>1 DEF Enqueue, Answer, TypeOK, Handler
  <2>2. handler[h].pc = "enqueue"
    BY <1>1 DEF Enqueue
  <2>3. \A g \in Handlers : g # h /\ handler[g].pc = "enqueue" =>
           handler[g].frame # handler[h].frame
    BY <2>2 DEF FanOut, Traced, OneWorker, Working
  <2> QED BY <2>1, <2>2, <2>3
<1>2. ASSUME NEW h \in Handlers, Match(h) PROVE TodoPending'
  <2>1. /\ handler[h].pc = "match" /\ handler[h] \in Handler /\ queued' = queued
        /\ \A g \in Handlers : g # h => handler'[g] = handler[g]
    BY <1>2 DEF Match, Answer, TypeOK
  <2>3. handler'[h].frame = handler[h].frame
    <3>1. CASE Answer(h, 202, handler[h].frame)
      BY <3>1 DEF Answer, TypeOK
    <3>2. ASSUME NEW T, handler' = [handler EXCEPT ![h] =
                           [@ EXCEPT !.pc = "enqueue", !.todo = T]]
          PROVE  handler'[h].frame = handler[h].frame
      BY <2>1, <3>2 DEF TypeOK, Handler
    <3> QED BY <1>2, <3>1, <3>2 DEF Match
  <2>2. \A e \in queued : e[1] # handler[h].frame
    BY <2>1 DEF FanOut, Traced, PlannedOnce, FanOutAccounted
  <2> QED BY <2>1, <2>2, <2>3
<1>3. ASSUME NEW h \in Handlers,
             \/ CheckNonce(h) \/ Remember(h)
             \/ \E q \in Requests : Verify(h, q)
      PROVE  TodoPending'
  <2>1. /\ queued' = queued
        /\ \A g \in Handlers : g # h => handler'[g] = handler[g]
    BY <1>3 DEF CheckNonce, Remember, Verify, Answer, Refuse, TypeOK
  <2>2. handler[h] \in Handler
    BY DEF TypeOK
  <2>3. ASSUME CheckNonce(h) PROVE handler'[h].pc # "enqueue"
    BY <2>2, <2>3 DEF CheckNonce, Refuse, TypeOK, Handler
  <2>4. ASSUME Remember(h) PROVE handler'[h].pc # "enqueue"
    <3>1. ASSUME NEW f, handler' = [handler EXCEPT ![h] =
                           [@ EXCEPT !.pc = "match", !.frame = f]]
          PROVE  handler'[h].pc # "enqueue"
      BY <2>2, <3>1 DEF TypeOK, Handler
    <3>2. ASSUME NEW f, Answer(h, 200, f) \/ Refuse(h, 409)
          PROVE  handler'[h].pc # "enqueue"
      BY <3>2 DEF Answer, Refuse, TypeOK
    <3> QED BY <2>4, <3>1, <3>2 DEF Remember
  <2>5. ASSUME NEW q \in Requests, Verify(h, q) PROVE handler'[h].pc # "enqueue"
    BY <2>5 DEF Verify, Refuse, TypeOK
  <2> QED BY <1>3, <2>1, <2>3, <2>4, <2>5
<1>4. CASE UNCHANGED <<handler, queued>>
  BY <1>4
<1> QED
  BY <1>1, <1>2, <1>3, <1>4 DEF Next, HandlerStep, SweepNonces, SweepRecords,
     SetEnabled, Tick, vars

\* The fields Acceptance sees.
LEMMA ServingFields ==
  ASSUME NEW h \in Handlers
  PROVE  /\ Serving[h].at = Stage[handler[h].pc] /\ Serving[h].req = handler[h].req
         /\ Serving[h].frame = handler[h].frame /\ Serving[h].todo = handler[h].todo
  BY DEF Serving, Shown

\* A handler that moves on keeps what Acceptance sees of the other fields.
LEMMA ServingRecord ==
  ASSUME NEW h \in Handlers, NEW st, NEW f, NEW left
  PROVE  /\ [Serving[h] EXCEPT !.at = st, !.frame = f]
              = [at |-> st, req |-> handler[h].req, frame |-> f,
                 todo |-> handler[h].todo, code |-> handler[h].code]
         /\ [Serving[h] EXCEPT !.at = st, !.todo = left]
              = [at |-> st, req |-> handler[h].req, frame |-> handler[h].frame,
                 todo |-> left, code |-> handler[h].code]
<1> DEFINE r == Serving[h]
           Fields == {"at", "req", "frame", "todo", "code"}
<1>1. /\ DOMAIN r = Fields
      /\ r.req = handler[h].req /\ r.frame = handler[h].frame
      /\ r.todo = handler[h].todo /\ r.code = handler[h].code
  BY DEF Serving, Shown
<1> HIDE DEF r
<1>2. [r EXCEPT !.at = st, !.frame = f]
         = [x \in DOMAIN r |-> IF x = "at" THEN st ELSE IF x = "frame" THEN f ELSE r[x]]
  OBVIOUS
<1>3. [r EXCEPT !.at = st, !.todo = left]
         = [x \in DOMAIN r |-> IF x = "at" THEN st ELSE IF x = "todo" THEN left ELSE r[x]]
  OBVIOUS
<1>4. [at |-> st, req |-> r.req, frame |-> f, todo |-> r.todo, code |-> r.code]
         = [x \in Fields |->
              IF x = "at" THEN st ELSE IF x = "frame" THEN f ELSE r[x]]
  OBVIOUS
<1>5. [at |-> st, req |-> r.req, frame |-> r.frame, todo |-> left, code |-> r.code]
         = [x \in Fields |->
              IF x = "at" THEN st ELSE IF x = "todo" THEN left ELSE r[x]]
  OBVIOUS
<1>6. /\ [r EXCEPT !.at = st, !.frame = f]
           = [at |-> st, req |-> r.req, frame |-> f, todo |-> r.todo, code |-> r.code]
      /\ [r EXCEPT !.at = st, !.todo = left]
           = [at |-> st, req |-> r.req, frame |-> r.frame, todo |-> left, code |-> r.code]
  BY <1>1, <1>2, <1>3, <1>4, <1>5
<1> QED BY <1>1, <1>6 DEF r

\* A step of one handler changes its own entry.
LEMMA ServingStep ==
  ASSUME TypeOK, NEW h \in Handlers, NEW x, handler' = [handler EXCEPT ![h] = x]
  PROVE  /\ Serving[h] = Shown(handler[h])
         /\ Serving' = [Serving EXCEPT ![h] = Shown(x)]
         /\ Serving'[h] = Shown(x)
<1>1. handler'[h] = x /\ \A g \in Handlers : g # h => handler'[g] = handler[g]
  BY DEF TypeOK
<1>2. Serving'[h] = Shown(x) /\ \A g \in Handlers : g # h => Serving'[g] = Serving[g]
  BY <1>1 DEF Serving, Shown
<1> QED BY <1>2 DEF Serving

\* The states Refuse and Answer leave a handler in, as Acceptance sees them.
LEMMA RestShown ==
  ASSUME NEW q, NEW f, NEW c
  PROVE  Shown([pc |-> "idle", req |-> q, since |-> 0, frame |-> f,
                todo |-> {}, code |-> c]) = Accepting!Reply(q, f, c)
  BY DEF Shown, Stage, Accepting!Reply

Refusals == {400, 401, 409, 413, 422}

\* What Acceptance does for one request, or nothing it sees.
Served == Accepting!Next \/ UNCHANGED Accepting!acceptance

\* A step that serves a request is one of Acceptance's; a refusal of a request
\* that repeats the answer before it is a stutter.
LEMMA ServeStep ==
  ASSUME NEW h \in Handlers,
         \/ Accepting!Receive(h) \/ Accepting!Refuse(h)
         \/ Accepting!Repeat(h) \/ Accepting!Plan(h)
  PROVE  Served
<1>1. Accepting!Serve(h) /\ UNCHANGED <<now, accepted, queued>>
  BY DEF Accepting!Serve, Accepting!Receive, Accepting!Refuse,
         Accepting!Repeat, Accepting!Plan
<1>2. CASE Serving' # Serving
  BY <1>1, <1>2 DEF Served, Accepting!Next
<1>3. CASE Serving' = Serving
  BY <1>1, <1>3 DEF Served, Accepting!acceptance
<1> QED BY <1>2, <1>3

\* A refusal is one of Acceptance's.
LEMMA RefuseStep ==
  ASSUME TypeOK, NEW h \in Handlers, NEW c, c \in Refusals, Refuse(h, c),
         handler[h].pc \in {"idle", "nonce", "idem"},
         UNCHANGED <<now, queued, accepted>>
  PROVE  Accepting!Refuse(h)
<1> DEFINE x == [pc |-> "idle", req |-> NoRequest, since |-> 0, frame |-> 0,
                 todo |-> {}, code |-> c]
           y == Accepting!Reply(NoRequest, 0, c)
<1>1. handler' = [handler EXCEPT ![h] = x]
  BY DEF Refuse
<1>2. Shown(x) = y
  BY RestShown
<1>3. y.code = c
  BY DEF Accepting!Reply
<1> HIDE DEF x, y
<1>4. Serving'[h] = y /\ Serving' = [Serving EXCEPT ![h] = y]
  BY <1>1, <1>2, ServingStep
<1>5. Serving[h].at \in {"rest", "decide"}
  BY ServingFields DEF Stage
<1>6. c \in {400, 401, 409, 413, 422}
  BY DEF Refusals
<1>7. Serving'[h].code = c
  BY <1>3, <1>4
<1>8. Serving' = [Serving EXCEPT ![h] = Accepting!Reply(NoRequest, 0, Serving'[h].code)]
  BY <1>4, <1>7 DEF y
<1>9. Serving'[h].code \in {400, 401, 409, 413, 422}
  BY <1>6, <1>7
<1> QED BY <1>5, <1>8, <1>9 DEF Accepting!Refuse

\* Up to the record check a request is taken, refused or not yet decided.
LEMMA EarlyStep ==
  ASSUME TypeOK, NEW h \in Handlers,
         CheckNonce(h) \/ \E q \in Requests : Verify(h, q)
  PROVE  Served
<1> DEFINE old == handler[h]
<1>1. UNCHANGED <<now, queued, accepted>> /\ old \in Handler
  BY DEF CheckNonce, Verify, TypeOK
<1>2. ASSUME NEW c, c \in Refusals, Refuse(h, c), old.pc \in {"idle", "nonce"}
      PROVE  Served
  BY <1>1, <1>2, RefuseStep, ServeStep
<1>3. CASE CheckNonce(h)
  <2>1. CASE handler' = [handler EXCEPT ![h].pc = "idem"]
    <3> DEFINE x == [old EXCEPT !.pc = "idem"]
    <3>1. handler' = [handler EXCEPT ![h] = x] /\ old.pc = "nonce"
      BY <1>3, <2>1 DEF CheckNonce, TypeOK
    <3>2. Shown(x) = Shown(old)
      BY <1>1, <3>1 DEF Shown, Stage, Handler
    <3>3. Serving' = Serving
      BY <3>1, <3>2, ServingStep DEF Serving
    <3> QED BY <1>1, <3>3 DEF Served, Accepting!acceptance
  <2>2. CASE Refuse(h, 409)
    <3>1. 409 \in Refusals /\ old.pc = "nonce"
      BY <1>3 DEF Refusals, CheckNonce
    <3> QED BY <1>2, <2>2, <3>1
  <2> QED BY <1>3, <2>1, <2>2 DEF CheckNonce
<1>4. ASSUME NEW q \in Requests, Verify(h, q) PROVE Served
  <2>1. Verdict(q, now) \in {0, 400, 401, 413, 422} /\ old.pc = "idle"
    BY <1>4, VerdictType DEF TypeOK, Verify
  <2>2. CASE Verdict(q, now) # 0
    <3>1. Verdict(q, now) \in Refusals /\ Refuse(h, Verdict(q, now))
      BY <1>4, <2>1, <2>2 DEF Verify, Refusals
    <3> QED BY <1>2, <2>1, <3>1
  <2>3. CASE Verdict(q, now) = 0
    <3> DEFINE x == [pc |-> "nonce", req |-> q, since |-> now, frame |-> 0,
                     todo |-> {}, code |-> 0]
               y == [Accepting!Reply(q, 0, 0) EXCEPT !.at = "decide"]
    <3>1. handler' = [handler EXCEPT ![h] = x]
      BY <1>4, <2>3 DEF Verify
    <3>2. Shown(x) = y /\ y.req = q
      BY DEF Shown, Stage, Accepting!Reply
    <3> HIDE DEF x
    <3> HIDE DEF y
    <3>3. Serving'[h] = y /\ Serving' = [Serving EXCEPT ![h] = y]
      BY <3>1, <3>2, ServingStep
    <3>4. Serving[h].at = "rest"
      BY <2>1, ServingFields DEF Stage
    <3>5. Accepting!Receive(h)
      BY <1>1, <3>2, <3>3, <3>4 DEF Accepting!Receive, y
    <3> QED BY <3>5, ServeStep
  <2> QED BY <2>2, <2>3
<1> QED BY <1>3, <1>4

\* The record decides as Acceptance does from the frames: while it stands it
\* names the one accepted frame, and when it has expired there is none.
LEMMA RecordDecides ==
  ASSUME TypeOK, OneFrame, FanOut, NEW k \in Keys
  PROVE  /\ Expired(k, now) => Accepting!Current(k) = {}
         /\ ~Expired(k, now) =>
               \E a \in Accepting!Current(k) :
                  a.frame = idem[k].frame /\ a.req.body = idem[k].body
<1>1. /\ now \in Nat /\ TTL \in Nat
      /\ \A a \in accepted : a.at \in Nat /\ a.req.key \in Keys
  BY AcceptedTyped, IngestAssumption DEF TypeOK
<1>2. ASSUME Expired(k, now) PROVE Accepting!Current(k) = {}
  <2> SUFFICES ASSUME NEW a \in accepted, a.req.key = k, now < a.at + TTL
               PROVE  FALSE
    BY DEF Accepting!Current
  <2>1. ~(a.at + TTL <= now)
    BY <1>1
  <2>2. idem[k] # NoRecord /\ idem[k].expires = a.at + TTL
    BY <2>1 DEF OneFrame, Recorded
  <2> QED BY <1>1, <1>2, <2>1, <2>2 DEF Expired
<1>3. ASSUME ~Expired(k, now)
      PROVE  \E a \in Accepting!Current(k) :
                a.frame = idem[k].frame /\ a.req.body = idem[k].body
  <2>1. idem[k] # NoRecord /\ ~(idem[k].expires <= now)
    BY <1>3 DEF Expired
  <2>2. PICK a \in accepted : /\ a.frame = idem[k].frame /\ a.req.key = k
                              /\ a.req.body = idem[k].body
                              /\ a.at + TTL = idem[k].expires
    BY <2>1 DEF FanOut, Traced, RecordsKnown
  <2>3. now < a.at + TTL
    BY <1>1, <2>1, <2>2
  <2> QED BY <2>2, <2>3 DEF Accepting!Current
<1> QED BY <1>2, <1>3

\* Remember repeats, refuses or accepts.
LEMMA RememberStep ==
  ASSUME TypeOK, OneFrame, FanOut, NEW h \in Handlers, Remember(h)
  PROVE  Served
<1> DEFINE q == handler[h].req
<1>1. /\ UNCHANGED <<now, queued>> /\ handler[h] \in Handler /\ handler[h].pc = "idem"
      /\ q \in Requests /\ frames \in Nat
  BY DEF Remember, TypeOK
<1>2. q.key \in Keys
  BY <1>1, IngestAssumption DEF Request
<1>3. Serving[h].at = "decide" /\ Serving[h].req = q
  BY <1>1, ServingFields DEF Stage
<1>4. CASE ~Expired(q.key, now) /\ idem[q.key].body = q.body
  <2>1. PICK a \in Accepting!Current(q.key) :
          a.frame = idem[q.key].frame /\ a.req.body = q.body
    BY <1>2, <1>4, RecordDecides
  <2> DEFINE x == [pc |-> "idle", req |-> q, since |-> 0, frame |-> a.frame,
                   todo |-> {}, code |-> 200]
             y == Accepting!Reply(q, a.frame, 200)
  <2>2. handler' = [handler EXCEPT ![h] = x] /\ accepted' = accepted
    BY <1>4, <2>1 DEF Remember, Answer
  <2>3. Shown(x) = y
    BY RestShown
  <2> HIDE DEF x, y
  <2>4. Serving' = [Serving EXCEPT ![h] = y]
    BY <2>2, <2>3, ServingStep
  <2>5. Accepting!Repeat(h)
    BY <1>1, <1>3, <2>1, <2>2, <2>4 DEF Accepting!Repeat, y
  <2> QED BY <2>5, ServeStep
<1>5. CASE ~Expired(q.key, now) /\ idem[q.key].body # q.body
  <2>1. Refuse(h, 409) /\ accepted' = accepted
    BY <1>5 DEF Remember
  <2>2. 409 \in Refusals
    BY DEF Refusals
  <2> QED BY <1>1, <2>1, <2>2, RefuseStep, ServeStep
<1>6. CASE Expired(q.key, now)
  <2> DEFINE f == frames + 1
             x == [handler[h] EXCEPT !.pc = "match", !.frame = f]
             y == [Serving[h] EXCEPT !.at = "plan", !.frame = f]
  <2>1. /\ handler' = [handler EXCEPT ![h] = x] /\ frames < MaxFrames
        /\ accepted' = accepted \cup {[req |-> q, frame |-> f, at |-> now]}
    BY <1>6 DEF Remember
  <2>2. f \in 1..MaxFrames
    BY <1>1, <2>1, IngestAssumption
  <2>3. \A a \in accepted : a.frame # f
    <3>1. \A a \in accepted : a.frame \in Nat /\ a.frame <= frames
      BY DEF FanOut, Traced, FramesMinted, TypeOK, Accepted
    <3> QED BY <1>1, <3>1
  <2>4. Shown(x) = y
    <3>1. /\ x.pc = "match" /\ x.frame = f /\ x.req = q
          /\ x.todo = handler[h].todo /\ x.code = handler[h].code
      BY <1>1 DEF Handler
    <3> DEFINE z == [at |-> "plan", req |-> q, frame |-> f,
                     todo |-> handler[h].todo, code |-> handler[h].code]
    <3>2. y = z
      BY ServingRecord
    <3> HIDE DEF x, f
    <3>3. Shown(x) = z
      BY <3>1 DEF Shown, Stage
    <3> QED BY <3>2, <3>3
  <2>5. Accepting!Current(q.key) = {}
    BY <1>2, <1>6, RecordDecides
  <2> HIDE DEF x, f
  <2>6. Serving' = [Serving EXCEPT ![h] = y]
    BY <2>1, <2>4, ServingStep
  <2>7. Serving' = [Serving EXCEPT ![h].at = "plan", ![h].frame = f]
    BY <2>6 DEF Serving
  <2>8. Accepting!Accept(h, f)
    BY <1>1, <1>3, <2>1, <2>3, <2>5, <2>7 DEF Accepting!Accept
  <2>9. Serving'[h].at = "plan" /\ Serving[h].at = "decide"
    <3>1. Serving[h].req = handler[h].req
      BY ServingFields
    <3>2. y.at = "plan"
      BY DEF Serving, Shown
    <3> HIDE DEF y
    <3> QED BY <1>3, <2>6, <3>2 DEF Serving
  <2> QED BY <2>2, <2>8, <2>9 DEF Served, Accepting!Next, Accepting!Serve
<1> QED BY <1>4, <1>5, <1>6

\* Where Match and Enqueue leave the handler with the stores they leave to do.
LEMMA ToldShown ==
  ASSUME TypeOK, NEW h \in Handlers, NEW left,
         IF left = {} THEN Answer(h, 202, handler[h].frame)
         ELSE handler' = [handler EXCEPT ![h] =
                             [@ EXCEPT !.pc = "enqueue", !.todo = left]]
  PROVE  Accepting!Told(h, left)
<1> DEFINE r == handler[h]
<1>1. r \in Handler /\ Serving[h] = Shown(r)
  BY DEF TypeOK, Serving
<1>2. Serving[h].req = r.req /\ Serving[h].frame = r.frame
  BY ServingFields
<1>3. CASE left = {}
  <2> DEFINE x == [pc |-> "idle", req |-> r.req, since |-> 0, frame |-> r.frame,
                   todo |-> {}, code |-> 202]
             y == Accepting!Reply(r.req, r.frame, 202)
  <2>1. handler' = [handler EXCEPT ![h] = x]
    BY <1>3 DEF Answer
  <2>2. Shown(x) = y
    BY RestShown
  <2> HIDE DEF x, y
  <2>3. Serving' = [Serving EXCEPT ![h] = y]
    BY <2>1, <2>2, ServingStep
  <2>4. y = Accepting!Reply(Serving[h].req, Serving[h].frame, 202)
    BY <1>2 DEF y
  <2>5. Serving' = [Serving EXCEPT ![h] =
                       Accepting!Reply(Serving[h].req, Serving[h].frame, 202)]
    BY <2>3, <2>4
  <2> QED BY <1>3, <2>5 DEF Accepting!Told
<1>4. CASE left # {}
  <2> DEFINE x == [r EXCEPT !.pc = "enqueue", !.todo = left]
             y == [Serving[h] EXCEPT !.at = "relay", !.todo = left]
  <2>1. handler' = [handler EXCEPT ![h] = x]
    BY <1>4
  <2>2. Shown(x) = y
    <3>1. /\ x.pc = "enqueue" /\ x.todo = left /\ x.req = r.req
          /\ x.frame = r.frame /\ x.code = r.code
      BY <1>1 DEF Handler
    <3> DEFINE z == [at |-> "relay", req |-> r.req, frame |-> r.frame,
                     todo |-> left, code |-> r.code]
    <3>2. y = z
      BY ServingRecord
    <3> HIDE DEF x
    <3>3. Shown(x) = z
      BY <3>1 DEF Shown, Stage
    <3> QED BY <3>2, <3>3
  <2> HIDE DEF x
  <2>3. Serving' = [Serving EXCEPT ![h] = y]
    BY <2>1, <2>2, ServingStep
  <2> QED BY <1>4, <2>3 DEF Accepting!Told
<1> QED BY <1>3, <1>4

\* Match plans for stores that match, and Enqueue hands one of them its relay.
LEMMA FanOutStep ==
  ASSUME TypeOK, TodoPending, NEW h \in Handlers, Match(h) \/ Enqueue(h)
  PROVE  Served
<1>1. UNCHANGED <<now, accepted>> /\ handler[h] \in Handler
  BY DEF Match, Enqueue, TypeOK
<1>2. CASE Match(h)
  <2> DEFINE plan == {s \in Matching[handler[h].req.body] : enabled[s]}
  <2>1. Serving[h].at = "plan" /\ Serving[h].req = handler[h].req /\ queued' = queued
    BY <1>2, ServingFields DEF Match, Stage
  <2>2. plan \in SUBSET Matching[Serving[h].req.body]
    BY <2>1
  <2>3. IF plan = {} THEN Answer(h, 202, handler[h].frame)
        ELSE handler' = [handler EXCEPT ![h] =
                            [@ EXCEPT !.pc = "enqueue", !.todo = plan]]
    BY <1>2 DEF Match
  <2> HIDE DEF plan
  <2>4. Accepting!Plan(h)
    BY <1>1, <2>1, <2>2, <2>3, ToldShown DEF Accepting!Plan
  <2> QED BY <2>4, ServeStep
<1>3. CASE Enqueue(h)
  <2>1. PICK s \in handler[h].todo :
          /\ queued' = queued \cup {<<handler[h].frame, s>>}
          /\ IF handler[h].todo = {s} THEN Answer(h, 202, handler[h].frame)
             ELSE handler' = [handler EXCEPT ![h].todo = @ \ {s}]
    BY <1>3 DEF Enqueue
  <2> DEFINE left == handler[h].todo \ {s}
  <2>2. /\ Serving[h].at = "relay" /\ Serving[h].todo = handler[h].todo
        /\ Serving[h].frame = handler[h].frame /\ handler[h].pc = "enqueue"
    BY <1>3, ServingFields DEF Enqueue, Stage
  <2>3. <<handler[h].frame, s>> \notin queued
    BY <2>2 DEF TodoPending
  <2>4. IF left = {} THEN Answer(h, 202, handler[h].frame)
        ELSE handler' = [handler EXCEPT ![h] =
                            [@ EXCEPT !.pc = "enqueue", !.todo = left]]
    <3>1. left = {} <=> handler[h].todo = {s}
      OBVIOUS
    <3>2. [handler[h] EXCEPT !.todo = left]
             = [handler[h] EXCEPT !.pc = "enqueue", !.todo = left]
      <4> DEFINE r == handler[h]
      <4>1. r.pc = "enqueue" /\ r = [x \in DOMAIN r |-> r[x]]
        BY <1>1, <2>2 DEF Handler
      <4> HIDE DEF r, left
      <4>2. [r EXCEPT !.todo = left]
               = [x \in DOMAIN r |-> IF x = "todo" THEN left ELSE r[x]]
        OBVIOUS
      <4>3. [r EXCEPT !.pc = "enqueue", !.todo = left]
               = [x \in DOMAIN r |-> IF x = "pc" THEN "enqueue"
                                     ELSE IF x = "todo" THEN left ELSE r[x]]
        OBVIOUS
      <4>4. [r EXCEPT !.todo = left] = [r EXCEPT !.pc = "enqueue", !.todo = left]
        BY <4>1, <4>2, <4>3
      <4> QED BY <4>4 DEF r
    <3> QED BY <2>1, <3>1, <3>2 DEF TypeOK
  <2>5. Accepting!Told(h, left)
    <3> HIDE DEF left
    <3> QED BY <2>4, ToldShown
  <2>6. Accepting!Relay(h, s)
    BY <1>1, <2>1, <2>2, <2>3, <2>5 DEF Accepting!Relay
  <2>7. Serving' # Serving
    <3>1. handler'[h].pc = "idle" \/ handler'[h].todo = left
      <4> HIDE DEF left
      <4>1. CASE Answer(h, 202, handler[h].frame)
        BY <4>1 DEF Answer, TypeOK
      <4>2. CASE handler' = [handler EXCEPT ![h] =
                                [@ EXCEPT !.pc = "enqueue", !.todo = left]]
        BY <1>1, <4>2 DEF TypeOK, Handler
      <4> QED BY <2>4, <4>1, <4>2
    <3>2. Serving'[h].at = "rest" \/ Serving'[h].todo = left
      BY <3>1 DEF Serving, Shown, Stage
    <3>3. left # Serving[h].todo
      BY <2>2
    <3> QED BY <2>2, <3>2, <3>3
  <2> QED BY <2>2, <2>6, <2>7 DEF Served, Accepting!Next, Accepting!Serve
<1> QED BY <1>2, <1>3

\* Step simulation.
LEMMA NextAccepts ==
  ASSUME TypeOK, OneFrame, FanOut, TodoPending, [Next]_vars
  PROVE  [Accepting!Next]_(Accepting!acceptance)
<1>1. ASSUME NEW h \in Handlers, (\E q \in Requests : Verify(h, q)) \/ HandlerStep(h)
      PROVE  Served
  BY <1>1, EarlyStep, RememberStep, FanOutStep DEF HandlerStep
<1>2. CASE UNCHANGED <<now, accepted, queued, handler>>
  BY <1>2 DEF Accepting!acceptance, Serving
<1>3. CASE Tick
  <2>1. Serving' = Serving
    BY <1>3 DEF Tick, Serving
  <2> QED BY <1>3, <2>1 DEF Tick, Accepting!Tick, Accepting!Next
<1> QED
  BY <1>1, <1>2, <1>3
     DEF Served, Next, SweepNonces, SweepRecords, SetEnabled, vars

\* However handlers race, records expire and sweeps drop them, ingestion decides
\* each request as if at one moment against the frames accepted within the TTL,
\* and hands an accepted frame to each planned store once before its 202.
THEOREM AcceptanceRefined == Spec => RefinesAcceptance
<1> DEFINE I == TypeOK /\ OneFrame /\ FanOut /\ TodoPending
<1>1. Init => I
  <2>1. Init => OneFrame
    BY DEF Init, OneFrame, OneFramePerKey, Recorded
  <2>2. Init => TodoPending
    BY DEF Init, TodoPending, IdleHandler
  <2> QED BY <2>1, <2>2, InitType, InitFanOut
<1>2. I /\ [Next]_vars => I'
  BY NextType, NextOneFrame, NextFanOut, NextTodoPending
<1>3. Init => Accepting!Init
  <2> SUFFICES ASSUME Init PROVE Accepting!Init
    OBVIOUS
  <2>1. Shown(IdleHandler) = Accepting!Reply(NoRequest, 0, 0)
    BY RestShown DEF IdleHandler
  <2>2. Serving = [h \in Handlers |-> Accepting!Reply(NoRequest, 0, 0)]
    BY <2>1 DEF Init, Serving
  <2> QED BY <2>2 DEF Init, Accepting!Init
<1>4. I /\ [Next]_vars => [Accepting!Next]_(Accepting!acceptance)
  BY NextAccepts
<1> QED BY <1>1, <1>2, <1>3, <1>4, PTL DEF Spec, RefinesAcceptance, Accepting!Spec

------------------------------------------------------------------------------
(* Across restarts *)

SnapshotType == [enabled : [Stores -> BOOLEAN],
                 idem : [Keys -> Record \cup {NoRecord}],
                 book : [Nonces -> Nat],
                 jobs : SUBSET (Nat \X Stores)]

\* What a start may rely on: every record and every relay of a snapshot is of a
\* frame that some process accepted, for that key and body, for that store.
Vouched(snap) ==
    /\ snap \in SnapshotType
    /\ \A k \in Keys : snap.idem[k] # NoRecord =>
          \E a \in accepted : /\ a.frame = snap.idem[k].frame
                              /\ a.req.key = k
                              /\ a.req.body = snap.idem[k].body
                              /\ a.at + TTL = snap.idem[k].expires
    /\ \A e \in snap.jobs :
          /\ e[1] <= frames
          /\ \E a \in accepted : a.frame = e[1] /\ e[2] \in Matching[a.req.body]

RestartInv ==
    /\ TypeOK /\ FanOut
    /\ Vouched(file) /\ Vouched(saver.part)

\* An empty snapshot claims nothing.
LEMMA BlankVouched == Vouched(Blank) /\ Vouched(Blank)'
  BY DEF Vouched, Blank, SnapshotType

\* Serving takes no acceptance back.
LEMMA VouchedStays ==
  ASSUME TypeOK, [Next]_vars, NEW snap, Vouched(snap)
  PROVE  /\ \A k \in Keys : snap.idem[k] # NoRecord =>
               \E a \in accepted' : /\ a.frame = snap.idem[k].frame
                                    /\ a.req.key = k
                                    /\ a.req.body = snap.idem[k].body
                                    /\ a.at + TTL = snap.idem[k].expires
         /\ \A e \in snap.jobs :
               /\ e[1] <= frames'
               /\ \E a \in accepted' : a.frame = e[1] /\ e[2] \in Matching[a.req.body]
<1>1. accepted \subseteq accepted' /\ frames \in Nat /\ frames' \in Nat /\ frames <= frames'
  <2>1. ASSUME NEW h \in Handlers, (\E q \in Requests : Verify(h, q)) \/ HandlerStep(h)
        PROVE  accepted \subseteq accepted' /\ (frames' = frames \/ frames' = frames + 1)
    BY <2>1 DEF HandlerStep, Verify, CheckNonce, Remember, Match, Enqueue
  <2>2. \/ UNCHANGED <<accepted, frames>>
        \/ accepted \subseteq accepted' /\ (frames' = frames \/ frames' = frames + 1)
    BY <2>1 DEF Next, SweepNonces, SweepRecords, SetEnabled, Tick, vars
  <2> QED BY <2>2 DEF TypeOK
<1>2. \A e \in snap.jobs : e[1] \in Nat
  BY DEF Vouched, SnapshotType
<1>3. \A e \in snap.jobs : e[1] <= frames'
  BY <1>1, <1>2 DEF Vouched
<1> QED BY <1>1, <1>3 DEF Vouched

\* What the saver reads is of accepted frames; its sweeps are steps of Next.
LEMMA CaptureVouched ==
  ASSUME TypeOK, FanOut, Vouched(saver.part), Capture
  PROVE  Vouched(saver.part)' /\ [Next]_vars
<1> DEFINE name == CaptureOrder[saver.at]
           old == saver.part
           new == saver'.part
<1>1. /\ name \in {"stores", "records", "nonces", "jobs"}
      /\ Sweep(name) /\ new \in Extended(name, old)
  BY DEF Capture, CaptureOrder
<1> HIDE DEF name
<1>2. SweepRecords \/ SweepNonces \/ UNCHANGED vars
  BY <1>1 DEF Sweep
<1>3. UNCHANGED <<accepted, frames>>
  BY <1>2 DEF SweepRecords, SweepNonces, vars
<1>4. old \in SnapshotType
  BY DEF Vouched
<1>5. ASSUME name = "stores" PROVE Vouched(saver.part)'
  <2>1. new = [old EXCEPT !.enabled = enabled]
    BY <1>1, <1>5 DEF Extended
  <2>2. /\ new \in SnapshotType /\ new.idem = old.idem /\ new.jobs = old.jobs
    BY <1>4, <2>1 DEF SnapshotType, TypeOK
  <2> QED BY <1>3, <2>2 DEF Vouched
<1>6. ASSUME name = "records" PROVE Vouched(saver.part)'
  <2>1. new = [old EXCEPT !.idem = LiveRecords(now)]
    BY <1>1, <1>6 DEF Extended
  <2>2. LiveRecords(now) \in [Keys -> Record \cup {NoRecord}]
    BY LiveType
  <2>3. new \in SnapshotType /\ new.idem = LiveRecords(now) /\ new.jobs = old.jobs
    BY <1>4, <2>1, <2>2 DEF SnapshotType
  <2>4. \A k \in Keys : new.idem[k] # NoRecord => new.idem[k] = idem[k] /\ idem[k] # NoRecord
    BY <2>3 DEF LiveRecords
  <2> QED BY <1>3, <2>3, <2>4 DEF Vouched, FanOut, Traced, RecordsKnown
<1>7. ASSUME name = "nonces" PROVE Vouched(saver.part)'
  <2>1. new = [old EXCEPT !.book = LiveNonces(now)]
    BY <1>1, <1>7 DEF Extended
  <2>2. LiveNonces(now) \in [Nonces -> Nat]
    BY LiveType
  <2>3. new \in SnapshotType /\ new.idem = old.idem /\ new.jobs = old.jobs
    BY <1>4, <2>1, <2>2 DEF SnapshotType
  <2> QED BY <1>3, <2>3 DEF Vouched
<1>8. ASSUME name = "jobs" PROVE Vouched(saver.part)'
  <2>1. PICK jobs \in SUBSET queued : new = [old EXCEPT !.jobs = jobs]
    BY <1>1, <1>8 DEF Extended
  <2>2. jobs \in SUBSET (Nat \X Stores) /\ jobs \subseteq planned
    BY DEF TypeOK, FanOut, FanOutAccounted
  <2>3. new \in SnapshotType /\ new.idem = old.idem /\ new.jobs = jobs
    BY <1>4, <2>1, <2>2 DEF SnapshotType
  <2>4. \A e \in jobs :
          /\ e[1] <= frames
          /\ \E a \in accepted : a.frame = e[1] /\ e[2] \in Matching[a.req.body]
    BY <2>2 DEF FanOut, Traced, FramesMinted, FanOutAccounted
  <2> QED BY <1>3, <2>3, <2>4 DEF Vouched
<1> QED BY <1>1, <1>2, <1>5, <1>6, <1>7, <1>8 DEF Next

\* A process that starts from a vouched file owes nobody an answer, knows the
\* frames of its records, and has planned what it has queued.
LEMMA RestartFanOut ==
  ASSUME TypeOK, FanOut, Vouched(file), Restart
  PROVE  TypeOK' /\ FanOut' /\ Vouched(file)'
<1>1. /\ file \in SnapshotType /\ file' = file /\ frames' = frames
      /\ queued' = file.jobs /\ planned' = file.jobs /\ enabled' = file.enabled
      /\ handler' = [h \in Handlers |-> IdleHandler]
      /\ accepted' = {a \in accepted : Survives(a)}
  BY DEF Restart, Vouched
<1>2. now' \in Nat
  BY IngestAssumption DEF Restart, TypeOK
<1>3. \A k \in Keys : idem'[k] = file.idem[k] \/ idem'[k] = NoRecord
  BY DEF Restart
<1>4. /\ idem' \in [Keys -> Record \cup {NoRecord}]
      /\ book' \in [Nonces -> Nat]
  BY <1>1 DEF Restart, SnapshotType
<1>5. \A k \in Keys : file.idem[k] # NoRecord =>
          \E a \in accepted' : /\ a.frame = file.idem[k].frame
                               /\ a.req.key = k
                               /\ a.req.body = file.idem[k].body
                               /\ a.at + TTL = file.idem[k].expires
  BY <1>1 DEF Vouched, Survives
<1>6. \A e \in file.jobs :
          /\ e[1] <= frames
          /\ \E a \in accepted' : a.frame = e[1] /\ e[2] \in Matching[a.req.body]
  BY <1>1 DEF Vouched, Survives
<1>7. \A h \in Handlers : /\ handler'[h].pc = "idle" /\ handler'[h].code = 0
                           /\ handler'[h].frame = 0 /\ handler'[h] \in Handler
  BY <1>1, HandlerStates DEF IdleHandler
<1>8. TypeOK'
  BY <1>1, <1>2, <1>4, <1>7, HandlerStates DEF TypeOK, SnapshotType
<1>9. RecordsKnown'
  BY <1>3, <1>5 DEF RecordsKnown
<1>10. FramesMinted'
  <2>1. \A a \in accepted' : a.frame <= frames
    BY <1>1 DEF FanOut, Traced, FramesMinted
  <2>2. 0 <= frames
    BY DEF TypeOK
  <2> QED BY <1>1, <1>6, <1>7, <2>1, <2>2 DEF FramesMinted
<1>11. Traced'
  BY <1>7, <1>9, <1>10 DEF Traced, OneWorker, PlannedOnce, TodoPlanned, Working
<1>12. AnswersTruthful' /\ FanOutAccounted'
  BY <1>1, <1>6, <1>7 DEF AnswersTruthful, FanOutAccounted
<1> QED BY <1>1, <1>5, <1>6, <1>8, <1>11, <1>12 DEF FanOut, Vouched

\* RestartInv is inductive.
LEMMA RestartInductive ==
  ASSUME RestartInv, [RecoveryNext]_allVars
  PROVE  RestartInv'
<1> USE DEF RestartInv
<1>1. ASSUME [Next]_vars PROVE TypeOK' /\ FanOut'
  BY <1>1, NextType, NextFanOut
<1>2. ASSUME [Next]_vars, file' = file PROVE Vouched(file)'
  <2>1. file \in SnapshotType
    BY DEF Vouched
  <2> QED BY <1>2, <2>1, VouchedStays DEF Vouched
<1>3. ASSUME [Next]_vars, saver' = saver PROVE Vouched(saver.part)'
  <2>1. saver.part \in SnapshotType
    BY DEF Vouched
  <2> QED BY <1>3, <2>1, VouchedStays DEF Vouched
<1>4. CASE Serve \/ UNCHANGED allVars
  BY <1>1, <1>2, <1>3, <1>4 DEF Serve, lifeVars, allVars
<1>5. CASE Capture
  <2>1. Vouched(saver.part)' /\ [Next]_vars /\ file' = file
    BY <1>5, CaptureVouched DEF Capture
  <2> QED BY <1>1, <1>2, <2>1
<1>6. CASE Write
  <2>1. UNCHANGED vars /\ saver'.part = Blank /\ file' \in {saver.part, file}
    BY <1>6 DEF Write
  <2>2. Vouched(saver.part)'
    BY <2>1, BlankVouched DEF Vouched
  <2>3. Vouched(file)'
    BY <2>1 DEF Vouched, vars
  <2> QED BY <1>1, <2>1, <2>2, <2>3
<1>7. CASE Restart
  <2>1. saver'.part = Blank
    BY <1>7 DEF Restart
  <2>2. Vouched(saver.part)'
    BY <2>1, BlankVouched DEF Vouched
  <2> QED BY <1>7, <2>2, RestartFanOut
<1> QED BY <1>4, <1>5, <1>6, <1>7 DEF RecoveryNext

\* Whatever a snapshot caught of a request under way and whenever processes die,
\* the next ones tell no rig of a frame that was not accepted for its own key and
\* body, send no 202 before its plan is queued, and relay nothing that was not
\* planned for an accepted frame.  What a restart may do is accept again what the
\* file has no record of, see NotEnqueuedAgain.
THEOREM TruthfulAcrossRestarts ==
  RecoverySpec => [](AnswersTruthful /\ FanOutAccounted)
<1>1. RecoveryInit => RestartInv
  <2> SUFFICES ASSUME RecoveryInit PROVE RestartInv
    OBVIOUS
  <2>1. TypeOK /\ FanOut /\ file = Blank /\ saver.part = Blank
    BY InitType, InitFanOut DEF RecoveryInit
  <2> QED BY <2>1, BlankVouched DEF RestartInv
<1>2. RestartInv => AnswersTruthful /\ FanOutAccounted
  BY DEF RestartInv, FanOut
<1> QED BY <1>1, <1>2, RestartInductive, PTL DEF RecoverySpec
==============================================================================
