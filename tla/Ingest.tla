-------------------------------- MODULE Ingest --------------------------------
(***************************************************************************)
(* Signed ingestion: Pipeline.Handle of internal/ingest run by concurrent  *)
(* HTTP handlers over the shared nonce book and idempotency store, up to   *)
(* the enqueueing of one relay per matching store.                         *)
(*                                                                         *)
(* A request is what arrives: the time stamp, the nonce and the body the   *)
(* rig signed, and the Idempotency-Key header, which the signature does not*)
(* cover.  It may arrive any number of times, at any time, and one         *)
(* signature may arrive under several keys.  The clock runs in ticks,      *)
(* Second of them to the second: time stamps are whole seconds, expiry     *)
(* times are not.                                                          *)
(***************************************************************************)
EXTENDS Naturals, FiniteSets

CONSTANTS
    Handlers,   \* HTTP handler goroutines
    Stores,     \* geology stores
    Bodies,     \* frame bodies; SHA256Hex tells them apart
    Nonces,
    Keys,       \* idempotency keys
    NoRecord,   \* a key the idempotency store does not know
    NoRequest,  \* a handler that has served nothing yet
    Requests,   \* requests that may arrive
    Matching,   \* stores whose type prefixes match a body
    Second,     \* ticks per second
    Window,     \* signature window in seconds (MUDLOG window, 300)
    TTL,        \* ticks an idempotency record lives (24h)
    MaxLag,     \* ticks from Verify to the answer of one request
    Switchable, \* bound: stores the operator switches on and off
    MaxFrames,  \* bound: frame ids that idgen can mint
    MaxTime     \* bound: last tick of the clock

Forms == {"too_large", "no_header", "bad_key", "unknown_source", "bad_nonce",
          "mismatch", "bad_json", "bad_frame", "ok"}

Request == [stamp : Nat \ {0}, nonce : Nonces, key : Keys, body : Bodies,
            form : Forms]

\* CanonicalV1: what the HMAC of a request covers.
Signature(q) == <<q.stamp, q.nonce, q.body>>

ASSUME IngestAssumption ==
    /\ Requests \subseteq Request
    /\ NoRequest \notin Request
    /\ Matching \in [Bodies -> SUBSET Stores]
    /\ Second \in Nat \ {0}
    /\ Window \in Nat \ {0}
    /\ TTL \in Nat \ {0}
    /\ MaxLag \in Nat
    /\ Switchable \subseteq Stores
    /\ MaxFrames \in Nat
    /\ MaxTime \in Nat
    /\ NoRecord \notin [body : Bodies, frame : Nat, expires : Nat]

VARIABLES
    now,        \* clk.Now()
    enabled,    \* geology.Store.Enabled
    book,       \* nonce.Book.entries: expiry of each nonce, 0 if absent
    idem,       \* idempotency.Store.byKey
    queued,     \* relays handed to the broker, by frame and store
    handler,    \* state of each handler, with its last answer
    frames,     \* frame ids minted so far
    accepted,   \* history: what Remember let through
    planned     \* history: what PlanStores planned, by frame and store

vars == <<now, enabled, book, idem, queued, handler, frames, accepted, planned>>

Record == [body : Bodies, frame : Nat, expires : Nat]

Accepted == [req : Requests, frame : Nat, at : Nat]

Handler == [pc : {"idle", "nonce", "idem", "match", "enqueue"},
            req : Requests \cup {NoRequest},
            since : Nat,
            frame : Nat,
            todo : SUBSET Stores,
            code : {0, 200, 202, 400, 401, 409, 413, 422}]

IdleHandler == [pc |-> "idle", req |-> NoRequest, since |-> 0, frame |-> 0,
                todo |-> {}, code |-> 0]

Init ==
    /\ now = 0
    /\ enabled = [s \in Stores |-> TRUE]
    /\ book = [n \in Nonces |-> 0]
    /\ idem = [k \in Keys |-> NoRecord]
    /\ queued = {}
    /\ handler = [h \in Handlers |-> IdleHandler]
    /\ frames = 0
    /\ accepted = {}
    /\ planned = {}

------------------------------------------------------------------------------
(* Verification *)

\* clk.Now().Unix()
Unix(t) == t \div Second

BadSkewed(q, t) == q.stamp + Window < Unix(t)

\* sign.Verify: the stamp lies outside the window on either side.
Skewed(q, t) == q.stamp + Window < Unix(t) \/ Unix(t) + Window < q.stamp

BadEarlyStatus == [too_large |-> 413, no_header |-> 404, bad_key |-> 400,
                   unknown_source |-> 401, bad_nonce |-> 401]

\* Statuses of the checks before the window's: the body limit of the frames
\* endpoint, ParseInbound, ValidIdempotencyKey, Secrets, ValidNonce and
\* ParseSignatureHeader.
EarlyStatus == [too_large |-> 413, no_header |-> 400, bad_key |-> 400,
                unknown_source |-> 401, bad_nonce |-> 401]

\* Statuses after it: the HMAC comparison and frame.Parse; 0 lets it pass.
LateStatus == [mismatch |-> 401, bad_json |-> 400, bad_frame |-> 422, ok |-> 0]

Verdict(q, t) ==
    IF q.form \in DOMAIN EarlyStatus THEN EarlyStatus[q.form]
    ELSE IF Skewed(q, t) THEN 400
    ELSE LateStatus[q.form]

\* gcLocked of both stores: entries whose expiry is not after t.
LiveNonces(t) == [n \in Nonces |-> IF book[n] > t THEN book[n] ELSE 0]

BadExpired(k, t) == idem[k] # NoRecord => idem[k].expires <= t + 1

Expired(k, t) == idem[k] # NoRecord => idem[k].expires <= t

LiveRecords(t) == [k \in Keys |-> IF Expired(k, t) THEN NoRecord ELSE idem[k]]

Refuse(h, code) ==
    handler' = [handler EXCEPT ![h] =
        [pc |-> "idle", req |-> NoRequest, since |-> 0, frame |-> 0,
         todo |-> {}, code |-> code]]

Answer(h, code, frame) ==
    handler' = [handler EXCEPT ![h] =
        [pc |-> "idle", req |-> handler[h].req, since |-> 0, frame |-> frame,
         todo |-> {}, code |-> code]]

------------------------------------------------------------------------------
(* Pipeline.Handle, one action per call on a shared object. *)

\* Everything up to frame.Parse reads the request and the clock only.
Verify(h, q) ==
    LET code == Verdict(q, now) IN
    /\ handler[h].pc = "idle"
    /\ IF code # 0 THEN Refuse(h, code)
       ELSE handler' = [handler EXCEPT ![h] =
               [pc |-> "nonce", req |-> q, since |-> now, frame |-> 0,
                todo |-> {}, code |-> 0]]
    /\ UNCHANGED <<now, enabled, book, idem, queued, frames, accepted, planned>>

BadCheckNonce(h) ==
    LET q == handler[h].req IN
    /\ handler[h].pc = "nonce"
    /\ \/ /\ book[q.nonce] > now + 1
          /\ book' = LiveNonces(now)
          /\ Refuse(h, 409)
       \/ /\ book[q.nonce] <= now + 1
          /\ book' = [LiveNonces(now) EXCEPT ![q.nonce] = now + Window * Second]
          /\ handler' = [handler EXCEPT ![h].pc = "idem"]
    /\ UNCHANGED <<now, enabled, idem, queued, frames, accepted, planned>>

\* Nonces.CheckAndRemember
CheckNonce(h) ==
    LET q == handler[h].req IN
    /\ handler[h].pc = "nonce"
    /\ \/ /\ book[q.nonce] > now
          /\ book' = LiveNonces(now)
          /\ Refuse(h, 409)
       \/ /\ book[q.nonce] <= now
          /\ book' = [LiveNonces(now) EXCEPT ![q.nonce] = now + Window * Second]
          /\ handler' = [handler EXCEPT ![h].pc = "idem"]
    /\ UNCHANGED <<now, enabled, idem, queued, frames, accepted, planned>>

BadRemember(h) ==
    LET q == handler[h].req
        old == idem[q.key]
    IN
    /\ handler[h].pc = "idem"
    /\ \/ /\ ~Expired(q.key, now)
          /\ idem' = LiveRecords(now)
          /\ Answer(h, 200, old.frame)
          /\ UNCHANGED <<frames, accepted>>
       \/ /\ Expired(q.key, now)
          /\ frames < MaxFrames
          /\ frames' = frames + 1
          /\ idem' = [LiveRecords(now) EXCEPT ![q.key] =
                [body |-> q.body, frame |-> frames + 1, expires |-> now + TTL]]
          /\ accepted' = accepted \cup {[req |-> q, frame |-> frames + 1, at |-> now]}
          /\ handler' = [handler EXCEPT ![h] =
                [@ EXCEPT !.pc = "match", !.frame = frames + 1]]
    /\ UNCHANGED <<now, enabled, book, queued, planned>>

\* Idem.Remember with a newly minted frame id.
Remember(h) ==
    LET q == handler[h].req
        old == idem[q.key]
    IN
    /\ handler[h].pc = "idem"
    /\ \/ /\ ~Expired(q.key, now)
          /\ idem' = LiveRecords(now)
          /\ IF old.body = q.body THEN Answer(h, 200, old.frame)
                                  ELSE Refuse(h, 409)
          /\ UNCHANGED <<frames, accepted>>
       \/ /\ Expired(q.key, now)
          /\ frames < MaxFrames
          /\ frames' = frames + 1
          /\ idem' = [LiveRecords(now) EXCEPT ![q.key] =
                [body |-> q.body, frame |-> frames + 1, expires |-> now + TTL]]
          /\ accepted' = accepted \cup {[req |-> q, frame |-> frames + 1, at |-> now]}
          /\ handler' = [handler EXCEPT ![h] =
                [@ EXCEPT !.pc = "match", !.frame = frames + 1]]
    /\ UNCHANGED <<now, enabled, book, queued, planned>>

\* Stores.Matching and fanout.PlanStores; no match is an accepted frame with
\* nothing to relay.
Match(h) ==
    LET plan == {s \in Matching[handler[h].req.body] : enabled[s]} IN
    /\ handler[h].pc = "match"
    /\ planned' = planned \cup ({handler[h].frame} \X plan)
    /\ IF plan = {} THEN Answer(h, 202, handler[h].frame)
       ELSE handler' = [handler EXCEPT ![h] =
               [@ EXCEPT !.pc = "enqueue", !.todo = plan]]
    /\ UNCHANGED <<now, enabled, book, idem, queued, frames, accepted>>

BadEnqueue(h) ==
    /\ handler[h].pc = "enqueue"
    /\ \E s \in handler[h].todo : queued' = queued \cup {<<handler[h].frame, s>>}
    /\ Answer(h, 202, handler[h].frame)
    /\ UNCHANGED <<now, enabled, book, idem, frames, accepted, planned>>

\* Broker.Ensure and Broker.Enqueue of one item of the plan.
Enqueue(h) ==
    /\ handler[h].pc = "enqueue"
    /\ \E s \in handler[h].todo :
        /\ queued' = queued \cup {<<handler[h].frame, s>>}
        /\ IF handler[h].todo = {s} THEN Answer(h, 202, handler[h].frame)
           ELSE handler' = [handler EXCEPT ![h].todo = @ \ {s}]
    /\ UNCHANGED <<now, enabled, book, idem, frames, accepted, planned>>

HandlerStep(h) == CheckNonce(h) \/ Remember(h) \/ Match(h) \/ Enqueue(h)

------------------------------------------------------------------------------
(* Environment *)

\* Nonces.Snapshot and Idem.Snapshot, taken by store.Capture, drop what expired.
SweepNonces ==
    /\ book' = LiveNonces(now)
    /\ UNCHANGED <<now, enabled, idem, queued, handler, frames, accepted, planned>>

SweepRecords ==
    /\ idem' = LiveRecords(now)
    /\ UNCHANGED <<now, enabled, book, queued, handler, frames, accepted, planned>>

\* Registry.SetEnabled
SetEnabled(s) ==
    /\ enabled' = [enabled EXCEPT ![s] = ~@]
    /\ UNCHANGED <<now, book, idem, queued, handler, frames, accepted, planned>>

\* A handler is not descheduled for longer than MaxLag within one request.
Tick ==
    /\ now < MaxTime
    /\ \A h \in Handlers : handler[h].pc # "idle" => now < handler[h].since + MaxLag
    /\ now' = now + 1
    /\ UNCHANGED <<enabled, book, idem, queued, handler, frames, accepted, planned>>

Next ==
    \/ \E h \in Handlers : (\E q \in Requests : Verify(h, q)) \/ HandlerStep(h)
    \/ SweepNonces \/ SweepRecords
    \/ \E s \in Switchable : SetEnabled(s)
    \/ Tick

Spec == Init /\ [][Next]_vars

------------------------------------------------------------------------------
(* Properties *)

\* Type correctness; a busy handler has a well-formed request.
TypeOK ==
    /\ now \in Nat
    /\ enabled \in [Stores -> BOOLEAN]
    /\ book \in [Nonces -> Nat]
    /\ idem \in [Keys -> Record \cup {NoRecord}]
    /\ queued \subseteq Nat \X Stores
    /\ handler \in [Handlers -> Handler]
    /\ frames \in Nat
    /\ accepted \subseteq Accepted
    /\ planned \subseteq Nat \X Stores
    /\ \A h \in Handlers : handler[h].pc # "idle" => handler[h].req \in Requests

\* PROJECT.md 3.2: an idempotency key admits one frame per TTL, however many
\* handlers serve requests with it at once.
OneFramePerKey ==
    \A a, b \in accepted :
        a.req.key = b.req.key /\ a # b => a.at + TTL <= b.at \/ b.at + TTL <= a.at

\* The idempotency records outlive every signature: both sides of the window,
\* the second a stamp is rounded to, and the time a handler may take.
LongTTL == TTL >= (2 * Window + 1) * Second + MaxLag

\* Under LongTTL a request delivered again as it was, key included, is accepted
\* at most once, ever: by the time its idempotency record expires its time stamp
\* has left the window.
ResentOnce == \A a, b \in accepted : a.req = b.req => a = b

\* Under whatever keys a nonce arrives, two frames accepted with it lie a window
\* apart, up to the time a handler takes from Verify to Remember: however the
\* two handlers are interleaved, the second passed CheckAndRemember after the
\* first one's record had expired.  It is all that stands between one signature
\* and a frame for each key it arrives under.
NonceSpaced ==
    \A a, b \in accepted :
        a.req.nonce = b.req.nonce /\ a # b =>
            \/ a.at + Window * Second <= b.at + MaxLag
            \/ b.at + Window * Second <= a.at + MaxLag

\* A positive answer is truthful: the frame it names was accepted for the
\* request's own key and body, and a 202 comes after all its relays are queued.
AnswersTruthful ==
    \A h \in Handlers :
        LET r == handler[h] IN
        r.pc = "idle" /\ r.code \in {200, 202} =>
            /\ \E a \in accepted : /\ a.frame = r.frame
                                   /\ a.req.key = r.req.key
                                   /\ a.req.body = r.req.body
            /\ r.code = 202 => \A e \in planned : e[1] = r.frame => e \in queued

\* What a fan-out planned is queued or still in the hands of the one handler
\* that accepted the frame, and only frames that were accepted are queued.
FanOutAccounted ==
    /\ \A e \in planned :
          e \in queued \/ \E h \in Handlers : /\ handler[h].pc = "enqueue"
                                             /\ handler[h].frame = e[1]
                                             /\ e[2] \in handler[h].todo
    /\ queued \subseteq planned
    /\ \A e \in planned : \E a \in accepted :
          a.frame = e[1] /\ e[2] \in Matching[a.req.body]

\* PROJECT.md 3.1: "The same nonce may succeed only once inside the window."
\* A signature that was accepted does not pass the nonce check a second time,
\* under any key; Verify has found its stamp inside the window both times.
NonceOnceInWindow ==
    \A h \in Handlers : handler[h].pc = "idem" =>
        \A a \in accepted : Signature(a.req) # Signature(handler[h].req)

------------------------------------------------------------------------------
\* What is left of a handler when the nonce and the record checks are one.
Stage == [idle |-> "rest", nonce |-> "decide", idem |-> "decide",
          match |-> "plan", enqueue |-> "relay"]

\* What Acceptance sees of the handlers.
Shown(r) == [at |-> Stage[r.pc], req |-> r.req, frame |-> r.frame,
             todo |-> r.todo, code |-> r.code]

Serving == [h \in Handlers |-> Shown(handler[h])]

Accepting == INSTANCE Acceptance WITH
    clock <- now, relayed <- queued, serving <- Serving, Frames <- 1..MaxFrames

\* However the records expire, are swept and are raced for, a key stands for the
\* frame accepted within the TTL and for no other: a retry is answered with it,
\* nothing else is accepted meanwhile, and an accepted frame reaches the broker
\* once for each planned store before its 202.
RefinesAcceptance == Accepting!Spec
==============================================================================
