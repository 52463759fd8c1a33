------------------------------ MODULE Acceptance ------------------------------
(***************************************************************************)
(* What ingestion promises the rig, without signatures, nonces, records or *)
(* their expiry: a request is decided at one moment against the frames     *)
(* accepted within the TTL, and an accepted frame is handed on once to     *)
(* each store it is planned for before the rig is told.  Ingest implements *)
(* this specification, see RefinesAcceptance.                              *)
(***************************************************************************)
EXTENDS Naturals

CONSTANTS
    Handlers,   \* concurrent requests
    Requests,   \* what the rig may send
    NoRequest,  \* a refusal names no request
    Frames,     \* frame ids
    Matching,   \* stores that want a body
    TTL         \* how long a key stands for its frame

VARIABLES
    clock,
    accepted,   \* the frames, each with its request and time
    relayed,    \* frame and store of each relay handed on
    serving     \* where each request is, with its last answer

acceptance == <<clock, accepted, relayed, serving>>

Reply(q, f, c) == [at |-> "rest", req |-> q, frame |-> f, todo |-> {}, code |-> c]

Init ==
    /\ clock = 0
    /\ accepted = {}
    /\ relayed = {}
    /\ serving = [h \in Handlers |-> Reply(NoRequest, 0, 0)]

\* The frames key k stands for now.
Current(k) == {a \in accepted : a.req.key = k /\ clock < a.at + TTL}

Receive(h) ==
    LET q == serving'[h].req IN
    /\ serving[h].at = "rest"
    /\ q \in Requests
    /\ serving' = [serving EXCEPT ![h] = [Reply(q, 0, 0) EXCEPT !.at = "decide"]]
    /\ UNCHANGED <<clock, accepted, relayed>>

\* Refused on sight, or for a nonce or a key that was used for something else.
Refuse(h) ==
    LET c == serving'[h].code IN
    /\ serving[h].at \in {"rest", "decide"}
    /\ c \in {400, 401, 409, 413, 422}
    /\ serving' = [serving EXCEPT ![h] = Reply(NoRequest, 0, c)]
    /\ UNCHANGED <<clock, accepted, relayed>>

\* A retry is told the frame its key stands for.
Repeat(h) ==
    LET q == serving[h].req IN
    /\ serving[h].at = "decide"
    /\ \E a \in Current(q.key) :
          /\ a.req.body = q.body
          /\ serving' = [serving EXCEPT ![h] = Reply(q, a.frame, 200)]
    /\ UNCHANGED <<clock, accepted, relayed>>

\* A new frame, when its key stands for none.
Accept(h, f) ==
    LET q == serving[h].req IN
    /\ serving[h].at = "decide"
    /\ Current(q.key) = {}
    /\ \A a \in accepted : a.frame # f
    /\ accepted' = accepted \cup {[req |-> q, frame |-> f, at |-> clock]}
    /\ serving' = [serving EXCEPT ![h].at = "plan", ![h].frame = f]
    /\ UNCHANGED <<clock, relayed>>

\* The rig is told of an accepted frame once nothing of its plan is left.
Told(h, left) ==
    serving' = [serving EXCEPT ![h] =
        IF left = {} THEN Reply(@.req, @.frame, 202)
        ELSE [@ EXCEPT !.at = "relay", !.todo = left]]

Plan(h) ==
    /\ serving[h].at = "plan"
    /\ \E stores \in SUBSET Matching[serving[h].req.body] : Told(h, stores)
    /\ UNCHANGED <<clock, accepted, relayed>>

Relay(h, s) ==
    LET item == <<serving[h].frame, s>> IN
    /\ serving[h].at = "relay"
    /\ s \in serving[h].todo
    /\ item \notin relayed
    /\ relayed' = relayed \cup {item}
    /\ Told(h, serving[h].todo \ {s})
    /\ UNCHANGED <<clock, accepted>>

Tick ==
    /\ clock' = clock + 1
    /\ UNCHANGED <<accepted, relayed, serving>>

Serve(h) ==
    \/ Receive(h) \/ Refuse(h) \/ Repeat(h) \/ Plan(h)
    \/ \E f \in Frames : Accept(h, f)
    \/ \E s \in serving[h].todo : Relay(h, s)

Next ==
    \/ serving' # serving /\ \E h \in Handlers : Serve(h)
    \/ Tick

Spec == Init /\ [][Next]_acceptance
==============================================================================
