------------------------------- MODULE MCIngest -------------------------------
(***************************************************************************)
(* Instances of Ingest.  Second = 2 makes half seconds visible; the rig    *)
(* signs one frame, signs it again with a new nonce, and uses its key again;*)
(* the first signature also arrives under a second key.                    *)
(***************************************************************************)
EXTENDS Ingest, TLC

CONSTANTS h1, h2, s1, s2, b1, b2, n1, n2, k1, k2

TwoHandlers == {h1, h2}
TwoStores == {s1, s2}
FirstStore == {s1}
SecondStore == {s2}
NoStores == {}
TwoBodies == {b1, b2}
TwoNonces == {n1, n2}
TwoKeys == {k1, k2}

Signed(t, n, b, f) == [stamp |-> t, nonce |-> n, key |-> k1, body |-> b, form |-> f]

\* The first stamp is up to a window ahead of the clock when it is sent.
Original == Signed(1, n1, b1, "ok")
Resigned == Signed(2, n2, b1, "ok")
\* The key and the nonce of the retry, on another body.
Reused == Signed(2, n2, b2, "ok")

\* The first signature under another Idempotency-Key.
Rekeyed == [Original EXCEPT !.key = k2]

FewRequests == {Original, Resigned, Reused, Rekeyed}
\* One refused before its stamp is looked at and one refused after: the other
\* forms differ from them in the status only.
Refused == {Signed(1, n1, b1, f) : f \in {"no_header", "bad_json"}}
EveryRequest == FewRequests \cup Refused
OneSignature == {Original, Rekeyed}

MatchAll == (b1 :> {s1} @@ b2 :> {s1, s2})
MatchFirst == (b1 :> {s1} @@ b2 :> {s1})

Symmetry == Permutations(TwoHandlers)
==============================================================================
